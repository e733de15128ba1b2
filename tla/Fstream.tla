------------------------------ MODULE Fstream ------------------------------
(***************************************************************************)
(* The frames of src/src/unix/socket_transport.c: two magic bytes, the     *)
(* length of the payload in four bytes, the payload.  A byte has Base      *)
(* values (256 in the program), so that small payloads reach every byte of *)
(* the length.                                                             *)
(***************************************************************************)
EXTENDS Integers, Sequences

CONSTANTS Base,   \* values of a byte
          Magic   \* magic_bytes

ASSUME FstreamAssumption == /\ Base \in Nat \ {0, 1}
                            /\ Magic \in [1 .. 2 -> 0 .. Base - 1]

FSTREAM_HEADER_SIZE == 6

(* Codes of io4edge_client.h, and the errno values read() fails with here: *)
(* one of them is also a code.                                             *)
IO4E_OK == 0
IO4E_FAIL == -1
IO4E_ERR_TIMEOUT == 1
IO4E_ERR_NO_MEM == 2
IO4E_ERR_CONNECTION_CLOSED == 4
EINTR == 4
ECONNRESET == 104

(* Digit i of n, the lowest one being digit 0. *)
Place == [i \in 0 .. 4 |-> CASE i = 0 -> 1 [] i = 1 -> Base [] i = 2 -> Base * Base
                             [] i = 3 -> Base * Base * Base [] i = 4 -> Base * Base * Base * Base]
Digit(n, i) == (n \div Place[i]) % Base

(* write_msg fills the last two bytes of the length with the same digit. *)
WriteLength(n) == <<Digit(n, 0), Digit(n, 1), Digit(n, 2), Digit(n, 2)>>

(* Mutant: the length is read with its highest byte first. *)
ReadLengthSwapped(b) == b[4] * Place[0] + b[3] * Place[1] + b[2] * Place[2] + b[1] * Place[3]

ReadLength(b) == b[1] * Place[0] + b[2] * Place[1] + b[3] * Place[2] + b[4] * Place[3]

(* The other side, which this code talks to, puts every digit in its byte. *)
DeviceLength(n) == <<Digit(n, 0), Digit(n, 1), Digit(n, 2), Digit(n, 3)>>
DeviceFrame(p)  == Magic \o DeviceLength(Len(p)) \o p

IsMagic(header)      == SubSeq(header, 1, 2) = Magic
HeaderLength(header) == ReadLength(SubSeq(header, 3, FSTREAM_HEADER_SIZE))
=============================================================================
