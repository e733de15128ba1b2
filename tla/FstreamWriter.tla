--------------------------- MODULE FstreamWriter ---------------------------
(***************************************************************************)
(* write_msg of src/src/unix/socket_transport.c, one caller at a time (the *)
(* holder of cmd_mutex), against a device that parses the bytes it gets.   *)
(* One action per write() and one for each end of the loop.                *)
(***************************************************************************)
EXTENDS Fstream

CONSTANTS Payloads,     \* the payloads command() passes
          MaxMessages,  \* bound: calls of write_msg
          SendBuffer    \* bytes the socket takes before the device reads

ASSUME FstreamWriterAssumption ==
  /\ \A p \in Payloads : p \in Seq(0 .. Base - 1) /\ Len(p) < Place[4]
  /\ MaxMessages \in Nat /\ SendBuffer \in Nat \ {0}

VARIABLES at,      \* "idle", or in the loop of write_msg: "write"
          left,    \* the bytes of the frame not yet written
          result,  \* what write_msg returned last
          tx,      \* bytes in the socket, not yet read by the device
          broken,  \* the connection is gone for writing
          dbuf,    \* bytes of the frame that the device is reading
          posted, taken, torn  \* payloads of the calls; of the device; a frame was cut

local == <<at, left, result>>
device == <<dbuf, taken>>
vars == <<local, tx, broken, device, posted, torn>>

Init == /\ at = "idle" /\ left = <<>> /\ result = IO4E_OK
        /\ tx = <<>> /\ broken = FALSE /\ dbuf = <<>>
        /\ posted = <<>> /\ taken = <<>> /\ torn = FALSE

-----------------------------------------------------------------------------
(* The caller leaves room for the header, which write_msg fills in; so a   *)
(* buffer is never shorter than the header.                                *)
write_msg(p) == /\ at = "idle" /\ Len(posted) < MaxMessages
                /\ at' = "write"
                /\ left' = Magic \o WriteLength(Len(p)) \o p
                /\ posted' = Append(posted, p)
                /\ UNCHANGED <<result, tx, broken, device, torn>>

(* Mutant: a partial write counts as a complete one. *)
WriteAll(k) == /\ at = "write" /\ ~broken
               /\ k <= Len(left) /\ Len(tx) + k <= SendBuffer
               /\ tx' = tx \o SubSeq(left, 1, k)
               /\ left' = <<>>
               /\ UNCHANGED <<at, result, broken, device, posted, torn>>

(* write() takes some of the bytes.  A write that a signal interrupts takes*)
(* none and is repeated, which changes nothing.                            *)
Write(k) == /\ at = "write" /\ ~broken
            /\ k <= Len(left) /\ Len(tx) + k <= SendBuffer
            /\ tx' = tx \o SubSeq(left, 1, k)
            /\ left' = SubSeq(left, k + 1, Len(left))
            /\ UNCHANGED <<at, result, broken, device, posted, torn>>

Return(code) == at' = "idle" /\ left' = <<>> /\ result' = code

(* Mutant: write_msg returns after the first write. *)
DoneEarly == /\ at = "write"
             /\ Return(IO4E_OK)
             /\ UNCHANGED <<tx, broken, device, posted, torn>>

Done == /\ at = "write" /\ left = <<>>
        /\ Return(IO4E_OK)
        /\ UNCHANGED <<tx, broken, device, posted, torn>>

(* Mutant: every error is retried. *)
WriteRetries == at = "write" /\ broken /\ left # <<>> /\ UNCHANGED vars

(* Any other error ends write_msg, with the frame cut where it was.        *)
WriteFails == /\ at = "write" /\ broken /\ left # <<>>
              /\ Return(IO4E_FAIL)
              /\ torn' = TRUE
              /\ UNCHANGED <<tx, broken, device, posted>>

(* The device or the network ends the connection. *)
Break == /\ ~broken /\ broken' = TRUE
         /\ UNCHANGED <<local, tx, device, posted, torn>>

-----------------------------------------------------------------------------
(* The device reads byte by byte and reads lengths as read_msg does.       *)
Frame == dbuf \o <<Head(tx)>>
Complete(f) == /\ Len(f) >= FSTREAM_HEADER_SIZE
               /\ Len(f) = FSTREAM_HEADER_SIZE + HeaderLength(f)
DeviceReads == /\ tx # <<>>
               /\ tx' = Tail(tx)
               /\ IF Complete(Frame)
                    THEN /\ taken' = Append(taken, SubSeq(Frame, FSTREAM_HEADER_SIZE + 1, Len(Frame)))
                         /\ dbuf' = <<>>
                    ELSE dbuf' = Frame /\ UNCHANGED taken
               /\ UNCHANGED <<local, broken, posted, torn>>

Next == \/ \E p \in Payloads : write_msg(p)
        \/ \E k \in 1 .. Len(left) : Write(k)
        \/ Done \/ WriteFails \/ Break \/ DeviceReads

Spec == Init /\ [][Next]_vars

(* The loop of write_msg runs on, and the device reads what arrives.       *)
Fairness == /\ WF_vars(\E k \in 1 .. Len(left) : Write(k)) /\ WF_vars(Done)
            /\ WF_vars(WriteFails) /\ WF_vars(DeviceReads)
FairSpec == Spec /\ Fairness

-----------------------------------------------------------------------------
(* Types; the socket is never overfilled and the device's frame is short. *)
TypeOK == /\ at \in {"idle", "write"} /\ left \in Seq(0 .. Base - 1)
          /\ result \in {IO4E_OK, IO4E_FAIL}
          /\ tx \in Seq(0 .. Base - 1) /\ Len(tx) <= SendBuffer
          /\ broken \in BOOLEAN /\ dbuf \in Seq(0 .. Base - 1) /\ torn \in BOOLEAN

(* What the device reads are the messages written, in order, however the   *)
(* socket splits them, as long as their lengths fit into two bytes ...     *)
Channel == INSTANCE MessageChannel
ImplementsChannel == Channel!Spec

(* ... and it is told the length that was meant (line 14 of the source: "2 *)
(* bytes magic, 4 bytes length").                                          *)
LengthIsTold ==
  ~torn /\ Len(dbuf) >= FSTREAM_HEADER_SIZE =>
    HeaderLength(dbuf) = Len(posted[Len(taken) + 1])

(* write_msg returns, and what it wrote is read, unless the connection     *)
(* breaks.                                                                 *)
Returns == at = "write" ~> at = "idle"
Arrives == \A n \in 1 .. MaxMessages : Len(posted) >= n ~> (Len(taken) >= n \/ torn)
=============================================================================
