--------------------------- MODULE FstreamReader ---------------------------
(***************************************************************************)
(* read_msg of src/src/unix/socket_transport.c, called over and over by    *)
(* the read thread, against a device that sends frames, closes or resets   *)
(* the connection, while signals interrupt it.  One action per system call *)
(* and one for what follows a complete read.                               *)
(***************************************************************************)
EXTENDS Fstream

CONSTANTS Payloads,    \* the payloads the device sends
          MaxMessages, \* bound: messages the device sends
          MaxSignals,  \* bound: reads interrupted by a signal
          MaxNoMem     \* bound: allocations that fail

ASSUME FstreamReaderAssumption ==
  /\ \A p \in Payloads : p \in Seq(0 .. Base - 1) /\ Len(p) < Place[4]
  /\ MaxMessages \in Nat /\ MaxSignals \in Nat /\ MaxNoMem \in Nat

VARIABLES rx,      \* bytes on the way from the device
          conn,    \* "open", "closed" by the device, or "reset": to be reported
          at,      \* the call that read_msg is about to make
          buf,     \* the bytes read_complete has read so far
          len,     \* the length of the payload
          heap,    \* payload buffers allocated, not freed and not handed over
          result,  \* what read_msg returned last
          posted, taken, skipped,  \* messages sent; returned; bytes read for no message
          signals, nomem, cut      \* faults; whether the end cut off bytes sent

call == <<at, buf, len, heap, result>>
faults == <<signals, nomem, cut>>
history == <<posted, taken, skipped, faults>>
vars == <<rx, conn, call, history>>

Init == /\ rx = <<>> /\ conn = "open"
        /\ at = "select" /\ buf = <<>> /\ len = 0 /\ heap = 0 /\ result = IO4E_OK
        /\ posted = <<>> /\ taken = <<>> /\ skipped = 0
        /\ signals = 0 /\ nomem = 0 /\ cut = FALSE

DeviceSends == /\ conn = "open" /\ Len(posted) < MaxMessages
               /\ \E p \in Payloads : /\ posted' = Append(posted, p)
                                      /\ rx' = rx \o DeviceFrame(p)
               /\ UNCHANGED <<conn, call, taken, skipped, faults>>

(* The device ends the connection, or dies with k bytes delivered.         *)
DeviceEnds == /\ conn = "open"
              /\ conn' \in {"closed", "reset"}
              /\ \E k \in 0 .. Len(rx) : rx' = SubSeq(rx, 1, k) /\ cut' = (k < Len(rx))
              /\ UNCHANGED <<call, posted, taken, skipped, signals, nomem>>

-----------------------------------------------------------------------------
(* Bytes of the frame that read_msg has consumed; all of them if it fails. *)
Consumed == IF at = "payload" THEN FSTREAM_HEADER_SIZE + Len(buf) ELSE Len(buf)

Restart(code) == at' = "select" /\ buf' = <<>> /\ len' = 0 /\ result' = code

Fail(code, payload) == /\ Restart(code)
                       /\ skipped' = skipped + Consumed
                       /\ heap' = heap - payload
                       /\ UNCHANGED <<posted, taken>>

Succeed(message, payload) == /\ Restart(IO4E_OK)
                             /\ taken' = Append(taken, message)
                             /\ heap' = heap - payload
                             /\ UNCHANGED <<posted, skipped, faults>>

(* A message that has not arrived yet is still in rx: select may time out. *)
SelectTimesOut == /\ at = "select"
                  /\ Restart(IO4E_ERR_TIMEOUT)
                  /\ UNCHANGED <<rx, conn, heap, history>>

(* A select that fails is taken for one that found data.                   *)
Select == /\ at = "select"
          /\ \/ rx # <<>> \/ conn # "open"
             \/ signals < MaxSignals
          /\ at' = "header"
          /\ signals' = IF rx # <<>> \/ conn # "open" THEN signals ELSE signals + 1
          /\ UNCHANGED <<rx, conn, buf, len, heap, result, posted, taken, skipped, nomem, cut>>

Wanted == CASE at = "header"  -> FSTREAM_HEADER_SIZE - Len(buf)
            [] at = "payload" -> len - Len(buf)
            [] OTHER          -> 0

(* Mutant: what a partial read returned is dropped. *)
ReadDropsPart(k) == /\ k <= Wanted /\ k <= Len(rx)
                    /\ buf' = IF k < Wanted THEN buf ELSE buf \o SubSeq(rx, 1, k)
                    /\ rx' = SubSeq(rx, k + 1, Len(rx))
                    /\ UNCHANGED <<conn, at, len, heap, result, history>>

(* Mutant: read() is asked for more than is missing. *)
ReadTooMuch(k) == /\ Wanted > 0 /\ k <= Len(rx)
                  /\ buf' = buf \o SubSeq(rx, 1, k)
                  /\ rx' = SubSeq(rx, k + 1, Len(rx))
                  /\ UNCHANGED <<conn, at, len, heap, result, history>>

(* read() returns from 1 to all of the bytes asked for. *)
Read(k) == /\ k <= Wanted /\ k <= Len(rx)
           /\ buf' = buf \o SubSeq(rx, 1, k)
           /\ rx' = SubSeq(rx, k + 1, Len(rx))
           /\ UNCHANGED <<conn, at, len, heap, result, history>>

(* Mutant: the payload is not freed. *)
AbortLeaks(code) == /\ Wanted > 0
                    /\ Fail(code, 0)

(* read_complete gives up; a payload is freed. *)
Abort(code) == /\ Wanted > 0
               /\ Fail(code, IF at = "payload" THEN 1 ELSE 0)

ReadEof == /\ rx = <<>> /\ conn = "closed"
           /\ Abort(IO4E_ERR_CONNECTION_CLOSED)
           /\ UNCHANGED <<rx, conn, faults>>

(* read_complete returns errno, and EINTR is IO4E_ERR_CONNECTION_CLOSED;   *)
(* the socket blocks, so that EAGAIN does not happen.                      *)
ReadInterrupted == /\ signals < MaxSignals
                   /\ Abort(EINTR)
                   /\ signals' = signals + 1
                   /\ UNCHANGED <<rx, conn, nomem, cut>>

ReadReset == /\ rx = <<>> /\ conn = "reset"
             /\ Abort(ECONNRESET)
             /\ conn' = "closed"
             /\ UNCHANGED <<rx, faults>>

HeaderRead == at = "header" /\ Wanted = 0 /\ UNCHANGED <<rx, conn>>

MagicMissing == /\ HeaderRead /\ ~IsMagic(buf)
                /\ Fail(IO4E_FAIL, 0)
                /\ UNCHANGED faults

(* Mutant: a message without payload is an error. *)
EmptyRefused == /\ HeaderRead /\ IsMagic(buf) /\ HeaderLength(buf) = 0
                /\ Fail(IO4E_FAIL, 0)
                /\ UNCHANGED faults

Empty == /\ HeaderRead /\ IsMagic(buf) /\ HeaderLength(buf) = 0
         /\ Succeed(<<>>, 0)

NoMem == /\ HeaderRead /\ IsMagic(buf) /\ HeaderLength(buf) > 0
         /\ nomem < MaxNoMem
         /\ Fail(IO4E_ERR_NO_MEM, 0)
         /\ nomem' = nomem + 1 /\ UNCHANGED <<signals, cut>>

Allocate == /\ HeaderRead /\ IsMagic(buf) /\ HeaderLength(buf) > 0
            /\ at' = "payload" /\ len' = HeaderLength(buf) /\ buf' = <<>>
            /\ heap' = heap + 1
            /\ UNCHANGED <<result, history>>

PayloadRead == /\ at = "payload" /\ Wanted = 0
               /\ Succeed(buf, 1)
               /\ UNCHANGED <<rx, conn>>

read_msg == \/ SelectTimesOut \/ Select
            \/ \E k \in 1 .. Len(rx) : Read(k)
            \/ ReadEof \/ ReadInterrupted \/ ReadReset
            \/ MagicMissing \/ Empty \/ NoMem \/ Allocate \/ PayloadRead
Next == DeviceSends \/ DeviceEnds \/ read_msg

Spec == Init /\ [][Next]_vars

(* The read thread calls read_msg for ever, select does not miss data that *)
(* stays there, and TCP delivers what was sent.                            *)
Fairness == /\ WF_vars(Select) /\ WF_vars(\E k \in 1 .. Len(rx) : Read(k))
            /\ WF_vars(MagicMissing \/ Empty \/ NoMem \/ Allocate \/ PayloadRead)
FairSpec == Spec /\ Fairness

-----------------------------------------------------------------------------
(* Types; no more is read than was asked for. *)
TypeOK == /\ rx \in Seq(0 .. Base - 1) /\ conn \in {"open", "closed", "reset"}
          /\ at \in {"select", "header", "payload"}
          /\ buf \in Seq(0 .. Base - 1) /\ len \in 0 .. Place[4] - 1 /\ Wanted >= 0
          /\ heap \in Nat
          /\ result \in {IO4E_OK, IO4E_FAIL, IO4E_ERR_TIMEOUT, IO4E_ERR_NO_MEM,
                         IO4E_ERR_CONNECTION_CLOSED, ECONNRESET}
          /\ skipped \in Nat /\ signals \in 0 .. MaxSignals /\ nomem \in 0 .. MaxNoMem
          /\ cut \in BOOLEAN

(* As long as no byte of an unfinished frame was thrown away, the read     *)
(* thread gets whole messages, once each and in order, in whatever pieces  *)
(* they arrive.                                                            *)
Channel == INSTANCE MessageChannel WITH torn <- skipped > 0
ImplementsChannel == Channel!Spec

(* ... and what it meets where it expects a frame is the next frame: it is *)
(* never a missing magic that costs the first message, ...                 *)
NoFalseAlarm == [][skipped = 0 /\ skipped' > 0 => result' # IO4E_FAIL]_vars
(* ... and nothing is thrown away but by a signal or a failing malloc in   *)
(* the middle of a frame, or by a device that ends in the middle of one.   *)
LossHasCause == skipped > 0 => signals > 0 \/ nomem > 0 \/ cut

(* Every payload that is allocated is handed over or freed. *)
NoPayloadLeak == heap = IF at = "payload" THEN 1 ELSE 0

(* Every message is delivered, also those that were under way when the     *)
(* device closed the connection, unless the channel is torn or cut off.    *)
Delivered == \A n \in 1 .. MaxMessages :
               Len(posted) >= n ~> (Len(taken) >= n \/ skipped > 0 \/ cut)
=============================================================================
