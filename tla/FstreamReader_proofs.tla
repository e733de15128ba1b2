------------------------ MODULE FstreamReader_proofs ------------------------
(***************************************************************************)
(* Proofs about read_msg: as long as nothing of an unfinished frame was    *)
(* thrown away, what read_msg has read of the frame under way, followed by *)
(* what is on its way, are the frames of the messages not yet returned.    *)
(***************************************************************************)
EXTENDS FstreamReader, Fstream_proofs

Partial == IF at = "payload" THEN HeaderOf(len) \o buf ELSE buf
Bytes == Partial \o rx

Kept == /\ TypeOK /\ NoPayloadLeak
        /\ posted \in Seq(Payloads) /\ taken \in Seq(Seq(Byte))
        /\ at = "select" => buf = <<>>
        /\ conn = "open" => ~cut

Intact == \E c : /\ Cuts(c, posted) /\ Carries(Bytes, posted, Len(taken), c)
                 /\ ~cut => Len(Bytes) = c[Len(posted)] - c[Len(taken)]

Due == posted[Len(taken) + 1]  \* the message to be returned next

(* The inductive invariant. *)
ReaderInv == Kept /\ LossHasCause /\ (skipped = 0 => Intact)

LEMMA PayloadsOK == \A p \in Payloads : p \in Seq(Byte) /\ Len(p) \in Nat /\ Len(p) < Place[4]
BY FstreamReaderAssumption, LenProperties DEF Byte

(* The types of the bytes under way. *)
LEMMA BytesOK ==
  ASSUME TypeOK
  PROVE  /\ rx \in Seq(Byte) /\ buf \in Seq(Byte) /\ len \in Nat /\ len < Place[4]
         /\ Partial \in Seq(Byte) /\ Len(Partial) = Consumed /\ Consumed \in Nat
         /\ Len(rx) \in Nat /\ Len(buf) \in Nat
         /\ Bytes \in Seq(Byte) /\ Len(Bytes) = Consumed + Len(rx)
<1>1. rx \in Seq(Byte) /\ buf \in Seq(Byte) /\ Len(rx) \in Nat /\ Len(buf) \in Nat
  BY LenProperties DEF TypeOK, Byte
<1>2. len \in Nat /\ len < Place[4]
  BY Places, FstreamAssumption, SMT DEF TypeOK
<1>3. Partial \in Seq(Byte) /\ Len(Partial) = Consumed /\ Consumed \in Nat
  <2>1. CASE at = "payload"
    <3> DEFINE H == HeaderOf(len)
    <3>1. H \in Seq(Byte) /\ Len(H) = FSTREAM_HEADER_SIZE
      BY <1>2, HeaderOK
    <3>2. Partial = H \o buf
      BY <2>1 DEF Partial
    <3> HIDE DEF H
    <3>3. H \o buf \in Seq(Byte) /\ Len(H \o buf) = Len(H) + Len(buf)
      BY <1>1, <3>1, Joined, Zenon
    <3> QED
      BY <1>1, <2>1, <3>1, <3>2, <3>3 DEF Consumed, FSTREAM_HEADER_SIZE
  <2>2. CASE at # "payload"
    BY <1>1, <2>2 DEF Partial, Consumed
  <2> QED
    BY <2>1, <2>2
<1>4. Bytes \in Seq(Byte) /\ Len(Bytes) = Len(Partial) + Len(rx)
  BY <1>1, <1>3, Joined, Zenon DEF Bytes
<1> QED
  BY <1>1, <1>2, <1>3, <1>4

LEMMA WantedIs == /\ at = "header" => Wanted = FSTREAM_HEADER_SIZE - Len(buf)
                  /\ at = "payload" => Wanted = len - Len(buf)
                  /\ at = "select" => Wanted = 0
                  /\ at' = "header" => Wanted' = FSTREAM_HEADER_SIZE - Len(buf')
                  /\ at' = "payload" => Wanted' = len' - Len(buf')
                  /\ at' = "select" => Wanted' = 0
BY Zenon DEF Wanted

LEMMA Zero == 0 \in 0 .. Place[4] - 1
<1>1. Base \in Nat /\ Base > 0
  BY FstreamAssumption
<1>2. Base * Base \in Nat /\ Base * Base > 0
  BY <1>1, SMT
<1>3. Base * Base * Base \in Nat /\ Base * Base * Base > 0
  BY <1>1, <1>2, SMT
<1>4. Place[4] \in Nat /\ Place[4] > 0
  BY <1>1, <1>3, Places, SMT
<1> QED
  BY <1>4

LEMMA InitReader == Init => ReaderInv
<1> SUFFICES ASSUME Init PROVE ReaderInv
  OBVIOUS
<1>1. TypeOK
  <2>1. Wanted = 0
    BY WantedIs DEF Init
  <2>2. 0 \in 0 .. Place[4] - 1
    BY Zero
  <2>3. 0 \in 0 .. MaxSignals /\ 0 \in 0 .. MaxNoMem
    BY FstreamReaderAssumption
  <2>4. Wanted >= 0
    BY <2>1
  <2>5. /\ rx \in Seq(0 .. Base - 1) /\ conn \in {"open", "closed", "reset"}
        /\ at \in {"select", "header", "payload"} /\ buf \in Seq(0 .. Base - 1)
        /\ heap \in Nat /\ result = IO4E_OK /\ skipped \in Nat /\ cut \in BOOLEAN
    <3>1. \A S : <<>> \in Seq(S)
      OBVIOUS
    <3>2. rx \in Seq(0 .. Base - 1) /\ buf \in Seq(0 .. Base - 1)
      BY <3>1, Zenon DEF Init
    <3> QED
      BY <3>2 DEF Init
  <2> QED
    BY <2>2, <2>3, <2>4, <2>5, Zenon DEF Init, TypeOK
<1>2. Kept
  BY <1>1 DEF Init, Kept, NoPayloadLeak
<1>3. LossHasCause
  BY DEF Init, LossHasCause
<1>4. Intact
  <2> DEFINE c == [i \in 0 .. 0 |-> 0]
  <2>1. posted = <<>> /\ taken = <<>> /\ Len(posted) = 0 /\ Len(taken) = 0
    BY DEF Init
  <2>2. Len(Bytes) = 0
    BY <1>1, BytesOK DEF Init, Consumed
  <2>3. Cuts(c, posted)
    BY <2>1 DEF Cuts
  <2>4. Carries(Bytes, posted, Len(taken), c)
    BY <2>1, <2>2 DEF Carries
  <2>5. Len(Bytes) = c[Len(posted)] - c[Len(taken)]
    BY <2>1, <2>2
  <2> QED
    BY <2>3, <2>4, <2>5 DEF Intact
<1> QED
  BY <1>2, <1>3, <1>4 DEF ReaderInv

-----------------------------------------------------------------------------
(* What is under way begins with the next message. *)
LEMMA NextMessage ==
  ASSUME Kept, Intact, Len(Bytes) > 0
  PROVE  /\ Len(taken) \in Nat /\ Len(taken) < Len(posted) /\ Due \in Payloads
         /\ ~cut => Size(Due) <= Len(Bytes)
         /\ at = "header" /\ Wanted = 0 => buf = HeaderOf(Len(Due)) /\ IsMagic(buf) /\ HeaderLength(buf) = Len(Due)
         /\ at = "payload" => len = Len(Due)
         /\ at = "payload" /\ Wanted = 0 => buf = Due
<1> DEFINE p == Due
<1>0. TypeOK /\ Len(taken) \in Nat /\ posted \in Seq(Payloads) /\ \A q \in Payloads : q \in Seq(Byte)
  BY PayloadsOK, LenProperties DEF Kept
<1>1. PICK c : /\ Cuts(c, posted) /\ Carries(Bytes, posted, Len(taken), c)
               /\ ~cut => Len(Bytes) = c[Len(posted)] - c[Len(taken)]
  BY DEF Intact
<1> DEFINE b == Bytes
           k == Len(taken)
<1>2. b \in Seq(Byte) /\ k \in Nat /\ Carries(b, posted, k, c) /\ Len(b) > 0
  BY <1>0, <1>1, BytesOK
<1> HIDE DEF b, k, p
<1>3. /\ k < Len(posted) /\ posted[k + 1] \in Payloads
      /\ \A j \in 1 .. Size(posted[k + 1]) : j <= Len(b) => b[j] = DeviceFrame(posted[k + 1])[j]
      /\ Len(b) = c[Len(posted)] - c[k] => Size(posted[k + 1]) <= Len(b)
  BY ONLY <1>0, <1>1, <1>2, FrameFirst, Zenon
<1>4. /\ k < Len(posted) /\ p \in Payloads
      /\ \A j \in 1 .. Size(p) : j <= Len(b) => b[j] = DeviceFrame(p)[j]
      /\ ~cut => Size(p) <= Len(b)
  BY <1>1, <1>3 DEF b, k, p, Due
<1>5. p \in Seq(Byte) /\ Len(p) \in Nat /\ Len(p) < Place[4]
  BY <1>4, PayloadsOK
<1>6. /\ rx \in Seq(Byte) /\ buf \in Seq(Byte) /\ len \in Nat /\ len < Place[4]
      /\ Partial \in Seq(Byte) /\ Len(Partial) = Consumed /\ Len(rx) \in Nat /\ Len(buf) \in Nat
      /\ Len(b) = Consumed + Len(rx) /\ Consumed \in Nat
  BY <1>0, BytesOK DEF b
<1>7. \A j \in 1 .. Consumed : b[j] = Partial[j]
  <2>1. \A j \in 1 .. Len(Partial) : (Partial \o rx)[j] = Partial[j]
    BY <1>6, Joined, Zenon
  <2> QED
    BY <1>6, <2>1, Zenon DEF b, Bytes
<1>8. \A j \in 1 .. Consumed : j <= Size(p) => Partial[j] = DeviceFrame(p)[j]
  <2> TAKE j \in 1 .. Consumed
  <2> SUFFICES ASSUME j <= Size(p) PROVE Partial[j] = DeviceFrame(p)[j]
    OBVIOUS
  <2>1. j \in 1 .. Size(p) /\ j <= Len(b)
    BY <1>5, <1>6 DEF Size, FSTREAM_HEADER_SIZE
  <2> QED
    BY <1>4, <1>7, <2>1
<1>9. ASSUME at = "header", Wanted = 0
      PROVE  buf = HeaderOf(Len(p)) /\ IsMagic(buf) /\ HeaderLength(buf) = Len(p)
  <2>1. Len(buf) = FSTREAM_HEADER_SIZE /\ Consumed = FSTREAM_HEADER_SIZE /\ Partial = buf
    BY <1>6, <1>9 DEF Wanted, Consumed, Partial, FSTREAM_HEADER_SIZE
  <2>2. \A j \in 1 .. FSTREAM_HEADER_SIZE : buf[j] = DeviceFrame(p)[j]
    BY <1>5, <1>8, <2>1 DEF Size, FSTREAM_HEADER_SIZE
  <2> QED
    BY <1>5, <1>6, <2>1, <2>2, HeaderKnown
<1>10. ASSUME at = "payload" PROVE len = Len(p)
  <2> DEFINE H == HeaderOf(len)
  <2>1. H \in Seq(Byte) /\ Len(H) = FSTREAM_HEADER_SIZE /\ Partial = H \o buf
    BY <1>6, <1>10, HeaderOK DEF Partial
  <2> HIDE DEF H
  <2>2. \A j \in 1 .. FSTREAM_HEADER_SIZE : (H \o buf)[j] = H[j]
    <3>1. \A j \in 1 .. Len(H) : (H \o buf)[j] = H[j]
      BY ONLY <1>6, <2>1, Joined
    <3> QED
      BY <2>1, <3>1, Zenon
  <2>3. \A j \in 1 .. FSTREAM_HEADER_SIZE : j \in 1 .. Consumed /\ j <= Size(p)
    BY <1>5, <1>6, <1>10 DEF Consumed, Size, FSTREAM_HEADER_SIZE
  <2>4. \A j \in 1 .. FSTREAM_HEADER_SIZE : H[j] = DeviceFrame(p)[j]
    BY <1>8, <2>1, <2>2, <2>3, Zenon
  <2>5. H = HeaderOf(Len(p))
    BY <1>5, <2>1, <2>4, HeaderKnown, Zenon
  <2> QED
    BY <1>5, <1>6, <2>5, HeadersDiffer, Zenon DEF H
<1>11. ASSUME at = "payload", Wanted = 0 PROVE buf = p
  <2> DEFINE H == HeaderOf(len)
  <2>0. Len(buf) = Len(p)
    BY <1>5, <1>6, <1>10, <1>11 DEF Wanted
  <2>1. H \in Seq(Byte) /\ Len(H) = FSTREAM_HEADER_SIZE /\ Partial = H \o buf
    BY <1>6, <1>11, HeaderOK DEF Partial
  <2> HIDE DEF H
  <2>2. \A j \in 1 .. Len(buf) : (H \o buf)[FSTREAM_HEADER_SIZE + j] = buf[j]
    <3>1. \A j \in 1 .. Len(buf) : (H \o buf)[Len(H) + j] = buf[j]
      BY ONLY <1>6, <2>1, Joined
    <3> QED
      BY <2>1, <3>1, Zenon
  <2>3. \A j \in 1 .. Len(buf) : FSTREAM_HEADER_SIZE + j \in 1 .. Consumed /\ FSTREAM_HEADER_SIZE + j <= Size(p)
    BY <1>5, <1>6, <1>11, <2>0 DEF Consumed, Size, FSTREAM_HEADER_SIZE
  <2>4. \A j \in 1 .. Len(buf) : buf[j] = DeviceFrame(p)[FSTREAM_HEADER_SIZE + j]
    BY <1>8, <2>1, <2>2, <2>3, Zenon
  <2>5. \A j \in 1 .. Len(buf) : buf[j] = p[j]
    BY <1>5, <2>0, <2>4, FrameOK, Zenon
  <2> QED
    BY <1>5, <1>6, <2>0, <2>5, SeqEqual, Zenon
<1> QED
  BY <1>0, <1>4, <1>9, <1>10, <1>11 DEF b, k, p

-----------------------------------------------------------------------------
(* The part of the invariant that needs no other. *)
Codes == {IO4E_OK, IO4E_FAIL, IO4E_ERR_TIMEOUT, IO4E_ERR_NO_MEM,
          IO4E_ERR_CONNECTION_CLOSED, ECONNRESET}

(* read_msg returns, and frees the payload unless it hands it over. *)
LEMMA ReturnKept ==
  ASSUME Kept, NEW code \in Codes, NEW payload \in {0, 1}, Restart(code),
         payload = 1 <=> at = "payload", heap' = heap - payload,
         rx' = rx, conn' \in {"open", "closed", "reset"}, conn' = "open" => conn = "open",
         cut' = cut, posted' = posted, taken' \in Seq(Seq(Byte)), skipped' \in Nat,
         signals' \in 0 .. MaxSignals, nomem' \in 0 .. MaxNoMem
  PROVE  Kept'
<1>1. heap' = 0
  BY DEF Kept, NoPayloadLeak
<1>2. at' = "select" /\ buf' = <<>> /\ len' = 0 /\ result' \in Codes
  BY DEF Restart
<1>3. TypeOK'
  <2>1. Wanted' >= 0
    BY <1>2, WantedIs
  <2>2. len' \in 0 .. Place[4] - 1
    BY <1>2, Zero
  <2>3. buf' \in Seq(0 .. Base - 1)
    <3>1. \A S : <<>> \in Seq(S)
      OBVIOUS
    <3> QED
      BY <1>2, <3>1, Zenon
  <2>4. /\ rx' \in Seq(0 .. Base - 1) /\ cut' \in BOOLEAN
    BY DEF Kept, TypeOK
  <2>5. at' \in {"select", "header", "payload"} /\ heap' \in Nat
    BY <1>1, <1>2
  <2> QED
    BY <1>2, <2>1, <2>2, <2>3, <2>4, <2>5, Zenon DEF TypeOK, Codes
<1> QED
  BY <1>1, <1>2, <1>3 DEF Kept, NoPayloadLeak

LEMMA StepKept == ASSUME Kept, [Next]_vars PROVE Kept'
<1>0. TypeOK /\ NoPayloadLeak /\ (at = "select" => buf = <<>>) /\ (conn = "open" => ~cut)
  BY DEF Kept
<1>1. /\ rx \in Seq(Byte) /\ buf \in Seq(Byte) /\ Len(rx) \in Nat /\ Len(buf) \in Nat
      /\ Consumed \in Nat /\ skipped + Consumed \in Nat
  BY <1>0, BytesOK DEF TypeOK
<1>2. CASE DeviceSends
  <2>1. PICK p \in Payloads : posted' = Append(posted, p) /\ rx' = rx \o DeviceFrame(p)
    BY <1>2 DEF DeviceSends
  <2>2. posted' \in Seq(Payloads)
    BY <2>1, AppendProperties DEF Kept
  <2>3. DeviceFrame(p) \in Seq(Byte)
    BY PayloadsOK, FrameOK
  <2>4. rx' \in Seq(Byte)
    <3> DEFINE f == DeviceFrame(p)
    <3>1. f \in Seq(Byte)
      BY <2>3
    <3> HIDE DEF f
    <3>2. rx \o f \in Seq(Byte)
      BY ONLY <1>1, <3>1, Joined
    <3> QED
      BY <2>1, <3>2 DEF f
  <2>5. UNCHANGED <<conn, at, buf, len, heap, result, taken, skipped, signals, nomem, cut>>
    BY <1>2 DEF DeviceSends, call, faults
  <2>6. Wanted' = Wanted
    BY <2>5, Zenon DEF Wanted
  <2>7. TypeOK'
    BY <1>0, <2>4, <2>5, <2>6, Zenon DEF TypeOK, Byte
  <2> QED
    BY <1>0, <2>2, <2>5, <2>7 DEF Kept, NoPayloadLeak
<1>3. CASE DeviceEnds
  <2>1. PICK k \in 0 .. Len(rx) : rx' = SubSeq(rx, 1, k) /\ cut' = (k < Len(rx))
    BY <1>3 DEF DeviceEnds
  <2>2. rx' \in Seq(Byte)
    BY <1>1, <2>1, Part
  <2>3. /\ UNCHANGED <<at, buf, len, heap, result, posted, taken, skipped, signals, nomem>>
        /\ conn' \in {"closed", "reset"} /\ cut' \in BOOLEAN
    BY <1>3, <2>1 DEF DeviceEnds, call
  <2>4. Wanted' = Wanted
    BY <2>3, Zenon DEF Wanted
  <2>5. TypeOK'
    BY <1>0, <2>2, <2>3, <2>4, Zenon DEF TypeOK, Byte
  <2> QED
    BY <2>3, <2>5 DEF Kept, NoPayloadLeak
<1>4. CASE SelectTimesOut
  <2>1. /\ at = "select" /\ Restart(IO4E_ERR_TIMEOUT)
        /\ UNCHANGED <<rx, conn, heap, posted, taken, skipped, signals, nomem, cut>>
    BY <1>4 DEF SelectTimesOut, history, faults
  <2>2. heap' = heap - 0
    BY <1>0, <2>1 DEF NoPayloadLeak
  <2>3. IO4E_ERR_TIMEOUT \in Codes
    BY DEF Codes
  <2>4. taken' \in Seq(Seq(Byte))
    BY <2>1 DEF Kept
  <2> QED
    BY <1>0, <2>1, <2>2, <2>3, <2>4, ReturnKept DEF TypeOK
<1>5. CASE Select
  <2>1. /\ at = "select" /\ at' = "header" /\ signals' \in 0 .. MaxSignals /\ buf' = buf
        /\ UNCHANGED <<rx, conn, len, heap, result, posted, taken, skipped, nomem, cut>>
    BY <1>0, <1>5, FstreamReaderAssumption DEF Select, TypeOK
  <2>2. Wanted' >= 0
    <3>1. Len(buf') = 0
      BY <1>0, <2>1
    <3> QED
      BY <2>1, <3>1, WantedIs DEF FSTREAM_HEADER_SIZE
  <2>3. TypeOK'
    BY <1>0, <2>1, <2>2, Zenon DEF TypeOK
  <2>4. heap = 0 /\ at' # "payload" /\ at' # "select"
    BY <1>0, <2>1 DEF NoPayloadLeak
  <2> QED
    BY <2>1, <2>3, <2>4 DEF Kept, NoPayloadLeak
<1>6. ASSUME NEW k \in 1 .. Len(rx), Read(k) PROVE Kept'
  <2>1. /\ k <= Wanted /\ buf' = buf \o SubSeq(rx, 1, k) /\ rx' = SubSeq(rx, k + 1, Len(rx))
        /\ UNCHANGED <<conn, at, len, heap, result, posted, taken, skipped, signals, nomem, cut>>
    BY <1>6 DEF Read, history, faults
  <2>2. rx' \in Seq(Byte) /\ SubSeq(rx, 1, k) \in Seq(Byte) /\ Len(SubSeq(rx, 1, k)) = k
    BY <1>1, <2>1, Part
  <2>3. buf' \in Seq(Byte) /\ Len(buf') = Len(buf) + k
    <3> DEFINE x == SubSeq(rx, 1, k)
    <3>1. x \in Seq(Byte) /\ Len(x) = k
      BY <2>2
    <3> HIDE DEF x
    <3>2. buf \o x \in Seq(Byte) /\ Len(buf \o x) = Len(buf) + Len(x)
      BY ONLY <1>1, <3>1, Joined
    <3> QED
      BY <2>1, <3>1, <3>2, Zenon DEF x
  <2>4. at # "select" /\ at \in {"header", "payload"}
    BY <1>0, <2>1, WantedIs DEF TypeOK
  <2>5. Wanted' >= 0
    <3>1. len \in Int
      BY <1>0, BytesOK
    <3> QED
      BY <1>1, <2>1, <2>3, <2>4, <3>1, WantedIs DEF FSTREAM_HEADER_SIZE
  <2>6. TypeOK'
    BY <1>0, <2>1, <2>2, <2>3, <2>5, Zenon DEF TypeOK, Byte
  <2> QED
    BY <1>0, <2>1, <2>4, <2>6 DEF Kept, NoPayloadLeak
<1>7. ASSUME NEW code \in Codes, Abort(code),
             rx' = rx, conn' \in {"open", "closed", "reset"}, conn' = "open" => conn = "open",
             cut' = cut, signals' \in 0 .. MaxSignals, nomem' \in 0 .. MaxNoMem
      PROVE  Kept'
  <2> DEFINE payload == IF at = "payload" THEN 1 ELSE 0
  <2>1. /\ Restart(code) /\ heap' = heap - payload /\ posted' = posted /\ taken' = taken
        /\ skipped' = skipped + Consumed
    BY <1>7 DEF Abort, Fail
  <2>2. payload \in {0, 1} /\ (payload = 1 <=> at = "payload")
    OBVIOUS
  <2>3. taken' \in Seq(Seq(Byte)) /\ skipped' \in Nat
    BY <1>1, <2>1 DEF Kept
  <2> HIDE DEF payload
  <2> QED
    BY <1>7, <2>1, <2>2, <2>3, ReturnKept
<1>8. CASE ReadEof
  BY <1>0, <1>7, <1>8 DEF ReadEof, faults, TypeOK, Codes
<1>9. CASE ReadInterrupted
  <2>1. signals' \in 0 .. MaxSignals
    BY <1>0, <1>9, FstreamReaderAssumption DEF ReadInterrupted, TypeOK
  <2> QED
    BY <1>0, <1>7, <1>9, <2>1 DEF ReadInterrupted, TypeOK, Codes, EINTR, IO4E_ERR_CONNECTION_CLOSED
<1>10. CASE ReadReset
  BY <1>0, <1>7, <1>10 DEF ReadReset, faults, TypeOK, Codes
<1>11. ASSUME HeaderRead PROVE at = "header" /\ rx' = rx /\ conn' = conn /\ heap = 0
  BY <1>0, <1>11 DEF HeaderRead, NoPayloadLeak
<1>12. CASE MagicMissing \/ NoMem
  <2>1. PICK code \in Codes : Fail(code, 0)
    BY <1>12 DEF MagicMissing, NoMem, Codes
  <2>2. nomem' \in 0 .. MaxNoMem /\ signals' = signals /\ cut' = cut /\ HeaderRead
    BY <1>0, <1>12, FstreamReaderAssumption DEF MagicMissing, NoMem, TypeOK, faults
  <2>3. /\ Restart(code) /\ heap' = heap - 0 /\ posted' = posted /\ taken' = taken
        /\ skipped' = skipped + Consumed
    BY <2>1 DEF Fail
  <2> QED
    BY <1>0, <1>1, <1>11, <2>2, <2>3, ReturnKept DEF Kept, TypeOK
<1>13. CASE Empty
  <2>1. HeaderRead /\ Succeed(<<>>, 0)
    BY <1>13 DEF Empty
  <2>2. /\ Restart(IO4E_OK) /\ heap' = heap - 0 /\ taken' = Append(taken, <<>>)
        /\ UNCHANGED <<posted, skipped, signals, nomem, cut>>
    BY <2>1 DEF Succeed, faults
  <2>3. taken' \in Seq(Seq(Byte))
    <3>1. <<>> \in Seq(Byte)
      OBVIOUS
    <3> QED
      BY <2>2, <3>1, AppendProperties DEF Kept
  <2>4. IO4E_OK \in Codes
    BY DEF Codes
  <2> QED
    BY <1>0, <1>11, <2>1, <2>2, <2>3, <2>4, ReturnKept DEF TypeOK
<1>14. CASE Allocate
  <2>1. /\ HeaderRead /\ at' = "payload" /\ len' = HeaderLength(buf) /\ buf' = <<>>
        /\ heap' = heap + 1
        /\ UNCHANGED <<result, posted, taken, skipped, signals, nomem, cut>>
    BY <1>14 DEF Allocate, history, faults
  <2>2. Len(buf) = FSTREAM_HEADER_SIZE
    BY <1>1, <2>1, WantedIs DEF HeaderRead, FSTREAM_HEADER_SIZE
  <2>3. len' \in 0 .. Place[4] - 1
    BY <1>1, <2>1, <2>2, HeaderLengthOK
  <2>4. buf' \in Seq(0 .. Base - 1)
    <3>1. \A S : <<>> \in Seq(S)
      OBVIOUS
    <3> QED
      BY <2>1, <3>1, Zenon
  <2>5. Wanted' >= 0
    <3>1. len' >= 0
      BY <2>3
    <3>2. Len(buf') = 0
      BY <2>1
    <3>3. \A x, y \in Int : x >= 0 /\ y = 0 => x - y >= 0
      OBVIOUS
    <3>4. len' \in Int /\ Len(buf') \in Int
      BY <2>3, <3>2
    <3> QED
      BY <2>1, <3>1, <3>2, <3>3, <3>4, WantedIs, Zenon
  <2>6. heap' = 1 /\ heap' \in Nat
    BY <1>11, <2>1
  <2>7. rx' = rx /\ conn' = conn
    BY <1>11, <2>1
  <2>8. at' \in {"select", "header", "payload"}
    BY <2>1
  <2>9. TypeOK'
    BY <1>0, <2>1, <2>3, <2>4, <2>5, <2>6, <2>7, <2>8, Zenon DEF TypeOK
  <2> QED
    BY <1>0, <2>1, <2>6, <2>7, <2>9 DEF Kept, NoPayloadLeak
<1>15. CASE PayloadRead
  <2>1. /\ at = "payload" /\ Restart(IO4E_OK) /\ heap' = heap - 1 /\ taken' = Append(taken, buf)
        /\ UNCHANGED <<rx, conn, posted, skipped, signals, nomem, cut>>
    BY <1>15 DEF PayloadRead, Succeed, faults
  <2>2. taken' \in Seq(Seq(Byte))
    BY <1>1, <2>1, AppendProperties DEF Kept
  <2>3. IO4E_OK \in Codes
    BY DEF Codes
  <2> QED
    BY <1>0, <2>1, <2>2, <2>3, ReturnKept DEF TypeOK
<1>16. CASE UNCHANGED vars
  <2>1. UNCHANGED <<rx, conn, at, buf, len, heap, result, posted, taken, skipped, signals, nomem, cut>>
    BY <1>16 DEF vars, call, history, faults
  <2>2. Wanted' = Wanted
    BY <2>1, Zenon DEF Wanted
  <2> QED
    BY <1>0, <2>1, <2>2, Zenon DEF Kept, TypeOK, NoPayloadLeak
<1> QED
  BY <1>2, <1>3, <1>4, <1>5, <1>6, <1>8, <1>9, <1>10, <1>12, <1>13, <1>14, <1>15, <1>16
     DEF Next, read_msg

-----------------------------------------------------------------------------
(* What is under way stays the frames of the messages not yet returned.    *)

(* Bytes only move from what is on its way to what has been read.          *)
LEMMA SameBytes ==
  ASSUME Intact, Bytes' = Bytes, posted' = posted, taken' = taken, cut' = cut
  PROVE  Intact'
BY Zenon DEF Intact

LEMMA ReadMoves ==
  ASSUME TypeOK, NEW k \in 1 .. Len(rx), Read(k)
  PROVE  Bytes' = Bytes
<1> DEFINE x == SubSeq(rx, 1, k)
           y == SubSeq(rx, k + 1, Len(rx))
           H == HeaderOf(len)
<1>1. rx \in Seq(Byte) /\ buf \in Seq(Byte) /\ Len(rx) \in Nat /\ H \in Seq(Byte)
  BY BytesOK, HeaderOK
<1>2. x \in Seq(Byte) /\ y \in Seq(Byte)
  BY <1>1, Part
<1>3. x \o y = rx
  <2>1. x \o y = SubSeq(rx, 1, Len(rx))
    <3>1. 1 \in 1 .. Len(rx) + 1 /\ k \in 1 - 1 .. Len(rx) /\ Len(rx) \in k .. Len(rx)
      BY <1>1
    <3> QED
      BY <1>1, <3>1, ConcatAdjacentSubSeq, Zenon
  <2>2. SubSeq(rx, 1, Len(rx)) = rx
    BY <1>1, SubSeqFull, Zenon
  <2> QED
    BY <2>1, <2>2, Zenon
<1>4. buf' = buf \o x /\ rx' = y /\ at' = at /\ len' = len
  BY DEF Read
<1> HIDE DEF x, y, H
<1>5. (buf \o x) \o y = buf \o rx
  BY <1>1, <1>2, <1>3, BytesMoved, Zenon
<1>6. CASE at = "payload"
  <2>1. Bytes' = (H \o (buf \o x)) \o y /\ Bytes = (H \o buf) \o rx
    BY <1>4, <1>6, Zenon DEF Bytes, Partial, H
  <2>2. H \o (buf \o x) = (H \o buf) \o x
    BY <1>1, <1>2, BytesMoved, Zenon
  <2>3. H \o buf \in Seq(Byte)
    BY ONLY <1>1, Joined
  <2>4. ((H \o buf) \o x) \o y = (H \o buf) \o (x \o y)
    BY <1>2, <2>3, BytesMoved, Zenon
  <2> QED
    BY <1>3, <2>1, <2>2, <2>4, Zenon
<1>7. CASE at # "payload"
  BY <1>4, <1>5, <1>7, Zenon DEF Bytes, Partial
<1> QED
  BY <1>6, <1>7

(* The end of a call that has not read anything, or of one that nothing of *)
(* the frame is left of.                                                   *)
LEMMA NothingRead ==
  ASSUME TypeOK, Consumed = 0
  PROVE  at # "payload" /\ buf = <<>> /\ Bytes = rx
<1>1. at # "payload" /\ Len(buf) = 0
  BY BytesOK DEF Consumed, FSTREAM_HEADER_SIZE
<1>2. buf = <<>>
  BY <1>1, BytesOK, EmptySeq
<1>3. <<>> \o rx = rx
  BY BytesOK, ConcatEmptySeq
<1> QED
  BY <1>1, <1>2, <1>3 DEF Bytes, Partial

LEMMA NothingLeft ==
  ASSUME TypeOK, at' = "select", buf' = <<>>, rx' = rx
  PROVE  Bytes' = rx
<1>1. <<>> \o rx = rx
  BY BytesOK, ConcatEmptySeq
<1>2. Partial' = <<>>
  BY DEF Partial
<1> QED
  BY <1>1, <1>2 DEF Bytes

(* A message that has been read to its end is the next one. *)
LEMMA MessageTaken ==
  ASSUME Kept, Kept', Intact, Len(taken) < Len(posted), Consumed = Size(Due), Consumed > 0,
         at' = "select", buf' = <<>>, rx' = rx, posted' = posted, cut' = cut,
         Len(taken') = Len(taken) + 1
  PROVE  Intact'
<1>1. PICK c : /\ Cuts(c, posted) /\ Carries(Bytes, posted, Len(taken), c)
               /\ ~cut => Len(Bytes) = c[Len(posted)] - c[Len(taken)]
  BY DEF Intact
<1> DEFINE b == Bytes
           k == Len(taken)
           s == Size(Due)
<1>2. /\ rx \in Seq(Byte) /\ Partial \in Seq(Byte) /\ Len(Partial) = Consumed
      /\ Len(rx) \in Nat /\ b \in Seq(Byte) /\ Len(b) = Consumed + Len(rx) /\ Consumed \in Nat
  BY BytesOK DEF Kept
<1>3. /\ k \in Nat /\ posted \in Seq(Payloads) /\ \A q \in Payloads : q \in Seq(Byte)
  BY PayloadsOK, LenProperties DEF Kept
<1>4. \A i \in 1 .. Len(rx) : rx[i] = b[s + i]
  <2>1. \A i \in 1 .. Len(rx) : (Partial \o rx)[Len(Partial) + i] = rx[i]
    BY ONLY <1>2, Joined
  <2>2. Partial \o rx = b /\ Len(Partial) = s
    BY <1>2 DEF Bytes
  <2> HIDE DEF b, s
  <2> QED
    BY <2>1, <2>2, Zenon
<1>5. s \in Nat /\ s <= Len(b) /\ Len(rx) = Len(b) - s /\ s = Size(posted[k + 1])
  BY <1>2 DEF Due
<1>6. Carries(b, posted, k, c) /\ Cuts(c, posted) /\ k < Len(posted)
  BY <1>1
<1> HIDE DEF b, k, s
<1>7. /\ Carries(rx, posted, k + 1, c)
      /\ Len(b) = c[Len(posted)] - c[k] => Len(rx) = c[Len(posted)] - c[k + 1]
  <2>1. rx \in Seq(Byte) /\ b \in Seq(Byte) /\ posted \in Seq(Payloads)
    BY <1>2, <1>3
  <2>2. Rest(rx, b, Size(posted[k + 1]))
    BY <1>4, <1>5, Zenon DEF Rest
  <2>3. k \in Nat
    BY <1>3
  <2>4. \A q \in Payloads : q \in Seq(Byte)
    BY <1>3
  <2> QED
    BY ONLY <2>1, <2>2, <2>3, <2>4, <1>6, FrameTaken, SMTT(60)
<1>8. Bytes' = rx /\ Len(taken') = k + 1
  BY NothingLeft DEF Kept, k
<1>9. ~cut => Len(rx) = c[Len(posted)] - c[k + 1]
  BY <1>1, <1>7, Zenon DEF b, k
<1> QED
  BY <1>6, <1>7, <1>8, <1>9, Zenon DEF Intact

(* A header that has been read is that of the next message. *)
LEMMA NextHeader ==
  ASSUME Kept, Intact, HeaderRead
  PROVE  /\ buf = HeaderOf(Len(Due)) /\ IsMagic(buf) /\ HeaderLength(buf) = Len(Due)
         /\ Due \in Payloads /\ Len(taken) < Len(posted) /\ Consumed = FSTREAM_HEADER_SIZE
<1>1. at = "header" /\ Wanted = 0
  BY DEF HeaderRead
<1>2. Consumed = FSTREAM_HEADER_SIZE
  BY <1>1, WantedIs, BytesOK DEF Kept, Consumed, FSTREAM_HEADER_SIZE
<1>3. Len(Bytes) > 0
  BY <1>2, BytesOK DEF Kept, FSTREAM_HEADER_SIZE
<1> QED
  BY <1>1, <1>2, <1>3, NextMessage, Zenon

(* What read_msg returns is the next message. *)
LEMMA NextReturned ==
  ASSUME Kept, Intact, Empty \/ PayloadRead
  PROVE  /\ taken' = Append(taken, Due) /\ Due \in Seq(Byte)
         /\ Len(taken) < Len(posted) /\ Consumed = Size(Due) /\ Consumed > 0
<1>1. CASE Empty
  <2>1. HeaderRead /\ HeaderLength(buf) = 0 /\ taken' = Append(taken, <<>>)
    BY <1>1 DEF Empty, Succeed
  <2>2. /\ Len(Due) = 0 /\ Due \in Payloads /\ Len(taken) < Len(posted)
        /\ Consumed = FSTREAM_HEADER_SIZE
    BY <2>1, NextHeader
  <2>3. Due \in Seq(Byte)
    BY <2>2, PayloadsOK
  <2>4. Due = <<>>
    BY <2>2, <2>3, EmptySeq
  <2> QED
    BY <2>1, <2>2, <2>3, <2>4 DEF Size, FSTREAM_HEADER_SIZE
<1>2. CASE PayloadRead
  <2>1. at = "payload" /\ Wanted = 0 /\ taken' = Append(taken, buf)
    BY <1>2 DEF PayloadRead, Succeed
  <2>2. Consumed > 0 /\ Len(Bytes) > 0
    BY <2>1, BytesOK DEF Kept, Consumed, FSTREAM_HEADER_SIZE
  <2>3. buf = Due /\ Due \in Payloads /\ Len(taken) < Len(posted)
    BY <2>1, <2>2, NextMessage, Zenon
  <2>4. Due \in Seq(Byte)
    BY <2>3, PayloadsOK
  <2>5. Consumed = Size(Due)
    BY <2>1, <2>3 DEF Consumed, Size
  <2> QED
    BY <2>1, <2>2, <2>3, <2>4, <2>5
<1> QED
  BY <1>1, <1>2

(* A call that fails has cause to throw bytes away. *)
LEMMA EndsInFrame ==
  ASSUME Kept, Intact, Wanted > 0, rx = <<>>, Consumed > 0
  PROVE  cut
<1> SUFFICES ASSUME ~cut PROVE FALSE
  OBVIOUS
<1>1. /\ Len(buf) \in Nat /\ Len(Bytes) = Consumed /\ Consumed \in Nat
  BY BytesOK DEF Kept
<1>2. Size(Due) <= Consumed /\ Due \in Payloads
  BY <1>1, NextMessage
<1>3. Len(Due) \in Nat
  BY <1>2, PayloadsOK
<1>4. at \in {"select", "header", "payload"}
  BY DEF Kept, TypeOK
<1>5. CASE at = "payload"
  BY <1>1, <1>2, <1>3, <1>5, WantedIs, NextMessage DEF Consumed, Size, FSTREAM_HEADER_SIZE
<1>6. CASE at = "header"
  BY <1>1, <1>2, <1>3, <1>6, WantedIs DEF Consumed, Size, FSTREAM_HEADER_SIZE
<1>7. CASE at = "select"
  BY <1>7, WantedIs
<1> QED
  BY <1>4, <1>5, <1>6, <1>7

LEMMA StepIntact ==
  ASSUME Kept, Kept', Intact, [Next]_vars, skipped = 0, skipped' = 0
  PROVE  Intact'
<1>0. TypeOK /\ TypeOK'
  BY DEF Kept
<1>1. /\ rx \in Seq(Byte) /\ Partial \in Seq(Byte) /\ Bytes \in Seq(Byte) /\ Len(rx) \in Nat
      /\ Len(Partial) \in Nat /\ Len(Bytes) = Len(Partial) + Len(rx)
      /\ Consumed \in Nat /\ buf \in Seq(Byte)
  BY <1>0, BytesOK
<1>2. /\ posted \in Seq(Payloads) /\ \A q \in Payloads : q \in Seq(Byte)
      /\ Len(taken) \in Nat
  BY PayloadsOK, LenProperties DEF Kept
<1>3. PICK c : /\ Cuts(c, posted) /\ Carries(Bytes, posted, Len(taken), c)
               /\ ~cut => Len(Bytes) = c[Len(posted)] - c[Len(taken)]
  BY DEF Intact
<1>4. CASE DeviceSends
  <2>1. PICK p \in Payloads : posted' = Append(posted, p) /\ rx' = rx \o DeviceFrame(p)
    BY <1>4 DEF DeviceSends
  <2>2. UNCHANGED <<at, buf, len, taken, cut>> /\ ~cut
    BY <1>4 DEF DeviceSends, call, faults, Kept
  <2> DEFINE b == Bytes
             k == Len(taken)
             f == DeviceFrame(p)
  <2>3. f \in Seq(Byte)
    BY PayloadsOK, FrameOK
  <2>4. Len(b) = c[Len(posted)] - c[k] /\ Cuts(c, posted) /\ Carries(b, posted, k, c)
        /\ b \in Seq(Byte) /\ k \in Nat /\ posted \in Seq(Payloads)
    BY <1>1, <1>2, <1>3, <2>2
  <2> HIDE DEF b, k
  <2>5. \E d : /\ Cuts(d, Append(posted, p)) /\ Carries(b \o DeviceFrame(p), Append(posted, p), k, d)
               /\ Len(b \o DeviceFrame(p)) = d[Len(Append(posted, p))] - d[k]
    BY <1>2, <2>4, FrameAdded
  <2> HIDE DEF f
  <2>6. Bytes' = b \o f
    <3>1. Partial' = Partial
      BY <2>2 DEF Partial
    <3>2. Bytes' = Partial \o (rx \o f)
      BY <2>1, <3>1 DEF Bytes, f
    <3> QED
      BY <1>1, <2>3, <3>2, BytesMoved, Zenon DEF b, Bytes
  <2> QED
    BY <2>1, <2>2, <2>5, <2>6, Zenon DEF Intact, k, f
<1>5. CASE DeviceEnds
  <2>1. PICK k \in 0 .. Len(rx) : rx' = SubSeq(rx, 1, k) /\ cut' = (k < Len(rx))
    BY <1>5 DEF DeviceEnds
  <2>2. UNCHANGED <<at, buf, len, posted, taken>> /\ ~cut
    BY <1>5 DEF DeviceEnds, call, Kept
  <2>3. Partial' = Partial /\ Bytes' = Partial \o rx'
    BY <2>2 DEF Partial, Bytes
  <2>4. rx' \in Seq(Byte) /\ Len(rx') = k /\ \A i \in 1 .. k : rx'[i] = rx[i]
    BY <1>1, <2>1, Part
  <2>5. CASE k = Len(rx)
    <3>1. rx' = rx
      BY <1>1, <2>1, <2>5, SubSeqFull
    <3>2. Bytes' = Bytes
      BY <2>3, <3>1 DEF Bytes
    <3>3. ~(k < Len(rx))
      BY <1>1, <2>5
    <3>4. cut' = cut
      <4>0. ~cut'
        BY <2>1, <3>3, Zenon
      <4>1. cut' = FALSE
        BY <1>0, <4>0, Zenon DEF TypeOK
      <4>2. cut = FALSE
        BY <1>0, <2>2, Zenon DEF TypeOK
      <4> QED
        BY <4>1, <4>2, Zenon
    <3> QED
      BY <2>2, <3>2, <3>4, SameBytes
  <2>6. CASE k # Len(rx)
    <3>0. k < Len(rx)
      BY <1>1, <2>6
    <3>1. cut'
      BY <2>1, <3>0, Zenon
    <3> DEFINE a == Partial \o rx'
               b == Bytes
    <3>2. /\ Len(rx') <= Len(rx) /\ \A i \in 1 .. Len(rx') : rx'[i] = rx[i]
          /\ rx' \in Seq(Byte) /\ rx \in Seq(Byte) /\ Partial \in Seq(Byte)
      BY <1>1, <2>1, <2>4
    <3>3. /\ a \in Seq(Byte) /\ Len(a) <= Len(Partial \o rx)
          /\ \A i \in 1 .. Len(a) : a[i] = (Partial \o rx)[i]
      <4>1. ASSUME NEW u \in Seq(Byte), Len(u) <= Len(rx), \A i \in 1 .. Len(u) : u[i] = rx[i]
            PROVE  /\ Partial \o u \in Seq(Byte) /\ Len(Partial \o u) <= Len(Partial \o rx)
                   /\ \A i \in 1 .. Len(Partial \o u) : (Partial \o u)[i] = (Partial \o rx)[i]
        BY <3>2, <4>1, JoinedStart
      <4> QED
        BY <3>2, <4>1, Zenon
    <3>4. Len(a) <= Len(b) /\ \A i \in 1 .. Len(a) : a[i] = b[i]
      BY <3>3, Zenon DEF Bytes
    <3> HIDE DEF a, b
    <3>7. Carries(a, posted, Len(taken), c)
      <4>1. b \in Seq(Byte) /\ Carries(b, posted, Len(taken), c)
        BY <1>1, <1>3 DEF b
      <4> QED
        BY ONLY <1>2, <1>3, <3>3, <3>4, <4>1, EndCutOff
    <3> QED
      BY <1>3, <2>2, <2>3, <3>1, <3>7, Zenon DEF Intact, a
  <2> QED
    BY <2>5, <2>6
<1>6. CASE SelectTimesOut
  <2>1. /\ at = "select" /\ at' = "select" /\ buf = <<>> /\ buf' = <<>>
        /\ UNCHANGED <<rx, posted, taken, cut>>
    BY <1>6 DEF SelectTimesOut, Restart, history, faults, Kept
  <2>2. Bytes' = rx
    BY <1>0, <2>1, NothingLeft
  <2>3. Consumed = 0
    BY <2>1 DEF Consumed
  <2>4. Bytes = rx
    BY <1>0, <2>3, NothingRead
  <2> QED
    BY <2>1, <2>2, <2>4, SameBytes
<1>7. CASE Select
  <2>1. at = "select" /\ at' = "header" /\ UNCHANGED <<rx, buf, posted, taken, cut>>
    BY <1>7 DEF Select
  <2>2. Bytes' = Bytes
    BY <2>1 DEF Bytes, Partial
  <2> QED
    BY <2>1, <2>2, SameBytes
<1>8. ASSUME NEW k \in 1 .. Len(rx), Read(k) PROVE Intact'
  <2>1. UNCHANGED <<posted, taken, cut>>
    BY <1>8 DEF Read, history, faults
  <2> QED
    BY <1>0, <1>8, <2>1, ReadMoves, SameBytes
<1>9. ASSUME NEW code, NEW payload, Fail(code, payload), rx' = rx, cut' = cut PROVE Intact'
  <2>1. at' = "select" /\ buf' = <<>> /\ posted' = posted /\ taken' = taken /\ Consumed = 0
    BY <1>1, <1>9 DEF Fail, Restart
  <2>2. Bytes' = rx
    BY <1>0, <1>9, <2>1, NothingLeft
  <2>3. Bytes = rx
    BY <1>0, <2>1, NothingRead
  <2> QED
    BY <1>9, <2>1, <2>2, <2>3, SameBytes
<1>10. CASE ReadEof \/ ReadInterrupted \/ ReadReset \/ MagicMissing \/ NoMem
  <2>1. rx' = rx /\ cut' = cut
    BY <1>10 DEF ReadEof, ReadInterrupted, ReadReset, MagicMissing, NoMem, HeaderRead, faults
  <2>2. \E code, payload : Fail(code, payload)
    BY <1>10, Zenon DEF ReadEof, ReadInterrupted, ReadReset, MagicMissing, NoMem, Abort
  <2> QED
    BY <1>9, <2>1, <2>2
<1>11. CASE Empty \/ PayloadRead
  <2>1. /\ at' = "select" /\ buf' = <<>> /\ UNCHANGED <<rx, posted, cut>>
    BY <1>11 DEF Empty, PayloadRead, Succeed, Restart, faults, HeaderRead
  <2>2. /\ taken' = Append(taken, Due) /\ Due \in Seq(Byte)
        /\ Len(taken) < Len(posted) /\ Consumed = Size(Due) /\ Consumed > 0
    BY <1>11, NextReturned
  <2>3. Len(taken') = Len(taken) + 1
    BY <2>2, AppendProperties DEF Kept
  <2> QED
    BY <2>1, <2>2, <2>3, MessageTaken
<1>12. CASE Allocate
  <2>1. /\ HeaderRead /\ at' = "payload" /\ buf' = <<>> /\ len' = HeaderLength(buf)
        /\ UNCHANGED <<rx, posted, taken, cut>>
    BY <1>12 DEF Allocate, HeaderRead, history, faults
  <2>2. buf = HeaderOf(len')
    BY <2>1, NextHeader
  <2>3. buf \o <<>> = buf
    BY <1>1, ConcatEmptySeq
  <2>4. Partial' = buf /\ Partial = buf
    BY <2>1, <2>2, <2>3 DEF Partial, HeaderRead
  <2>5. Bytes' = Bytes
    BY <2>1, <2>4 DEF Bytes
  <2> QED
    BY <2>1, <2>5, SameBytes
<1>13. CASE UNCHANGED vars
  <2>1. UNCHANGED <<rx, at, buf, len, posted, taken, cut>>
    BY <1>13 DEF vars, call, history, faults
  <2>2. Bytes' = Bytes
    BY <2>1 DEF Bytes, Partial
  <2> QED
    BY <2>1, <2>2, SameBytes
<1> QED
  BY <1>4, <1>5, <1>6, <1>7, <1>8, <1>10, <1>11, <1>12, <1>13 DEF Next, read_msg

-----------------------------------------------------------------------------
(* Bytes thrown away. *)
LEMMA FirstLoss ==
  ASSUME Kept, Intact, skipped = 0, Next, skipped' > 0
  PROVE  (signals' > 0 \/ nomem' > 0 \/ cut') /\ result' # IO4E_FAIL
<1>0. /\ TypeOK /\ signals \in Nat /\ nomem \in Nat
  BY FstreamReaderAssumption DEF Kept, TypeOK
<1>1. skipped' # skipped
  OBVIOUS
<1>2. ASSUME NEW code, Abort(code) PROVE Consumed > 0 /\ Wanted > 0 /\ result' = code
  <2>1. skipped' = skipped + Consumed /\ Wanted > 0 /\ result' = code
    BY <1>2 DEF Abort, Fail, Restart
  <2> QED
    BY <1>0, <2>1, BytesOK
<1>3. CASE ReadEof
  <2>1. rx = <<>> /\ cut' = cut /\ Abort(IO4E_ERR_CONNECTION_CLOSED)
    BY <1>3 DEF ReadEof, faults
  <2> QED
    BY <1>2, <2>1, EndsInFrame DEF IO4E_ERR_CONNECTION_CLOSED, IO4E_FAIL
<1>4. CASE ReadReset
  <2>1. rx = <<>> /\ cut' = cut /\ Abort(ECONNRESET)
    BY <1>4 DEF ReadReset, faults
  <2> QED
    BY <1>2, <2>1, EndsInFrame DEF ECONNRESET, IO4E_FAIL
<1>5. CASE ReadInterrupted
  BY <1>0, <1>2, <1>5 DEF ReadInterrupted, EINTR, IO4E_FAIL
<1>6. CASE NoMem
  BY <1>0, <1>6 DEF NoMem, Fail, Restart, IO4E_ERR_NO_MEM, IO4E_FAIL
<1>7. CASE MagicMissing
  BY <1>7, NextHeader DEF MagicMissing
<1>8. ~(DeviceSends \/ DeviceEnds \/ SelectTimesOut \/ Select \/ Empty \/ Allocate \/ PayloadRead)
  BY <1>1 DEF DeviceSends, DeviceEnds, SelectTimesOut, Select, Empty, Allocate, PayloadRead,
              Succeed, history
<1>9. ~(\E k \in 1 .. Len(rx) : Read(k))
  BY <1>1 DEF Read, history
<1> QED
  BY <1>3, <1>4, <1>5, <1>6, <1>7, <1>8, <1>9 DEF Next, read_msg

(* What has been thrown away stays so, and so does its cause.              *)
LEMMA LossStays ==
  ASSUME Kept, [Next]_vars
  PROVE  /\ skipped' >= skipped /\ signals' >= signals /\ nomem' >= nomem
         /\ signals \in Nat /\ nomem \in Nat /\ skipped \in Nat
         /\ cut => cut'
<1>0. /\ signals \in Nat /\ nomem \in Nat /\ skipped \in Nat /\ Consumed \in Nat
      /\ cut => conn # "open"
  BY FstreamReaderAssumption, BytesOK DEF Kept, TypeOK
<1>1. ASSUME NEW code, NEW payload, Fail(code, payload) PROVE skipped' >= skipped
  BY <1>0, <1>1 DEF Fail
<1>2. CASE ReadEof \/ ReadInterrupted \/ ReadReset \/ MagicMissing \/ NoMem
  <2>1. \E code, payload : Fail(code, payload)
    BY <1>2, Zenon DEF ReadEof, ReadInterrupted, ReadReset, MagicMissing, NoMem, Abort
  <2>2. signals' >= signals /\ nomem' >= nomem /\ cut' = cut
    BY <1>0, <1>2 DEF ReadEof, ReadInterrupted, ReadReset, MagicMissing, NoMem, faults
  <2> QED
    BY <1>0, <1>1, <2>1, <2>2
<1>3. CASE DeviceSends \/ SelectTimesOut \/ Empty \/ PayloadRead \/ Allocate
  BY <1>0, <1>3 DEF DeviceSends, SelectTimesOut, Empty, PayloadRead, Allocate, Succeed, history, faults
<1>4. CASE DeviceEnds
  BY <1>0, <1>4 DEF DeviceEnds
<1>5. CASE Select
  BY <1>0, <1>5 DEF Select
<1>6. ASSUME NEW k \in 1 .. Len(rx), Read(k) PROVE UNCHANGED <<skipped, signals, nomem, cut>>
  BY <1>6 DEF Read, history, faults
<1>7. CASE UNCHANGED vars
  BY <1>0, <1>7 DEF vars, history, faults
<1> QED
  BY <1>0, <1>2, <1>3, <1>4, <1>5, <1>6, <1>7 DEF Next, read_msg

LEMMA StepReader == ReaderInv /\ [Next]_vars => ReaderInv'
<1> SUFFICES ASSUME ReaderInv, [Next]_vars PROVE ReaderInv'
  OBVIOUS
<1>1. Kept /\ Kept'
  BY StepKept DEF ReaderInv
<1>2. /\ skipped' >= skipped /\ signals' >= signals /\ nomem' >= nomem /\ skipped' \in Nat
      /\ signals \in Nat /\ nomem \in Nat /\ skipped \in Nat
  BY <1>1, LossStays DEF Kept, TypeOK
<1>5. cut => cut'
  BY <1>1, LossStays, Zenon
<1>3. skipped' = 0 => Intact'
  <2> SUFFICES ASSUME skipped' = 0 PROVE Intact'
    OBVIOUS
  <2>1. skipped = 0
    BY <1>2
  <2>2. Intact
    BY <2>1 DEF ReaderInv
  <2> QED
    BY <1>1, <2>1, <2>2, StepIntact, Zenon
<1>4. LossHasCause'
  <2> SUFFICES ASSUME skipped' > 0 PROVE signals' > 0 \/ nomem' > 0 \/ cut'
    BY DEF LossHasCause
  <2>1. CASE skipped > 0
    <3>1. signals' \in Nat /\ nomem' \in Nat
      BY <1>1, FstreamReaderAssumption DEF Kept, TypeOK
    <3>2. (signals > 0 => signals' > 0) /\ (nomem > 0 => nomem' > 0)
      BY <1>2, <3>1
    <3> QED
      BY <1>5, <2>1, <3>2, Zenon DEF ReaderInv, LossHasCause
  <2>2. CASE skipped = 0
    <3>1. Next
      BY <2>2 DEF vars, history
    <3> QED
      BY <1>1, <2>2, <3>1, FirstLoss DEF ReaderInv
  <2>3. skipped > 0 \/ skipped = 0
    BY <1>2
  <2> QED
    BY <2>1, <2>2, <2>3, Zenon
<1> QED
  BY <1>1, <1>3, <1>4 DEF ReaderInv

LEMMA ReaderCorrect == Spec => []ReaderInv
BY InitReader, StepReader, PTL DEF Spec

(* Types; read is never asked for a negative number of bytes.              *)
THEOREM ReaderTypeOK == Spec => []TypeOK
<1>1. ReaderInv => TypeOK
  BY DEF ReaderInv, Kept
<1> QED
  BY <1>1, ReaderCorrect, PTL

(* No path through read_msg leaks a payload or frees one twice.            *)
THEOREM PayloadsAreFreed == Spec => []NoPayloadLeak
<1>1. ReaderInv => NoPayloadLeak
  BY DEF ReaderInv, Kept
<1> QED
  BY <1>1, ReaderCorrect, PTL

(* Only a signal or a failing malloc in the middle of a frame, or a device *)
(* that ends in the middle of one, makes read_msg throw bytes away.        *)
THEOREM LossesHaveCauses == Spec => []LossHasCause
<1>1. ReaderInv => LossHasCause
  BY DEF ReaderInv
<1> QED
  BY <1>1, ReaderCorrect, PTL

(* read_msg does not miss the magic bytes unless bytes were thrown away.   *)
THEOREM NoAlarmIsFalse == Spec => NoFalseAlarm
<1>1. ReaderInv /\ [Next]_vars => [skipped = 0 /\ skipped' > 0 => result' # IO4E_FAIL]_vars
  <2> SUFFICES ASSUME ReaderInv, Next, skipped = 0, skipped' > 0 PROVE result' # IO4E_FAIL
    OBVIOUS
  <2> QED
    BY FirstLoss DEF ReaderInv
<1> QED
  BY <1>1, ReaderCorrect, PTL DEF Spec, NoFalseAlarm

(* read_msg implements a channel of messages: whole, once each, in order.  *)
THEOREM ReaderImplementsChannel == Spec => ImplementsChannel
<1>1. Init => Channel!Init
  BY DEF Init, Channel!Init
<1>2. ReaderInv /\ [Next]_vars => [Channel!Next]_(Channel!cvars)
  <2> SUFFICES ASSUME ReaderInv, Next
               PROVE  Channel!Next \/ UNCHANGED Channel!cvars
    BY DEF vars, history, Channel!cvars
  <2>1. Kept /\ skipped \in Nat /\ taken \in Seq(Seq(Byte)) /\ skipped' >= skipped
        /\ (skipped = 0 => Intact)
    BY LossStays DEF ReaderInv, Kept, TypeOK
  <2>2. CASE DeviceSends
    BY <2>2 DEF DeviceSends, Channel!Next, Channel!Post
  <2>3. CASE Empty \/ PayloadRead
    <3>1. UNCHANGED <<posted, skipped>> /\ \E m : taken' = Append(taken, m) /\ m \in Seq(Byte)
      BY <2>1, <2>3, BytesOK, EmptySeq DEF Empty, PayloadRead, Succeed, Kept
    <3>2. Len(taken') = Len(taken) + 1
      BY <2>1, <3>1, AppendProperties
    <3>3. CASE skipped > 0
      BY <3>1, <3>2, <3>3 DEF Channel!Next, Channel!TakeAnything
    <3>4. CASE skipped = 0
      <4>1. taken' = Append(taken, posted[Len(taken) + 1]) /\ Len(taken) < Len(posted)
        BY <2>1, <2>3, <3>4, NextReturned DEF Due
      <4> QED
        BY <3>1, <3>4, <4>1 DEF Channel!Next, Channel!Take
    <3> QED
      BY <2>1, <3>3, <3>4
  <2>4. ASSUME UNCHANGED <<posted, taken>> PROVE Channel!Next \/ UNCHANGED Channel!cvars
    <3>1. CASE skipped = 0 /\ skipped' > 0
      BY <2>4, <3>1 DEF Channel!Next, Channel!Tear
    <3>2. CASE ~(skipped = 0 /\ skipped' > 0)
      <4>1. (skipped > 0) = (skipped' > 0)
        BY <2>1, <3>2, StepKept DEF Kept, TypeOK
      <4> QED
        BY <2>4, <4>1 DEF Channel!cvars
    <3> QED
      BY <3>1, <3>2
  <2>5. CASE DeviceEnds \/ SelectTimesOut \/ Select \/ ReadEof \/ ReadInterrupted \/ ReadReset
             \/ MagicMissing \/ NoMem \/ Allocate
    <3>1. UNCHANGED <<posted, taken>>
      BY <2>5 DEF DeviceEnds, SelectTimesOut, Select, ReadEof, ReadInterrupted, ReadReset, Abort,
                  MagicMissing, NoMem, Allocate, Fail, history
    <3> QED
      BY <2>4, <3>1
  <2>6. CASE \E k \in 1 .. Len(rx) : Read(k)
    <3>1. UNCHANGED <<posted, taken>>
      BY <2>6 DEF Read, history
    <3> QED
      BY <2>4, <3>1
  <2> QED
    BY <2>2, <2>3, <2>5, <2>6 DEF Next, read_msg
<1> QED
  BY <1>1, <1>2, ReaderCorrect, PTL DEF Spec, ImplementsChannel, Channel!Spec
=============================================================================
