------------------------ MODULE FstreamWriter_proofs ------------------------
(***************************************************************************)
(* Proofs about write_msg: what the device has read of the frame under     *)
(* way, what is in the socket and what is not yet written are, together,   *)
(* the frames of the messages that the device does not have yet.           *)
(***************************************************************************)
EXTENDS FstreamWriter, Fstream_proofs

(* The assumption of what is shown below TypeOK: a third byte of the       *)
(* length is never needed.                                                 *)
Short == \A p \in Payloads : Len(p) < Place[2]

Pending == tx \o left
Bytes == dbuf \o Pending

Kept == /\ TypeOK
        /\ posted \in Seq(Payloads) /\ taken \in Seq(Seq(Byte))
        /\ at = "idle" => left = <<>>

Due == posted[Len(taken) + 1]  \* the message that the device is to have next

Intact == /\ \E c : /\ Cuts(c, posted) /\ Carries(Bytes, posted, Len(taken), c)
                    /\ Len(Bytes) = c[Len(posted)] - c[Len(taken)]
          /\ Len(Bytes) > 0 => Len(dbuf) < Size(Due)

(* The inductive invariant. *)
WriterInv == Kept /\ (~torn => Intact)

LEMMA PayloadsOK == \A p \in Payloads : p \in Seq(Byte) /\ Len(p) \in Nat /\ Len(p) < Place[4]
BY FstreamWriterAssumption, LenProperties DEF Byte

LEMMA BytesOK ==
  ASSUME TypeOK
  PROVE  /\ tx \in Seq(Byte) /\ left \in Seq(Byte) /\ dbuf \in Seq(Byte)
         /\ Len(tx) \in Nat /\ Len(left) \in Nat /\ Len(dbuf) \in Nat
         /\ Pending \in Seq(Byte) /\ Len(Pending) = Len(tx) + Len(left)
         /\ Bytes \in Seq(Byte) /\ Len(Bytes) = Len(dbuf) + Len(Pending)
<1>1. /\ tx \in Seq(Byte) /\ left \in Seq(Byte) /\ dbuf \in Seq(Byte)
      /\ Len(tx) \in Nat /\ Len(left) \in Nat /\ Len(dbuf) \in Nat
  BY LenProperties DEF TypeOK, Byte
<1>2. Pending \in Seq(Byte) /\ Len(Pending) = Len(tx) + Len(left)
  BY <1>1, Joined, Zenon DEF Pending
<1>3. Bytes \in Seq(Byte) /\ Len(Bytes) = Len(dbuf) + Len(Pending)
  BY <1>1, <1>2, Joined, Zenon DEF Bytes
<1> QED
  BY <1>1, <1>2, <1>3

LEMMA InitWriter == Init => WriterInv
<1> SUFFICES ASSUME Init PROVE WriterInv
  OBVIOUS
<1>1. TypeOK
  <2>1. \A S : <<>> \in Seq(S)
    OBVIOUS
  <2>2. left \in Seq(0 .. Base - 1) /\ tx \in Seq(0 .. Base - 1) /\ dbuf \in Seq(0 .. Base - 1)
    BY <2>1, Zenon DEF Init
  <2>3. Len(tx) <= SendBuffer
    BY FstreamWriterAssumption DEF Init
  <2> QED
    BY <2>2, <2>3 DEF Init, TypeOK
<1>2. Kept
  BY <1>1 DEF Init, Kept
<1>3. Len(Bytes) = 0
  BY <1>1, BytesOK DEF Init
<1>4. Intact
  <2> DEFINE c == [i \in 0 .. 0 |-> 0]
  <2>1. posted = <<>> /\ taken = <<>> /\ Len(posted) = 0 /\ Len(taken) = 0
    BY DEF Init
  <2>2. Cuts(c, posted)
    BY <2>1 DEF Cuts
  <2>3. Carries(Bytes, posted, Len(taken), c)
    BY <1>3, <2>1 DEF Carries
  <2>4. Len(Bytes) = c[Len(posted)] - c[Len(taken)]
    BY <1>3, <2>1
  <2> QED
    BY <1>3, <2>2, <2>3, <2>4 DEF Intact
<1> QED
  BY <1>2, <1>4 DEF WriterInv

-----------------------------------------------------------------------------
(* The part of the invariant that needs no other. *)
LEMMA StepKept == ASSUME Kept, [Next]_vars PROVE Kept'
<1>0. TypeOK /\ (at = "idle" => left = <<>>)
  BY DEF Kept
<1>1. /\ tx \in Seq(Byte) /\ left \in Seq(Byte) /\ dbuf \in Seq(Byte)
      /\ Len(tx) \in Nat /\ Len(left) \in Nat /\ Len(dbuf) \in Nat
  BY <1>0, BytesOK
<1>2. ASSUME NEW p \in Payloads, write_msg(p) PROVE Kept'
  <2>1. /\ at' = "write" /\ left' = Magic \o WriteLength(Len(p)) \o p
        /\ posted' = Append(posted, p)
        /\ UNCHANGED <<result, tx, broken, dbuf, taken, torn>>
    BY <1>2 DEF write_msg, device
  <2>2. left' \in Seq(Byte)
    BY <2>1, PayloadsOK, WriteFrameOK
  <2>3. posted' \in Seq(Payloads)
    BY <2>1, AppendProperties DEF Kept
  <2>4. TypeOK'
    BY <1>0, <2>1, <2>2, Zenon DEF TypeOK, Byte
  <2> QED
    BY <2>1, <2>3, <2>4 DEF Kept
<1>3. ASSUME NEW k \in 1 .. Len(left), Write(k) PROVE Kept'
  <2> DEFINE x == SubSeq(left, 1, k)
  <2>1. /\ at = "write" /\ tx' = tx \o x /\ left' = SubSeq(left, k + 1, Len(left))
        /\ Len(tx) + k <= SendBuffer
        /\ UNCHANGED <<at, result, broken, dbuf, taken, posted, torn>>
    BY <1>3 DEF Write, device
  <2>2. x \in Seq(Byte) /\ Len(x) = k /\ left' \in Seq(Byte)
    BY <1>1, <2>1, Part
  <2> HIDE DEF x
  <2>3. tx \o x \in Seq(Byte) /\ Len(tx \o x) = Len(tx) + Len(x)
    BY ONLY <1>1, <2>2, Joined
  <2>4. tx' \in Seq(Byte) /\ Len(tx') <= SendBuffer
    BY <2>1, <2>2, <2>3
  <2>5. TypeOK'
    BY <1>0, <2>1, <2>2, <2>4, Zenon DEF TypeOK, Byte
  <2> QED
    BY <2>1, <2>5 DEF Kept
<1>4. CASE Done \/ WriteFails
  <2>1. /\ at' = "idle" /\ left' = <<>> /\ result' \in {IO4E_OK, IO4E_FAIL} /\ torn' \in BOOLEAN
        /\ UNCHANGED <<tx, broken, dbuf, taken, posted>>
    BY <1>0, <1>4 DEF Done, WriteFails, Return, device, TypeOK
  <2>2. left' \in Seq(0 .. Base - 1)
    <3>1. \A S : <<>> \in Seq(S)
      OBVIOUS
    <3> QED
      BY <2>1, <3>1, Zenon
  <2>3. at' \in {"idle", "write"}
    BY <2>1
  <2>4. TypeOK'
    BY <1>0, <2>1, <2>2, <2>3, Zenon DEF TypeOK
  <2> QED
    BY <2>1, <2>4 DEF Kept
<1>5. CASE Break
  <2>1. broken' \in BOOLEAN /\ UNCHANGED <<at, left, result, tx, dbuf, taken, posted, torn>>
    BY <1>5 DEF Break, local, device
  <2>2. TypeOK'
    BY <1>0, <2>1, Zenon DEF TypeOK
  <2> QED
    BY <2>1, <2>2 DEF Kept
<1>6. CASE DeviceReads
  <2>1. /\ tx # <<>> /\ tx' = Tail(tx) /\ UNCHANGED <<at, left, result, broken, posted, torn>>
    BY <1>6 DEF DeviceReads, local
  <2>2. tx' \in Seq(Byte) /\ Len(tx') = Len(tx) - 1 /\ Head(tx) \in Byte
    BY <1>1, <2>1, HeadTailProperties
  <2>3. Len(tx') <= SendBuffer
    BY <1>0, <1>1, <2>2, FstreamWriterAssumption DEF TypeOK
  <2>4. Frame \in Seq(Byte)
    <3> DEFINE y == <<Head(tx)>>
    <3>1. y \in Seq(Byte)
      BY <2>2
    <3> HIDE DEF y
    <3>2. dbuf \o y \in Seq(Byte)
      BY ONLY <1>1, <3>1, Joined
    <3> QED
      BY <3>2 DEF Frame, y
  <2>5. dbuf' \in Seq(Byte) /\ taken' \in Seq(Seq(Byte))
    <3>1. CASE Complete(Frame)
      <4> DEFINE f == Frame
                 m == SubSeq(f, FSTREAM_HEADER_SIZE + 1, Len(f))
      <4>1. taken' = Append(taken, m) /\ dbuf' = <<>>
        BY <1>6, <3>1 DEF DeviceReads
      <4>2. f \in Seq(Byte) /\ Len(f) \in Nat /\ Len(f) >= FSTREAM_HEADER_SIZE
        BY <2>4, <3>1, LenProperties DEF Complete
      <4> HIDE DEF f
      <4>3. m \in Seq(Byte)
        BY <4>2, Part DEF FSTREAM_HEADER_SIZE
      <4> HIDE DEF m
      <4>4. taken' \in Seq(Seq(Byte))
        BY <4>1, <4>3, AppendProperties DEF Kept
      <4>5. \A S : <<>> \in Seq(S)
        OBVIOUS
      <4> QED
        BY <4>1, <4>4, <4>5, Zenon
    <3>2. CASE ~Complete(Frame)
      BY <1>6, <2>4, <3>2, Zenon DEF DeviceReads, Kept
    <3> QED
      BY <3>1, <3>2
  <2>6. TypeOK'
    BY <1>0, <2>1, <2>2, <2>3, <2>5, Zenon DEF TypeOK, Byte
  <2> QED
    BY <1>0, <2>1, <2>5, <2>6, Zenon DEF Kept
<1>7. CASE UNCHANGED vars
  BY <1>0, <1>7, Zenon DEF vars, local, device, Kept, TypeOK
<1> QED
  BY <1>2, <1>3, <1>4, <1>5, <1>6, <1>7 DEF Next

-----------------------------------------------------------------------------
(* What is under way begins with the next frame. *)
LEMMA NextFrame ==
  ASSUME Kept, Intact, Len(Bytes) > 0
  PROVE  /\ Len(taken) \in Nat /\ Len(taken) < Len(posted) /\ Due \in Payloads
         /\ \A j \in 1 .. Size(Due) : Bytes[j] = DeviceFrame(Due)[j]
         /\ Size(Due) \in Nat /\ Size(Due) <= Len(Bytes)
<1>0. /\ TypeOK /\ Len(taken) \in Nat /\ posted \in Seq(Payloads)
      /\ \A q \in Payloads : q \in Seq(Byte)
  BY PayloadsOK, LenProperties DEF Kept
<1>1. PICK c : /\ Cuts(c, posted) /\ Carries(Bytes, posted, Len(taken), c)
               /\ Len(Bytes) = c[Len(posted)] - c[Len(taken)]
  BY DEF Intact
<1> DEFINE b == Bytes
           k == Len(taken)
<1>2. b \in Seq(Byte) /\ k \in Nat /\ Carries(b, posted, k, c) /\ Len(b) > 0 /\ Len(b) \in Nat
  BY <1>0, <1>1, BytesOK
<1> HIDE DEF b, k
<1>3. /\ k < Len(posted) /\ posted[k + 1] \in Payloads /\ Size(posted[k + 1]) \in Nat
      /\ \A j \in 1 .. Size(posted[k + 1]) : j <= Len(b) => b[j] = DeviceFrame(posted[k + 1])[j]
      /\ Len(b) = c[Len(posted)] - c[k] => Size(posted[k + 1]) <= Len(b)
  BY ONLY <1>0, <1>1, <1>2, FrameFirst, Zenon
<1>4. Size(posted[k + 1]) <= Len(b)
  BY <1>1, <1>3, Zenon DEF b, k
<1>5. \A j \in 1 .. Size(posted[k + 1]) : j <= Len(b)
  BY <1>2, <1>3, <1>4
<1> QED
  BY <1>0, <1>3, <1>4, <1>5, Zenon DEF b, k, Due

(* The byte that the device reads belongs to that frame. *)
LEMMA NextByte ==
  ASSUME Kept, Intact, tx # <<>>
  PROVE  /\ Frame \in Seq(Byte) /\ Len(Frame) = Len(dbuf) + 1 /\ Len(Frame) <= Size(Due)
         /\ Tail(tx) \o left \in Seq(Byte) /\ Bytes = Frame \o (Tail(tx) \o left)
         /\ Len(Bytes) > 0
         /\ Complete(Frame) <=> Len(Frame) = Size(Due)
         /\ Complete(Frame) => SubSeq(Frame, FSTREAM_HEADER_SIZE + 1, Len(Frame)) = Due
<1> DEFINE h == <<Head(tx)>>
           t == Tail(tx)
           f == Frame
           r == t \o left
<1>1. /\ tx \in Seq(Byte) /\ left \in Seq(Byte) /\ dbuf \in Seq(Byte)
      /\ Len(tx) \in Nat /\ Len(left) \in Nat /\ Len(dbuf) \in Nat
      /\ Len(Bytes) = Len(dbuf) + Len(tx) + Len(left)
  <2>1. TypeOK
    BY DEF Kept
  <2>2. /\ tx \in Seq(Byte) /\ left \in Seq(Byte) /\ dbuf \in Seq(Byte)
        /\ Len(tx) \in Nat /\ Len(left) \in Nat /\ Len(dbuf) \in Nat
        /\ Len(Bytes) = Len(dbuf) + Len(Pending) /\ Len(Pending) = Len(tx) + Len(left)
    BY <2>1, BytesOK, Zenon
  <2> QED
    BY <2>2
<1>2. h \in Seq(Byte) /\ Len(h) = 1 /\ t \in Seq(Byte) /\ Len(tx) > 0 /\ tx = h \o t
  <2>1. Head(tx) \in Byte /\ t \in Seq(Byte) /\ Len(t) = Len(tx) - 1
        /\ \A i \in 1 .. Len(t) : t[i] = tx[i + 1]
    BY <1>1, HeadTailProperties
  <2>2. Len(tx) > 0
    BY <1>1, EmptySeq
  <2>3. h \in Seq(Byte) /\ Len(h) = 1 /\ h[1] = tx[1]
    BY <1>1, <2>1, <2>2
  <2> HIDE DEF h, t
  <2>4. /\ h \o t \in Seq(Byte) /\ Len(h \o t) = Len(h) + Len(t)
        /\ \A i \in 1 .. Len(h) : (h \o t)[i] = h[i]
        /\ \A i \in 1 .. Len(t) : (h \o t)[Len(h) + i] = t[i]
    <3>1. h \in Seq(Byte) /\ t \in Seq(Byte)
      BY <2>1, <2>3
    <3> QED
      BY ONLY <3>1, Joined
  <2>5. \A i \in 1 .. Len(tx) : (h \o t)[i] = tx[i]
    <3> TAKE i \in 1 .. Len(tx)
    <3>1. CASE i = 1
      BY <2>3, <2>4, <3>1
    <3>2. CASE i # 1
      <4>1. i - 1 \in 1 .. Len(t) /\ 1 + (i - 1) = i /\ (i - 1) + 1 = i
        BY <1>1, <2>1, <3>2
      <4> QED
        BY <2>1, <2>3, <2>4, <4>1, Zenon
    <3> QED
      BY <3>1, <3>2
  <2>6. Len(h \o t) = Len(tx)
    BY <1>1, <2>1, <2>3, <2>4
  <2>7. tx = h \o t
    BY <1>1, <2>4, <2>5, <2>6, SeqEqual
  <2> QED
    BY <2>1, <2>2, <2>3, <2>7
<1>3. Len(Bytes) > 0
  BY <1>1, <1>2
<1>4. /\ Due \in Payloads /\ Size(Due) \in Nat /\ Size(Due) <= Len(Bytes)
      /\ \A j \in 1 .. Size(Due) : Bytes[j] = DeviceFrame(Due)[j]
      /\ Len(dbuf) < Size(Due)
  BY <1>3, NextFrame DEF Intact
<1> HIDE DEF h, t
<1>5. f = dbuf \o h
  BY DEF Frame, h
<1> HIDE DEF f, r
<1>6. f \in Seq(Byte) /\ Len(f) = Len(dbuf) + 1
  <2>1. dbuf \o h \in Seq(Byte) /\ Len(dbuf \o h) = Len(dbuf) + Len(h)
    BY ONLY <1>1, <1>2, Joined
  <2> QED
    BY <1>2, <1>5, <2>1
<1>7. r \in Seq(Byte)
  <2>1. t \o left \in Seq(Byte)
    BY ONLY <1>1, <1>2, Joined
  <2> QED
    BY <2>1 DEF r
<1>8. Bytes = f \o r
  <2>1. Bytes = dbuf \o ((h \o t) \o left)
    BY <1>2, Zenon DEF Bytes, Pending
  <2>2. (h \o t) \o left = h \o r
    BY <1>1, <1>2, BytesMoved, Zenon DEF r
  <2>3. dbuf \o (h \o r) = (dbuf \o h) \o r
    BY <1>1, <1>2, <1>7, BytesMoved, Zenon
  <2> QED
    BY <1>5, <2>1, <2>2, <2>3, Zenon
<1>9. Len(f) <= Size(Due) /\ Len(f) \in Nat
  BY <1>1, <1>4, <1>6
<1>10. \A j \in 1 .. Len(f) : f[j] = DeviceFrame(Due)[j]
  <2>1. \A j \in 1 .. Len(f) : (f \o r)[j] = f[j]
    BY ONLY <1>6, <1>7, Joined
  <2>2. \A j \in 1 .. Len(f) : j \in 1 .. Size(Due)
    BY <1>4, <1>9
  <2> QED
    BY <1>4, <1>8, <2>1, <2>2, Zenon
<1>11. Due \in Seq(Byte) /\ Len(Due) \in Nat /\ Len(Due) < Place[4]
  BY <1>4, PayloadsOK
<1>12. ASSUME Len(f) >= FSTREAM_HEADER_SIZE PROVE HeaderLength(f) = Len(Due)
  <2>1. \A j \in 1 .. FSTREAM_HEADER_SIZE : j \in 1 .. Len(f)
    BY <1>9, <1>12 DEF FSTREAM_HEADER_SIZE
  <2> QED
    BY <1>6, <1>10, <1>11, <1>12, <2>1, HeaderSeen, Zenon
<1>13. Complete(f) <=> Len(f) = Size(Due)
  BY <1>9, <1>11, <1>12 DEF Complete, Size, FSTREAM_HEADER_SIZE
<1>14. ASSUME Complete(f) PROVE SubSeq(f, FSTREAM_HEADER_SIZE + 1, Len(f)) = Due
  <2>1. Len(f) = FSTREAM_HEADER_SIZE + Len(Due)
    BY <1>13, <1>14 DEF Size
  <2> QED
    BY <1>6, <1>10, <1>11, <2>1, PayloadSeen, Zenon
<1> QED
  BY <1>3, <1>6, <1>7, <1>8, <1>9, <1>13, <1>14 DEF f, r, t

-----------------------------------------------------------------------------
(* What is under way stays the frames of the messages not yet delivered.   *)
LEMMA SameBytes ==
  ASSUME Intact, Bytes' = Bytes, posted' = posted, taken' = taken, dbuf' = dbuf
  PROVE  Intact'
BY Zenon DEF Intact, Due

LEMMA WriteMoves ==
  ASSUME TypeOK, NEW k \in 1 .. Len(left), Write(k)
  PROVE  Bytes' = Bytes
<1> DEFINE x == SubSeq(left, 1, k)
           y == SubSeq(left, k + 1, Len(left))
<1>1. left \in Seq(Byte) /\ tx \in Seq(Byte) /\ Len(left) \in Nat
  BY BytesOK
<1>2. x \in Seq(Byte) /\ y \in Seq(Byte)
  BY <1>1, Part
<1>3. x \o y = left
  <2>1. x \o y = SubSeq(left, 1, Len(left))
    <3>1. 1 \in 1 .. Len(left) + 1 /\ k \in 1 - 1 .. Len(left) /\ Len(left) \in k .. Len(left)
      BY <1>1
    <3> QED
      BY <1>1, <3>1, ConcatAdjacentSubSeq, Zenon
  <2>2. SubSeq(left, 1, Len(left)) = left
    BY <1>1, SubSeqFull, Zenon
  <2> QED
    BY <2>1, <2>2, Zenon
<1>4. tx' = tx \o x /\ left' = y /\ dbuf' = dbuf
  BY DEF Write, device
<1> HIDE DEF x, y
<1>5. tx \o (x \o y) = (tx \o x) \o y
  BY <1>1, <1>2, BytesMoved, Zenon
<1> QED
  BY <1>3, <1>4, <1>5, Zenon DEF Bytes, Pending

LEMMA MessageWritten ==
  ASSUME Short, Kept, Kept', Intact, NEW p \in Payloads, write_msg(p)
  PROVE  Intact'
<1> DEFINE b == Bytes
           k == Len(taken)
           f == DeviceFrame(p)
<1>1. /\ at = "idle" /\ left = <<>> /\ left' = f /\ posted' = Append(posted, p)
      /\ UNCHANGED <<tx, dbuf, taken>>
  BY PayloadsOK, WriteFrameOK DEF write_msg, device, Short, Kept
<1>2. /\ tx \in Seq(Byte) /\ dbuf \in Seq(Byte) /\ b \in Seq(Byte) /\ Len(dbuf) \in Nat
      /\ f \in Seq(Byte) /\ Len(b) \in Nat /\ Len(dbuf) <= Len(b)
  <2>1. TypeOK
    BY DEF Kept
  <2>2. /\ tx \in Seq(Byte) /\ dbuf \in Seq(Byte) /\ b \in Seq(Byte) /\ Len(dbuf) \in Nat
        /\ Len(b) = Len(dbuf) + Len(Pending) /\ Len(Pending) = Len(tx) + Len(left)
        /\ Len(tx) \in Nat /\ Len(left) \in Nat
    BY <2>1, BytesOK, Zenon
  <2>3. f \in Seq(Byte)
    BY PayloadsOK, FrameOK
  <2> QED
    BY <2>2, <2>3
<1>3. k \in Nat /\ posted \in Seq(Payloads) /\ \A q \in Payloads : q \in Seq(Byte)
  BY PayloadsOK, LenProperties DEF Kept
<1>4. PICK c : Cuts(c, posted) /\ Carries(b, posted, k, c) /\ Len(b) = c[Len(posted)] - c[k]
  BY DEF Intact
<1>5. Bytes' = b \o f
  <2>1. tx \o <<>> = tx
    BY <1>2, ConcatEmptySeq
  <2>2. b = dbuf \o tx
    BY <1>1, <2>1 DEF Bytes, Pending
  <2> HIDE DEF b, f
  <2>3. Bytes' = dbuf \o (tx \o f)
    BY <1>1 DEF Bytes, Pending
  <2> QED
    BY <1>2, <2>2, <2>3, BytesMoved, Zenon
<1> HIDE DEF b, k
<1>6. \E d : /\ Cuts(d, Append(posted, p)) /\ Carries(b \o DeviceFrame(p), Append(posted, p), k, d)
             /\ Len(b \o DeviceFrame(p)) = d[Len(Append(posted, p))] - d[k]
  <2>1. b \in Seq(Byte) /\ k \in Nat /\ posted \in Seq(Payloads) /\ p \in Payloads
    BY <1>2, <1>3
  <2> QED
    BY ONLY <1>3, <1>4, <2>1, FrameAdded
<1>7. Len(dbuf) < Size(posted'[k + 1])
  <2>1. CASE Len(b) > 0
    <3>1. k + 1 \in 1 .. Len(posted) /\ Len(dbuf) < Size(posted[k + 1])
      BY <1>3, <2>1, NextFrame, LenProperties DEF b, k, Due, Intact
    <3>2. posted'[k + 1] = posted[k + 1]
      BY <1>1, <1>3, <3>1, AppendProperties
    <3> QED
      BY <3>1, <3>2
  <2>2. CASE Len(b) = 0
    <3>1. k \in 0 .. Len(posted)
      BY <1>4 DEF Carries
    <3>2. posted' \in Seq(Payloads) /\ Len(posted') = Len(posted) + 1 /\ Len(posted) \in Nat
      BY <1>1, <1>3, AppendProperties, LenProperties
    <3>3. k + 1 \in 1 .. Len(posted')
      BY <3>1, <3>2
    <3>4. posted'[k + 1] \in Payloads
      BY <3>2, <3>3, ElementOfSeq
    <3>5. Len(posted'[k + 1]) \in Nat
      BY <3>4, PayloadsOK
    <3> QED
      BY <1>2, <2>2, <3>5 DEF Size, FSTREAM_HEADER_SIZE
  <2> QED
    BY <1>2, <2>1, <2>2
<1>8. k = Len(taken') /\ Len(dbuf') = Len(dbuf)
  BY <1>1 DEF k
<1> HIDE DEF f
<1> QED
  BY <1>1, <1>5, <1>6, <1>7, <1>8, Zenon DEF Intact, Due, f

LEMMA MessageRead ==
  ASSUME Kept, Kept', Intact, DeviceReads, Complete(Frame)
  PROVE  Intact' /\ taken' = Append(taken, Due) /\ Len(taken) < Len(posted)
<1> DEFINE b == Bytes
           k == Len(taken)
           f == Frame
           r == Tail(tx) \o left
<1>1. /\ tx # <<>> /\ tx' = Tail(tx) /\ dbuf' = <<>> /\ UNCHANGED <<left, posted>>
      /\ taken' = Append(taken, SubSeq(Frame, FSTREAM_HEADER_SIZE + 1, Len(Frame)))
  BY DEF DeviceReads, local
<1>2. /\ f \in Seq(Byte) /\ r \in Seq(Byte) /\ Len(f) = Size(Due) /\ b = f \o r /\ Len(b) > 0
      /\ SubSeq(f, FSTREAM_HEADER_SIZE + 1, Len(f)) = Due
  BY <1>1, NextByte
<1>3. taken' = Append(taken, Due)
  BY <1>1, <1>2, Zenon
<1>4. k \in Nat /\ posted \in Seq(Payloads) /\ \A q \in Payloads : q \in Seq(Byte)
  BY PayloadsOK, LenProperties DEF Kept
<1>5. Due \in Payloads /\ k < Len(posted)
  BY <1>2, NextFrame
<1>6. Len(taken') = k + 1
  <2>1. taken \in Seq(Seq(Byte)) /\ Due \in Seq(Byte)
    BY <1>4, <1>5 DEF Kept
  <2> QED
    BY <1>3, <2>1, AppendProperties
<1>7. PICK c : Cuts(c, posted) /\ Carries(b, posted, k, c) /\ Len(b) = c[Len(posted)] - c[k]
  BY DEF Intact
<1> HIDE DEF f, r
<1>8. Bytes' = r
  <2>1. Bytes' = <<>> \o r
    BY <1>1 DEF Bytes, Pending, r
  <2>2. <<>> \o r = r
    BY <1>2, ConcatEmptySeq
  <2> QED
    BY <2>1, <2>2
<1> HIDE DEF b
<1>9. b \in Seq(Byte) /\ Rest(r, b, Size(posted[k + 1]))
  <2>1. f \in Seq(Byte) /\ r \in Seq(Byte)
    BY <1>2
  <2>2. /\ f \o r \in Seq(Byte) /\ Len(f \o r) = Len(f) + Len(r)
        /\ Len(f) \in Nat /\ Len(r) \in Nat
        /\ \A j \in 1 .. Len(r) : (f \o r)[Len(f) + j] = r[j]
    BY ONLY <2>1, Joined
  <2>3. Len(r) = Len(f \o r) - Len(f)
    BY <2>2
  <2>4. Rest(r, f \o r, Len(f))
    BY <2>2, <2>3, Zenon DEF Rest
  <2> QED
    BY <1>2, <2>2, <2>4, Zenon DEF Due
<1> HIDE DEF k
<1>10. /\ Carries(r, posted, k + 1, c)
       /\ Len(b) = c[Len(posted)] - c[k] => Len(r) = c[Len(posted)] - c[k + 1]
  <2>1. r \in Seq(Byte) /\ b \in Seq(Byte) /\ posted \in Seq(Payloads) /\ k \in Nat
    BY <1>2, <1>4, <1>9
  <2>2. Rest(r, b, Size(posted[k + 1]))
    BY <1>9
  <2>3. \A q \in Payloads : q \in Seq(Byte)
    BY <1>4
  <2>4. Carries(b, posted, k, c) /\ Cuts(c, posted) /\ k < Len(posted)
    BY <1>5, <1>7
  <2> QED
    BY ONLY <2>1, <2>2, <2>3, <2>4, FrameTaken, SMTT(60)
<1>11. Len(r) = c[Len(posted)] - c[k + 1]
  BY <1>7, <1>10
<1>12. Len(r) > 0 => Len(dbuf') < Size(posted'[k + 2])
  <2> SUFFICES ASSUME Len(r) > 0 PROVE Len(dbuf') < Size(posted'[k + 2])
    OBVIOUS
  <2>1. k + 1 \in Nat /\ (k + 1) + 1 = k + 2
    BY <1>4
  <2>2. k + 1 < Len(posted) /\ Size(posted[(k + 1) + 1]) \in Nat
    BY <1>2, <1>4, <1>7, <1>10, <2>1, FrameFirst
  <2>3. Len(posted) \in Nat
    BY <1>4, LenProperties
  <2>4. posted[k + 2] \in Payloads
    BY <1>4, <2>1, <2>2, <2>3, ElementOfSeq
  <2>5. Len(posted[k + 2]) \in Nat
    BY <2>4, PayloadsOK
  <2>6. Len(dbuf') = 0 /\ posted' = posted
    BY <1>1
  <2> QED
    BY <2>5, <2>6 DEF Size, FSTREAM_HEADER_SIZE
<1>13. posted'[Len(taken') + 1] = posted'[k + 2]
  <2>1. (k + 1) + 1 = k + 2
    BY <1>4
  <2> QED
    BY <1>6, <2>1 DEF k
<1>14. Intact'
  <2>1. Len(taken') = k + 1 /\ posted' = posted
    BY <1>1, <1>6 DEF k
  <2> QED
    BY <1>7, <1>8, <1>10, <1>11, <1>12, <1>13, <2>1, Zenon DEF Intact, Due
<1> QED
  BY <1>3, <1>5, <1>14 DEF k

LEMMA StepIntact ==
  ASSUME Short, Kept, Kept', Intact, [Next]_vars, ~torn'
  PROVE  Intact'
<1>0. TypeOK
  BY DEF Kept
<1>1. ASSUME NEW p \in Payloads, write_msg(p) PROVE Intact'
  BY <1>1, MessageWritten
<1>2. ASSUME NEW k \in 1 .. Len(left), Write(k) PROVE Intact'
  <2>1. UNCHANGED <<posted, taken, dbuf>>
    BY <1>2 DEF Write, device
  <2> QED
    BY <1>0, <1>2, <2>1, WriteMoves, SameBytes
<1>3. CASE Done
  <2>1. UNCHANGED <<left, tx, dbuf, taken, posted>>
    BY <1>3 DEF Done, Return, device
  <2>2. Bytes' = Bytes
    BY <2>1 DEF Bytes, Pending
  <2> QED
    BY <2>1, <2>2, SameBytes
<1>4. CASE WriteFails
  BY <1>0, <1>4, Zenon DEF WriteFails
<1>5. CASE Break \/ UNCHANGED vars
  <2>1. UNCHANGED <<left, tx, dbuf, taken, posted>>
    BY <1>5 DEF Break, vars, local, device
  <2>2. Bytes' = Bytes
    BY <2>1 DEF Bytes, Pending
  <2> QED
    BY <2>1, <2>2, SameBytes
<1>6. CASE DeviceReads
  <2>1. CASE Complete(Frame)
    BY <1>6, <2>1, MessageRead
  <2>2. CASE ~Complete(Frame)
    <3>1. /\ tx # <<>> /\ tx' = Tail(tx) /\ dbuf' = Frame /\ UNCHANGED <<left, posted, taken>>
      BY <1>6, <2>2 DEF DeviceReads, local
    <3>2. /\ Bytes = Frame \o (Tail(tx) \o left) /\ Len(Frame) <= Size(Due)
          /\ Len(Frame) # Size(Due) /\ Len(Bytes) > 0 /\ Len(Frame) = Len(dbuf) + 1
      BY <2>2, <3>1, NextByte, Zenon
    <3>3. Bytes' = Bytes
      BY <3>1, <3>2, Zenon DEF Bytes, Pending
    <3>4. Len(Frame) < Size(Due)
      <4>1. Size(Due) \in Nat
        BY <3>2, NextFrame
      <4>2. Len(dbuf) \in Nat
        BY <1>0, BytesOK
      <4> QED
        BY <3>2, <4>1, <4>2
    <3>5. Len(dbuf') < Size(Due')
      BY <3>1, <3>4, Zenon DEF Due
    <3> QED
      BY <3>1, <3>3, <3>5, Zenon DEF Intact
  <2> QED
    BY <2>1, <2>2
<1> QED
  BY <1>1, <1>2, <1>3, <1>4, <1>5, <1>6 DEF Next

LEMMA TornStays == ASSUME Kept, [Next]_vars, torn PROVE torn'
BY Zenon DEF Next, write_msg, Write, Done, WriteFails, Break, DeviceReads, vars

LEMMA StepWriter == ASSUME Short PROVE WriterInv /\ [Next]_vars => WriterInv'
<1> SUFFICES ASSUME WriterInv, [Next]_vars PROVE WriterInv'
  OBVIOUS
<1>1. Kept /\ Kept'
  BY StepKept DEF WriterInv
<1>2. ~torn' => Intact'
  <2> SUFFICES ASSUME ~torn' PROVE Intact'
    OBVIOUS
  <2>1. ~torn
    BY <1>1, TornStays
  <2>2. Intact
    BY <2>1, Zenon DEF WriterInv
  <2> QED
    BY <1>1, <2>2, StepIntact, Zenon
<1> QED
  BY <1>1, <1>2, Zenon DEF WriterInv

(* Types, and the socket is never overfilled, whatever the lengths are.    *)
THEOREM WriterTypeOK == Spec => []TypeOK
<1>1. Init => Kept
  BY InitWriter DEF WriterInv
<1>2. Kept /\ [Next]_vars => Kept'
  BY StepKept
<1>3. Kept => TypeOK
  BY DEF Kept
<1> QED
  BY <1>1, <1>2, <1>3, PTL DEF Spec

LEMMA WriterCorrect == ASSUME Short PROVE Spec => []WriterInv
<1>1. WriterInv /\ [Next]_vars => WriterInv'
  BY StepWriter
<1> QED
  BY <1>1, InitWriter, PTL DEF Spec

(* The device is told the lengths that were meant as long as none of them  *)
(* needs a third byte.                                                     *)
THEOREM ShortLengthsAreTold == ASSUME Short PROVE Spec => []LengthIsTold
<1>1. WriterInv => LengthIsTold
  <2> SUFFICES ASSUME WriterInv, ~torn, Len(dbuf) >= FSTREAM_HEADER_SIZE
               PROVE  HeaderLength(dbuf) = Len(Due)
    BY DEF LengthIsTold, Due
  <2>1. Kept /\ Intact /\ TypeOK
    BY Zenon DEF WriterInv, Kept
  <2>2. /\ dbuf \in Seq(Byte) /\ Pending \in Seq(Byte) /\ Len(Pending) \in Nat /\ Len(dbuf) \in Nat
        /\ Len(Bytes) = Len(dbuf) + Len(Pending)
    BY <2>1, BytesOK
  <2>3. Len(Bytes) > 0
    BY <2>2 DEF FSTREAM_HEADER_SIZE
  <2>4. /\ Due \in Payloads /\ Size(Due) \in Nat /\ Len(dbuf) < Size(Due)
        /\ \A j \in 1 .. Size(Due) : Bytes[j] = DeviceFrame(Due)[j]
    BY <2>1, <2>3, NextFrame DEF Intact
  <2>5. Due \in Seq(Byte) /\ Len(Due) < Place[4]
    BY <2>4, PayloadsOK
  <2>6. \A j \in 1 .. FSTREAM_HEADER_SIZE : j \in 1 .. Len(dbuf) /\ j \in 1 .. Size(Due)
    BY <2>2, <2>4 DEF FSTREAM_HEADER_SIZE
  <2>7. \A j \in 1 .. Len(dbuf) : Bytes[j] = dbuf[j]
    <3>1. dbuf \in Seq(Byte) /\ Pending \in Seq(Byte)
      BY <2>2
    <3>2. \A j \in 1 .. Len(dbuf) : (dbuf \o Pending)[j] = dbuf[j]
      BY ONLY <3>1, Joined
    <3> QED
      BY <3>2, Zenon DEF Bytes
  <2>8. \A j \in 1 .. FSTREAM_HEADER_SIZE : dbuf[j] = DeviceFrame(Due)[j]
    BY <2>4, <2>6, <2>7, Zenon
  <2> QED
    BY <2>2, <2>5, <2>8, HeaderSeen
<1> QED
  BY <1>1, WriterCorrect, PTL

(* Then the messages arrive as the device's messages do, whole, once each  *)
(* and in order, until write_msg fails in the middle of one.               *)
THEOREM WriterImplementsChannel == ASSUME Short PROVE Spec => ImplementsChannel
<1>1. Init => Channel!Init
  BY DEF Init, Channel!Init
<1>2. WriterInv /\ [Next]_vars => [Channel!Next]_(Channel!cvars)
  <2> SUFFICES ASSUME WriterInv, Next
               PROVE  Channel!Next \/ UNCHANGED Channel!cvars
    BY DEF vars, device, Channel!cvars
  <2>1. /\ Kept /\ torn \in BOOLEAN /\ taken \in Seq(Seq(Byte))
    BY DEF WriterInv, Kept, TypeOK
  <2>2. CASE \E p \in Payloads : write_msg(p)
    BY <2>2 DEF write_msg, device, Channel!Next, Channel!Post
  <2>3. CASE DeviceReads
    <3>1. CASE Complete(Frame)
      <4>1. UNCHANGED <<posted, torn>>
        BY <2>3 DEF DeviceReads
      <4>2. CASE torn
        <5> DEFINE f == Frame
        <5>1. taken' = Append(taken, SubSeq(f, FSTREAM_HEADER_SIZE + 1, Len(f)))
          BY <2>3, <3>1 DEF DeviceReads
        <5>2. Len(taken') = Len(taken) + 1
          BY <2>1, <5>1
        <5> QED
          BY <4>1, <4>2, <5>2 DEF Channel!Next, Channel!TakeAnything
      <4>3. CASE ~torn
        <5>1. Kept' /\ Intact
          BY <2>1, <4>3, StepKept, Zenon DEF WriterInv
        <5>2. taken' = Append(taken, posted[Len(taken) + 1]) /\ Len(taken) < Len(posted)
          BY <2>1, <2>3, <3>1, <5>1, MessageRead, Zenon DEF Due
        <5> QED
          BY <4>1, <4>3, <5>2 DEF Channel!Next, Channel!Take
      <4> QED
        BY <4>2, <4>3
    <3>2. CASE ~Complete(Frame)
      BY <2>3, <3>2 DEF DeviceReads, Channel!cvars
    <3> QED
      BY <3>1, <3>2
  <2>4. CASE WriteFails
    <3>1. torn' = TRUE /\ UNCHANGED <<posted, taken>>
      BY <2>4 DEF WriteFails, device
    <3>2. CASE torn
      <4>1. torn = TRUE
        BY <2>1, <3>2, Zenon
      <4> QED
        BY <3>1, <4>1, Zenon DEF Channel!cvars
    <3>3. CASE ~torn
      BY <3>1, <3>3, Zenon DEF Channel!Next, Channel!Tear
    <3> QED
      BY <3>2, <3>3
  <2>5. CASE Done \/ Break \/ \E k \in 1 .. Len(left) : Write(k)
    BY <2>5 DEF Done, Break, Write, device, Channel!cvars
  <2> QED
    BY <2>2, <2>3, <2>4, <2>5 DEF Next
<1> QED
  BY <1>1, <1>2, WriterCorrect, PTL DEF Spec, ImplementsChannel, Channel!Spec
=============================================================================
