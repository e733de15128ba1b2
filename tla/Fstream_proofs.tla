--------------------------- MODULE Fstream_proofs ---------------------------
(***************************************************************************)
(* Proofs about the frames of Fstream: what the length in a header tells,  *)
(* for any number of values of a byte, and how a sequence of bytes divides *)
(* into frames.                                                            *)
(***************************************************************************)
EXTENDS Fstream, SequenceTheorems, TLAPS

LEMMA Division ==
  ASSUME NEW n \in Nat, NEW d \in Nat, d > 0
  PROVE /\ n \div d \in Nat /\ n % d \in 0 .. d - 1
        /\ n = (n \div d) * d + (n % d)
<1>1. n % d \in 0 .. d - 1
  BY SMT
<1>2. n = d * (n \div d) + (n % d)
  BY SMT
<1>3. n \div d \in Nat
  BY SMT
<1> QED BY <1>1, <1>2, <1>3, SMT

LEMMA Quotient ==
  ASSUME NEW d \in Nat, d > 0, NEW q \in Nat, NEW r \in 0 .. d - 1
  PROVE  (q * d + r) \div d = q
<1> DEFINE n == q * d + r
<1>1. n \in Nat
  BY SMT
<1>2. n = (n \div d) * d + (n % d) /\ n % d \in 0 .. d - 1 /\ n \div d \in Nat
  BY <1>1, Division
<1>3. \A x, y, s, t \in Nat : s < d /\ t < d /\ x * d + s = y * d + t => x = y
  <2>1. ASSUME NEW x \in Nat, NEW y \in Nat, x < y PROVE y * d >= x * d + d
    <3>1. PICK z \in Nat : y = x + 1 + z
      <4>1. y - x - 1 \in Nat BY <2>1
      <4> QED BY <4>1
    <3> QED BY <3>1, SMT
  <2> QED BY <2>1, SMT
<1> QED BY <1>1, <1>2, <1>3, SMT

LEMMA Twice ==
  ASSUME NEW n \in Nat, NEW b \in Nat, b > 0, NEW d \in Nat, d > 0
  PROVE  (n \div b) \div d = n \div (d * b)
<1> DEFINE q == n \div b
           r == n % b
           p == q \div d
           s == q % d
<1>1. q \in Nat /\ r \in 0 .. b - 1 /\ n = q * b + r
  BY Division
<1>2. p \in Nat /\ s \in 0 .. d - 1 /\ q = p * d + s
  BY <1>1, Division
<1> HIDE DEF q, r, p, s
<1>3. n = p * (d * b) + (s * b + r)
  <2>1. n = (p * d + s) * b + r
    BY <1>1, <1>2
  <2> QED BY <2>1, <1>1, <1>2, SMT
<1>4. s * b + r \in 0 .. d * b - 1
  <2>1. PICK z \in Nat : d = s + 1 + z
    <3>1. d - s - 1 \in Nat /\ d = s + 1 + (d - s - 1)
      BY <1>2
    <3> QED BY <3>1
  <2>2. d * b = s * b + b + z * b /\ z * b \in Nat /\ s * b \in Nat
    BY <2>1, <1>2, SMT
  <2> QED BY <2>2, <1>1, SMT
<1>5. d * b \in Nat /\ d * b > 0
  BY SMT
<1>6. n \div (d * b) = p
  BY <1>3, <1>4, <1>5, <1>2, Quotient
<1> QED BY <1>6 DEF p, q

LEMMA Places ==
  /\ Place[0] = 1 /\ Place[1] = Base /\ Place[2] = Base * Base
  /\ Place[3] = Base * Base * Base /\ Place[4] = Base * Base * Base * Base
BY SMT DEF Place

LEMMA Digits ==
  ASSUME NEW n \in Nat
  PROVE  /\ \A i \in 0 .. 3 : Digit(n, i) \in 0 .. Base - 1 /\ n \div Place[i] \in Nat
         /\ \A i \in 0 .. 3 : n \div Place[i] = (n \div Place[i + 1]) * Base + Digit(n, i)
         /\ n \div Place[0] = n
         /\ n < Place[4] => n \div Place[4] = 0
<1> USE FstreamAssumption
<1>1. \A i \in 0 .. 3 : Place[i] \in Nat /\ Place[i] > 0 /\ Place[i + 1] = Base * Place[i]
  BY Places, SMT
<1>2. ASSUME NEW i \in 0 .. 3
      PROVE  /\ Digit(n, i) \in 0 .. Base - 1
             /\ n \div Place[i] \in Nat
             /\ n \div Place[i] = (n \div Place[i + 1]) * Base + Digit(n, i)
  <2>0. Base \in Nat /\ Base > 0
    OBVIOUS
  <2>1. n \div Place[i] \in Nat
    BY <1>1, Division
  <2>2. (n \div Place[i]) \div Base = n \div Place[i + 1]
    <3>1. (n \div Place[i]) \div Base = n \div (Base * Place[i])
      BY <1>1, <2>0, Twice
    <3> QED BY <3>1, <1>1, Zenon
  <2>3. /\ (n \div Place[i]) % Base \in 0 .. Base - 1
        /\ n \div Place[i] = ((n \div Place[i]) \div Base) * Base + ((n \div Place[i]) % Base)
    BY <2>0, <2>1, Division, Zenon
  <2> QED BY <2>1, <2>2, <2>3, Zenon DEF Digit
<1>3. n \div Place[0] = n
  BY Places, SMT
<1>4. ASSUME n < Place[4] PROVE n \div Place[4] = 0
  <2>1. Place[4] \in Nat /\ Place[4] > 0
    BY Places, SMT
  <2>2. n = 0 * Place[4] + n /\ n \in 0 .. Place[4] - 1
    BY <1>4, <2>1
  <2> QED BY <2>1, <2>2, Quotient
<1> QED BY <1>2, <1>3, <1>4, Zenon

(* What the four bytes of a length stand for. *)
LEMMA Value ==
  ASSUME NEW a \in Nat, NEW b \in Nat, NEW c \in Nat, NEW d \in Nat
  PROVE  ReadLength(<<a, b, c, d>>) = a + Base * (b + Base * (c + Base * d))
<1>1. ReadLength(<<a, b, c, d>>)
        = a * 1 + b * Base + c * (Base * Base) + d * (Base * Base * Base)
  BY Places, Zenon DEF ReadLength
<1> QED BY <1>1, FstreamAssumption, SMT

(* read_msg reads the length that the device wrote.                        *)
THEOREM DeviceLengthIsRead ==
  ASSUME NEW n \in Nat, n < Place[4]
  PROVE  ReadLength(DeviceLength(n)) = n
<1> DEFINE a == Digit(n, 0)
           b == Digit(n, 1)
           c == Digit(n, 2)
           d == Digit(n, 3)
           q(i) == n \div Place[i]
<1>1. /\ q(0) = n /\ q(0) = q(1) * Base + a /\ q(1) = q(2) * Base + b
      /\ q(2) = q(3) * Base + c /\ q(3) = q(4) * Base + d /\ q(4) = 0
      /\ a \in Nat /\ b \in Nat /\ c \in Nat /\ d \in Nat
      /\ q(1) \in Nat /\ q(2) \in Nat /\ q(3) \in Nat
  <2>1. q(0) = n /\ q(4) = 0
    BY Digits, Zenon
  <2>2. ASSUME NEW i \in 0 .. 3
        PROVE  Digit(n, i) \in Nat /\ q(i) \in Nat /\ q(i) = q(i + 1) * Base + Digit(n, i)
    <3>1. \A x \in 0 .. Base - 1 : x \in Nat
      BY FstreamAssumption
    <3> QED BY <3>1, Digits, Zenon
  <2> HIDE DEF q
  <2> QED BY <2>1, <2>2, SMT
<1> HIDE DEF a, b, c, d, q
<1>2. n = a + Base * (b + Base * (c + Base * d))
  BY <1>1, FstreamAssumption, SMT
<1>3. DeviceLength(n) = <<a, b, c, d>>
  BY DEF DeviceLength, a, b, c, d
<1> QED BY <1>1, <1>2, <1>3, Value

(* The header of write_msg tells the true length as long as it fits into   *)
(* two bytes ...                                                           *)
THEOREM ShortLengthIsTold ==
  ASSUME NEW n \in Nat, n < Place[2]
  PROVE  WriteLength(n) = DeviceLength(n) /\ ReadLength(WriteLength(n)) = n
<1>0. Base \in Nat /\ Base > 1
  BY FstreamAssumption
<1>1. /\ Place[2] \in Nat /\ Place[2] > 0 /\ Place[3] \in Nat /\ Place[3] > 0
      /\ Place[2] <= Place[3] /\ Place[3] <= Place[4]
  <2> DEFINE s == Base * Base
  <2>1. s \in Nat /\ s > 0
    BY <1>0, SMT
  <2>2. Place[2] = s /\ Place[3] = s * Base /\ Place[4] = s * Base * Base
    BY Places, Zenon
  <2> HIDE DEF s
  <2>3. s * Base >= s /\ s * Base \in Nat
    BY <1>0, <2>1, SMT
  <2>4. s * Base * Base >= s * Base
    BY <1>0, <2>3, SMT
  <2> QED
    BY <2>1, <2>2, <2>3, <2>4
<1>2. n \div Place[2] = 0 /\ n \div Place[3] = 0
  <2>1. n = 0 * Place[2] + n /\ n = 0 * Place[3] + n /\ n < Place[3]
    BY <1>1
  <2> QED
    BY <1>1, <2>1, Quotient
<1>3. Digit(n, 2) = Digit(n, 3)
  BY <1>2, Zenon DEF Digit
<1>4. WriteLength(n) = DeviceLength(n)
  BY <1>3, Zenon DEF WriteLength, DeviceLength
<1>5. n < Place[4]
  BY <1>1, Places, FstreamAssumption, SMT
<1> QED
  BY <1>4, <1>5, DeviceLengthIsRead, Zenon

(* ... and one that is too long if it needs the third.                     *)
THEOREM LongLengthIsNot ==
  ASSUME NEW n \in Nat, Place[2] <= n, n < Place[3]
  PROVE  ReadLength(WriteLength(n)) > n
<1> DEFINE a == Digit(n, 0)
           b == Digit(n, 1)
           c == Digit(n, 2)
           q(i) == n \div Place[i]
<1>0. Base \in Nat /\ Base > 1
  BY FstreamAssumption
<1>1. /\ q(0) = n /\ q(0) = q(1) * Base + a /\ q(1) = q(2) * Base + b /\ q(2) = q(3) * Base + c
      /\ a \in 0 .. Base - 1 /\ b \in 0 .. Base - 1 /\ c \in 0 .. Base - 1
      /\ q(1) \in Nat /\ q(2) \in Nat
  <2>1. q(0) = n
    BY Digits, Zenon
  <2>2. ASSUME NEW i \in 0 .. 3
        PROVE  /\ Digit(n, i) \in 0 .. Base - 1 /\ q(i) \in Nat
               /\ q(i) = q(i + 1) * Base + Digit(n, i)
    BY Digits, Zenon
  <2> HIDE DEF q
  <2> QED
    BY <2>1, <2>2, SMT
<1>2. q(3) = 0
  <2>1. Place[3] \in Nat /\ Place[3] > 0 /\ n = 0 * Place[3] + n
    BY Places, <1>0, SMT
  <2> QED
    BY <2>1, Quotient
<1>3. WriteLength(n) = <<a, b, c, c>>
  BY DEF WriteLength
<1>4. Base * Base <= n
  BY Places
<1> HIDE DEF a, b, c, q
<1>5. c > 0
  <2>1. SUFFICES ASSUME c = 0 PROVE FALSE
    BY <1>0, <1>1
  <2>2. n = b * Base + a /\ b + 1 <= Base
    <3>1. q(2) = 0
      BY <1>0, <1>1, <1>2, <2>1, SMT
    <3>2. q(1) = b
      BY <1>0, <1>1, <3>1, SMT
    <3> QED
      BY <1>0, <1>1, <3>2
  <2>3. (b + 1) * Base <= Base * Base
    BY <1>0, <1>1, <2>2, SMT
  <2> QED
    BY <1>0, <1>1, <1>4, <2>2, <2>3, SMT
<1>6. n = a + Base * (b + Base * c)
  BY <1>0, <1>1, <1>2, SMT
<1>7. Base * c > 0
  BY <1>0, <1>1, <1>5, SMT
<1>8. Base * (c + Base * c) > Base * c
  BY <1>0, <1>1, <1>5, <1>7, SMT
<1>9. Base * (b + Base * (c + Base * c)) > Base * (b + Base * c)
  BY <1>0, <1>1, <1>8, SMT
<1> QED
  BY <1>0, <1>1, <1>3, <1>6, <1>9, Value

-----------------------------------------------------------------------------
(* Sequences that are joined and taken apart. *)
LEMMA Joined ==
  ASSUME NEW S, NEW s \in Seq(S), NEW t \in Seq(S)
  PROVE  /\ s \o t \in Seq(S) /\ Len(s) \in Nat /\ Len(t) \in Nat
         /\ Len(s \o t) = Len(s) + Len(t)
         /\ \A i \in 1 .. Len(s) : (s \o t)[i] = s[i]
         /\ \A i \in 1 .. Len(t) : (s \o t)[Len(s) + i] = t[i]
BY ConcatProperties, LenProperties

LEMMA Part ==
  ASSUME NEW S, NEW s \in Seq(S), NEW a \in 1 .. Len(s) + 1, NEW b \in a - 1 .. Len(s)
  PROVE  /\ SubSeq(s, a, b) \in Seq(S)
         /\ Len(SubSeq(s, a, b)) = b - a + 1
         /\ \A i \in 1 .. b - a + 1 : SubSeq(s, a, b)[i] = s[a + i - 1]
<1>1. Len(s) \in Nat /\ \A i \in 1 .. Len(s) : s[i] \in S
  BY LenProperties, ElementOfSeq
<1>2. \A i \in a .. b : s[i] \in S
  BY <1>1
<1> QED
  BY <1>1, <1>2, SubSeqProperties

LEMMA JoinedParts ==
  ASSUME NEW S, NEW s \in Seq(S), NEW t \in Seq(S)
  PROVE  /\ SubSeq(s \o t, 1, Len(s)) = s
         /\ SubSeq(s \o t, Len(s) + 1, Len(s) + Len(t)) = t
<1>1. SubSeq(s \o t, 1, Len(s)) = s
  <2> DEFINE u == SubSeq(s \o t, 1, Len(s))
  <2>1. u \in Seq(S) /\ Len(u) = Len(s) /\ \A i \in 1 .. Len(u) : u[i] = s[i]
    BY Joined, Part
  <2> HIDE DEF u
  <2> QED
    BY <2>1, SeqEqual DEF u
<1>2. SubSeq(s \o t, Len(s) + 1, Len(s) + Len(t)) = t
  <2> DEFINE u == SubSeq(s \o t, Len(s) + 1, Len(s) + Len(t))
  <2>1. u \in Seq(S) /\ Len(u) = Len(t) /\ \A i \in 1 .. Len(u) : u[i] = (s \o t)[Len(s) + i]
    BY Joined, Part
  <2>2. \A i \in 1 .. Len(u) : u[i] = t[i]
    BY <2>1, Joined
  <2> HIDE DEF u
  <2> QED
    BY <2>1, <2>2, SeqEqual DEF u
<1> QED
  BY <1>1, <1>2

LEMMA JoinedStart ==
  ASSUME NEW S, NEW s \in Seq(S), NEW t \in Seq(S), NEW u \in Seq(S),
         Len(u) <= Len(t), \A i \in 1 .. Len(u) : u[i] = t[i]
  PROVE  /\ s \o u \in Seq(S) /\ Len(s \o u) <= Len(s \o t)
         /\ \A i \in 1 .. Len(s \o u) : (s \o u)[i] = (s \o t)[i]
<1>1. /\ s \o u \in Seq(S) /\ Len(s) \in Nat /\ Len(u) \in Nat /\ Len(s \o u) = Len(s) + Len(u)
      /\ \A i \in 1 .. Len(s) : (s \o u)[i] = s[i]
      /\ \A i \in 1 .. Len(u) : (s \o u)[Len(s) + i] = u[i]
  BY Joined
<1>2. /\ Len(t) \in Nat /\ Len(s \o t) = Len(s) + Len(t)
      /\ \A i \in 1 .. Len(s) : (s \o t)[i] = s[i]
      /\ \A i \in 1 .. Len(t) : (s \o t)[Len(s) + i] = t[i]
  BY Joined
<1> DEFINE x == s \o u
           y == s \o t
<1> HIDE DEF x, y
<1>3. ASSUME NEW i \in 1 .. Len(s) + Len(u) PROVE x[i] = y[i]
  <2>1. CASE i <= Len(s)
    BY <1>1, <1>2, <2>1 DEF x, y
  <2>2. CASE i > Len(s)
    <3> DEFINE j == i - Len(s)
    <3>1. j \in 1 .. Len(u) /\ j \in 1 .. Len(t) /\ i = Len(s) + j
      BY <1>1, <1>2, <2>2
    <3> HIDE DEF j
    <3>2. x[Len(s) + j] = u[j] /\ y[Len(s) + j] = t[j]
      BY <1>1, <1>2, <3>1, Zenon DEF x, y
    <3> QED
      BY <3>1, <3>2, Zenon
  <2>3. i <= Len(s) \/ i > Len(s)
    BY <1>1
  <2> QED
    BY <2>1, <2>2, <2>3
<1>4. Len(s) + Len(u) <= Len(s) + Len(t)
  BY <1>1, <1>2
<1> QED
  BY <1>1, <1>2, <1>3, <1>4, Zenon DEF x, y

-----------------------------------------------------------------------------
(* The bytes of a frame. *)
Byte == 0 .. Base - 1
HeaderOf(n) == Magic \o DeviceLength(n)

LEMMA MagicOK == Magic \in Seq(Byte) /\ Len(Magic) = 2
<1>1. Magic \in [1 .. 2 -> Byte]
  BY FstreamAssumption DEF Byte
<1>2. Magic \in Seq(Byte)
  BY <1>1, SeqDef
<1> QED
  BY <1>1, <1>2, LenProperties

LEMMA HeaderOK ==
  ASSUME NEW n \in Nat
  PROVE  /\ HeaderOf(n) \in Seq(Byte) /\ Len(HeaderOf(n)) = FSTREAM_HEADER_SIZE
         /\ SubSeq(HeaderOf(n), 1, 2) = Magic
         /\ SubSeq(HeaderOf(n), 3, FSTREAM_HEADER_SIZE) = DeviceLength(n)
<1>1. Magic \in Seq(Byte) /\ Len(Magic) = 2
  BY MagicOK
<1>2. DeviceLength(n) \in Seq(Byte) /\ Len(DeviceLength(n)) = 4
  <2>1. \A i \in 0 .. 3 : Digit(n, i) \in Byte
    BY Digits, Zenon DEF Byte
  <2> QED
    BY <2>1 DEF DeviceLength
<1> DEFINE d == DeviceLength(n)
<1>3. HeaderOf(n) = Magic \o d
  BY DEF HeaderOf
<1> HIDE DEF d
<1>4. Magic \o d \in Seq(Byte) /\ Len(Magic \o d) = Len(Magic) + Len(d)
  BY <1>1, <1>2, Joined, Zenon DEF d
<1>5. Len(Magic) + 1 = 3 /\ Len(Magic) + Len(d) = 6
  BY <1>1, <1>2 DEF d
<1>6. /\ SubSeq(Magic \o d, 1, Len(Magic)) = Magic
      /\ SubSeq(Magic \o d, Len(Magic) + 1, Len(Magic) + Len(d)) = d
  BY <1>1, <1>2, JoinedParts, Zenon DEF d
<1> QED
  BY <1>1, <1>2, <1>3, <1>4, <1>5, <1>6, Zenon DEF FSTREAM_HEADER_SIZE, d

LEMMA FrameOK ==
  ASSUME NEW p \in Seq(Byte)
  PROVE  /\ DeviceFrame(p) = HeaderOf(Len(p)) \o p
         /\ DeviceFrame(p) \in Seq(Byte)
         /\ Len(DeviceFrame(p)) = FSTREAM_HEADER_SIZE + Len(p)
         /\ \A j \in 1 .. FSTREAM_HEADER_SIZE : DeviceFrame(p)[j] = HeaderOf(Len(p))[j]
         /\ \A j \in 1 .. Len(p) : DeviceFrame(p)[FSTREAM_HEADER_SIZE + j] = p[j]
<1>1. Len(p) \in Nat
  BY LenProperties
<1>2. DeviceFrame(p) = HeaderOf(Len(p)) \o p
  BY DEF DeviceFrame, HeaderOf
<1>3. HeaderOf(Len(p)) \in Seq(Byte) /\ Len(HeaderOf(Len(p))) = FSTREAM_HEADER_SIZE
  BY <1>1, HeaderOK
<1> DEFINE H == HeaderOf(Len(p))
<1>0. H \in Seq(Byte)
  BY <1>3
<1> HIDE DEF H
<1>4. /\ H \o p \in Seq(Byte) /\ Len(H \o p) = Len(H) + Len(p)
      /\ \A j \in 1 .. Len(H) : (H \o p)[j] = H[j]
      /\ \A j \in 1 .. Len(p) : (H \o p)[Len(H) + j] = p[j]
  BY <1>0, Joined
<1> QED
  BY <1>2, <1>3, <1>4, Zenon DEF H

(* Six bytes that are those of a frame tell the length of its payload.     *)
LEMMA HeaderKnown ==
  ASSUME NEW p \in Seq(Byte), Len(p) < Place[4], NEW h \in Seq(Byte), Len(h) = FSTREAM_HEADER_SIZE,
         \A j \in 1 .. FSTREAM_HEADER_SIZE : h[j] = DeviceFrame(p)[j]
  PROVE  h = HeaderOf(Len(p)) /\ IsMagic(h) /\ HeaderLength(h) = Len(p)
<1>1. Len(p) \in Nat
  BY LenProperties
<1>2. \A j \in 1 .. FSTREAM_HEADER_SIZE : DeviceFrame(p)[j] = HeaderOf(Len(p))[j]
  BY FrameOK, Zenon
<1>3. h = HeaderOf(Len(p))
  BY <1>1, <1>2, HeaderOK, SeqEqual, Zenon
<1> QED
  BY <1>1, <1>3, HeaderOK, DeviceLengthIsRead DEF IsMagic, HeaderLength

(* A length that was read fits into its four bytes.                        *)
LEMMA HeaderLengthOK ==
  ASSUME NEW h \in Seq(Byte), Len(h) = FSTREAM_HEADER_SIZE
  PROVE  HeaderLength(h) \in 0 .. Place[4] - 1
<1>0. Base \in Nat /\ Base > 1
  BY FstreamAssumption
<1>1. SubSeq(h, 3, FSTREAM_HEADER_SIZE) = <<h[3], h[4], h[5], h[6]>>
  <2> DEFINE u == SubSeq(h, 3, 6)
             v == <<h[3], h[4], h[5], h[6]>>
  <2>1. u \in Seq(Byte) /\ Len(u) = 4 /\ \A i \in 1 .. 4 : u[i] = h[3 + i - 1]
    <3>1. 3 \in 1 .. Len(h) + 1 /\ 6 \in 3 - 1 .. Len(h) /\ 6 - 3 + 1 = 4
      BY DEF FSTREAM_HEADER_SIZE
    <3>2. u \in Seq(Byte) /\ Len(u) = 6 - 3 + 1 /\ \A i \in 1 .. 6 - 3 + 1 : u[i] = h[3 + i - 1]
      BY <3>1, Part, Zenon
    <3> QED
      BY <3>1, <3>2, Zenon
  <2>2. \A i \in 1 .. 4 : v[i] = h[3 + i - 1]
    OBVIOUS
  <2>3. v \in Seq(Byte) /\ Len(v) = 4
    <3>1. \A i \in 1 .. 6 : h[i] \in Byte
      BY ElementOfSeq DEF FSTREAM_HEADER_SIZE
    <3> QED
      BY <3>1
  <2> HIDE DEF u, v
  <2>4. \A i \in 1 .. Len(u) : u[i] = v[i]
    BY <2>1, <2>2
  <2> QED
    BY <2>1, <2>3, <2>4, SeqEqual, Zenon DEF u, v, FSTREAM_HEADER_SIZE
<1>2. ASSUME NEW i \in 1 .. 6 PROVE h[i] \in 0 .. Base - 1
  BY ElementOfSeq DEF Byte, FSTREAM_HEADER_SIZE
<1> DEFINE a == h[3]
           b == h[4]
           c == h[5]
           d == h[6]
<1>3. a \in 0 .. Base - 1 /\ b \in 0 .. Base - 1 /\ c \in 0 .. Base - 1 /\ d \in 0 .. Base - 1
  BY <1>2
<1>4. HeaderLength(h) = ReadLength(<<a, b, c, d>>)
  BY <1>1 DEF HeaderLength
<1> HIDE DEF a, b, c, d
<1>5. HeaderLength(h) = a + Base * (b + Base * (c + Base * d))
  BY <1>0, <1>3, <1>4, Value
<1>6. \A x, y, s \in Nat : x <= Base - 1 /\ y <= s - 1 => x + Base * y \in Nat /\ x + Base * y <= Base * s - 1
  <2> SUFFICES ASSUME NEW x \in Nat, NEW y \in Nat, NEW s \in Nat, x <= Base - 1, y <= s - 1
               PROVE  x + Base * y \in Nat /\ x + Base * y <= Base * s - 1
    OBVIOUS
  <2>1. PICK z \in Nat : s = y + 1 + z
    <3>1. s - y - 1 \in Nat /\ s = y + 1 + (s - y - 1)
      OBVIOUS
    <3> QED
      BY <3>1
  <2>2. Base * s = Base * y + Base + Base * z /\ Base * z \in Nat /\ Base * y \in Nat
    BY <1>0, <2>1, SMT
  <2> QED
    BY <1>0, <2>2
<1>7. c + Base * d \in Nat /\ c + Base * d <= Base * Base - 1
  BY <1>0, <1>3, <1>6
<1>8. Base * Base \in Nat /\ Base * (Base * Base) \in Nat
  BY <1>0, SMT
<1>9. b + Base * (c + Base * d) \in Nat /\ b + Base * (c + Base * d) <= Base * (Base * Base) - 1
  BY <1>0, <1>3, <1>6, <1>7, <1>8
<1>10. /\ a + Base * (b + Base * (c + Base * d)) \in Nat
       /\ a + Base * (b + Base * (c + Base * d)) <= Base * (Base * (Base * Base)) - 1
  BY <1>0, <1>3, <1>6, <1>8, <1>9
<1>11. Place[4] = Base * (Base * (Base * Base)) /\ Place[4] \in Nat
  BY <1>0, Places, SMT
<1> QED
  BY <1>5, <1>10, <1>11

(* A frame that has not arrived to its end tells its length, too, and one *)
(* that has its payload.                                                  *)
LEMMA HeaderSeen ==
  ASSUME NEW p \in Seq(Byte), Len(p) < Place[4], NEW f \in Seq(Byte),
         Len(f) >= FSTREAM_HEADER_SIZE,
         \A j \in 1 .. FSTREAM_HEADER_SIZE : f[j] = DeviceFrame(p)[j]
  PROVE  HeaderLength(f) = Len(p)
<1> DEFINE h == SubSeq(f, 1, 6)
<1>1. Len(f) \in Nat /\ Len(f) >= 6
  BY LenProperties DEF FSTREAM_HEADER_SIZE
<1>2. h \in Seq(Byte) /\ Len(h) = 6 /\ \A j \in 1 .. 6 : h[j] = f[j]
  <2>1. 1 \in 1 .. Len(f) + 1 /\ 6 \in 1 - 1 .. Len(f) /\ 6 - 1 + 1 = 6
    BY <1>1
  <2>2. \A j \in 1 .. 6 : 1 + j - 1 = j
    OBVIOUS
  <2> QED
    BY <2>1, <2>2, Part
<1> HIDE DEF h
<1>3. HeaderLength(h) = Len(p)
  BY <1>2, HeaderKnown DEF FSTREAM_HEADER_SIZE
<1>4. SubSeq(h, 3, 6) = SubSeq(f, 3, 6)
  <2>0. ASSUME NEW g \in Seq(Byte), Len(g) \in Nat, Len(g) >= 6
        PROVE  /\ SubSeq(g, 3, 6) \in Seq(Byte) /\ Len(SubSeq(g, 3, 6)) = 4
               /\ \A j \in 1 .. 4 : SubSeq(g, 3, 6)[j] = g[3 + j - 1]
    BY <2>0, Part
  <2>1. /\ SubSeq(h, 3, 6) \in Seq(Byte) /\ Len(SubSeq(h, 3, 6)) = 4
        /\ \A j \in 1 .. 4 : SubSeq(h, 3, 6)[j] = h[3 + j - 1]
    <3>1. Len(h) \in Nat /\ Len(h) >= 6
      BY <1>2
    <3> QED
      BY <1>2, <2>0, <3>1, Zenon
  <2>2. /\ SubSeq(f, 3, 6) \in Seq(Byte) /\ Len(SubSeq(f, 3, 6)) = 4
        /\ \A j \in 1 .. 4 : SubSeq(f, 3, 6)[j] = f[3 + j - 1]
    BY <1>1, <2>0, Zenon
  <2>3. \A j \in 1 .. 4 : 3 + j - 1 \in 1 .. 6
    OBVIOUS
  <2>4. \A j \in 1 .. 4 : SubSeq(h, 3, 6)[j] = SubSeq(f, 3, 6)[j]
    <3> TAKE j \in 1 .. 4
    <3>1. h[3 + j - 1] = f[3 + j - 1]
      BY <1>2, <2>3
    <3> QED
      BY <2>1, <2>2, <3>1, Zenon
  <2> QED
    BY <2>1, <2>2, <2>4, SeqEqual
<1> QED
  BY <1>3, <1>4, Zenon DEF HeaderLength, FSTREAM_HEADER_SIZE

LEMMA PayloadSeen ==
  ASSUME NEW p \in Seq(Byte), NEW f \in Seq(Byte), Len(f) = FSTREAM_HEADER_SIZE + Len(p),
         \A j \in 1 .. Len(f) : f[j] = DeviceFrame(p)[j]
  PROVE  SubSeq(f, FSTREAM_HEADER_SIZE + 1, Len(f)) = p
<1> DEFINE H == HeaderOf(Len(p))
<1>1. f = DeviceFrame(p)
  <2> DEFINE g == DeviceFrame(p)
  <2>1. g \in Seq(Byte) /\ Len(g) = Len(f) /\ \A j \in 1 .. Len(f) : f[j] = g[j]
    BY FrameOK
  <2> HIDE DEF g
  <2>2. f = g
    BY <2>1, SeqEqual
  <2> QED
    BY <2>2 DEF g
<1>2. f = H \o p /\ H \in Seq(Byte) /\ Len(H) = FSTREAM_HEADER_SIZE
  BY <1>1, FrameOK, HeaderOK, LenProperties
<1> HIDE DEF H
<1>3. SubSeq(H \o p, Len(H) + 1, Len(H) + Len(p)) = p
  BY <1>2, JoinedParts, Zenon
<1> QED
  BY <1>2, <1>3, Zenon

(* What write_msg writes are bytes, and a frame if its length is short.   *)
LEMMA WriteFrameOK ==
  ASSUME NEW p \in Seq(Byte)
  PROVE  /\ Magic \o WriteLength(Len(p)) \o p \in Seq(Byte)
         /\ Len(p) < Place[2] => Magic \o WriteLength(Len(p)) \o p = DeviceFrame(p)
<1> DEFINE w == WriteLength(Len(p))
<1>1. Len(p) \in Nat
  BY LenProperties
<1>2. Magic \in Seq(Byte)
  BY MagicOK
<1>3. w \in Seq(Byte)
  <2>1. \A i \in 0 .. 3 : Digit(Len(p), i) \in Byte
    BY <1>1, Digits, Zenon DEF Byte
  <2> QED
    BY <2>1 DEF WriteLength
<1> HIDE DEF w
<1>4. Magic \o w \in Seq(Byte)
  BY ONLY <1>2, <1>3, Joined
<1>5. Magic \o w \o p \in Seq(Byte)
  BY <1>4, Joined, Zenon
<1>6. Len(p) < Place[2] => Magic \o w \o p = DeviceFrame(p)
  BY <1>1, ShortLengthIsTold, Zenon DEF w, DeviceFrame
<1> QED
  BY <1>5, <1>6 DEF w

-----------------------------------------------------------------------------
(* Bytes that move from one buffer to the next. *)
LEMMA BytesMoved ==
  ASSUME NEW s \in Seq(Byte), NEW t \in Seq(Byte), NEW u \in Seq(Byte)
  PROVE  s \o (t \o u) = (s \o t) \o u
BY ConcatAssociative

(* Bytes that are on their way, as the frames of messages: frame i of a    *)
(* connection ends after byte c[i] of it, and of the first k frames        *)
(* nothing is left.                                                        *)
Size(p) == FSTREAM_HEADER_SIZE + Len(p)

Cuts(c, msgs) ==
  /\ c \in [0 .. Len(msgs) -> Nat]
  /\ \A i \in 1 .. Len(msgs) : c[i] = c[i - 1] + Size(msgs[i])
  /\ \A i, j \in 0 .. Len(msgs) : i <= j => c[i] <= c[j]

Carries(bytes, msgs, k, c) ==
  /\ k \in 0 .. Len(msgs)
  /\ Len(bytes) <= c[Len(msgs)] - c[k]
  /\ \A i \in k + 1 .. Len(msgs) : \A j \in 1 .. Size(msgs[i]) :
       c[i - 1] - c[k] + j <= Len(bytes) =>
         bytes[c[i - 1] - c[k] + j] = DeviceFrame(msgs[i])[j]

LEMMA Sizes ==
  ASSUME NEW P, \A p \in P : p \in Seq(Byte), NEW msgs \in Seq(P)
  PROVE  /\ Len(msgs) \in Nat
         /\ \A i \in 1 .. Len(msgs) : msgs[i] \in P /\ Len(msgs[i]) \in Nat
         /\ \A i \in 1 .. Len(msgs) : Size(msgs[i]) \in Nat /\ Size(msgs[i]) >= FSTREAM_HEADER_SIZE
<1>1. Len(msgs) \in Nat /\ \A i \in 1 .. Len(msgs) : msgs[i] \in P
  BY LenProperties, ElementOfSeq
<1>2. \A i \in 1 .. Len(msgs) : Len(msgs[i]) \in Nat
  BY <1>1, LenProperties
<1> QED
  BY <1>1, <1>2 DEF Size, FSTREAM_HEADER_SIZE

(* A frame is added behind what is complete. *)
LEMMA FrameAdded ==
  ASSUME NEW P, \A p \in P : p \in Seq(Byte), NEW msgs \in Seq(P), NEW p \in P,
         NEW b \in Seq(Byte), NEW k \in Nat, NEW c, Cuts(c, msgs), Carries(b, msgs, k, c),
         Len(b) = c[Len(msgs)] - c[k]
  PROVE  \E d : /\ Cuts(d, Append(msgs, p))
                /\ Carries(b \o DeviceFrame(p), Append(msgs, p), k, d)
                /\ Len(b \o DeviceFrame(p)) = d[Len(Append(msgs, p))] - d[k]
<1> DEFINE n == Len(msgs)
           m == Append(msgs, p)
           f == DeviceFrame(p)
           e == b \o f
           d == [i \in 0 .. n + 1 |-> IF i <= n THEN c[i] ELSE c[n] + Size(p)]
<1>1. n \in Nat /\ k \in 0 .. n
  BY Sizes DEF Carries
<1>2. Len(m) = n + 1 /\ m[n + 1] = p /\ \A i \in 1 .. n : m[i] = msgs[i]
  BY AppendProperties
<1>3. Size(p) \in Nat /\ \A i \in 1 .. n : Size(msgs[i]) \in Nat
  <2>1. p \in Seq(Byte)
    OBVIOUS
  <2>2. Len(p) \in Nat
    BY <2>1, LenProperties
  <2> QED
    BY <2>2, Sizes DEF Size, FSTREAM_HEADER_SIZE
<1>4. f \in Seq(Byte) /\ Len(f) = Size(p)
  BY FrameOK DEF Size
<1>5. /\ e \in Seq(Byte) /\ Len(e) = Len(b) + Size(p) /\ Len(b) \in Nat
      /\ \A i \in 1 .. Len(b) : e[i] = b[i]
      /\ \A i \in 1 .. Size(p) : e[Len(b) + i] = f[i]
  <2>0. b \in Seq(Byte) /\ f \in Seq(Byte)
    BY <1>4
  <2> HIDE DEF f
  <2>1. /\ e \in Seq(Byte) /\ Len(e) = Len(b) + Len(f) /\ Len(b) \in Nat
        /\ \A i \in 1 .. Len(b) : e[i] = b[i]
        /\ \A i \in 1 .. Len(f) : e[Len(b) + i] = f[i]
    BY ONLY <2>0, Joined
  <2> QED
    BY <1>4, <2>1, Zenon
<1>6. /\ \A i \in 0 .. n : c[i] \in Nat
      /\ \A i \in 1 .. n : c[i] = c[i - 1] + Size(msgs[i])
      /\ \A i, j \in 0 .. n : i <= j => c[i] <= c[j]
  BY DEF Cuts
<1>7. /\ \A i \in 0 .. n : d[i] = c[i]
      /\ d[n + 1] = c[n] + Size(p)
      /\ d \in [0 .. n + 1 -> Nat]
  <2>1. n + 1 \in 0 .. n + 1 /\ ~(n + 1 <= n) /\ n \in 0 .. n
    BY <1>1
  <2>2. \A i \in 0 .. n : i \in 0 .. n + 1 /\ i <= n
    BY <1>1
  <2> HIDE DEF n
  <2>3. c[n] + Size(p) \in Nat
    BY ONLY <1>3, <1>6, <2>1
  <2>4. \A i \in 0 .. n + 1 : i <= n => c[i] \in Nat
    BY <1>1, <1>6
  <2> QED
    BY <2>1, <2>2, <2>3, <2>4
<1>8. Len(b) = c[n] - c[k]
  OBVIOUS
<1>9. \A i \in k + 1 .. n : \A j \in 1 .. Size(msgs[i]) :
        c[i - 1] - c[k] + j <= Len(b) => b[c[i - 1] - c[k] + j] = DeviceFrame(msgs[i])[j]
  BY DEF Carries
<1> HIDE DEF n, m, f, e, d
<1>10. Cuts(d, m)
  <2>1. \A i \in 1 .. n + 1 : d[i] = d[i - 1] + Size(m[i])
    <3> TAKE i \in 1 .. n + 1
    <3>1. CASE i <= n
      BY <3>1, <1>1, <1>2, <1>6, <1>7
    <3>2. CASE i = n + 1
      <4>1. i - 1 = n /\ n \in 0 .. n
        BY <3>2, <1>1
      <4> QED
        BY <4>1, <3>2, <1>2, <1>7, Zenon
    <3> QED
      BY <3>1, <3>2, <1>1
  <2>2. \A i, j \in 0 .. n + 1 : i <= j => d[i] <= d[j]
    <3> TAKE i, j \in 0 .. n + 1
    <3>1. CASE j <= n
      BY <3>1, <1>1, <1>6, <1>7
    <3>2. CASE j = n + 1 /\ i <= n
      <4>1. c[i] <= c[n] /\ c[n] \in Nat /\ c[i] \in Nat
        BY <3>2, <1>1, <1>6
      <4> QED
        BY <4>1, <3>2, <1>1, <1>3, <1>7
    <3>3. CASE j = n + 1 /\ i = n + 1
      BY <3>3, <1>1, <1>3, <1>6, <1>7
    <3> QED
      BY <3>1, <3>2, <3>3, <1>1
  <2> QED
    BY <2>1, <2>2, <1>2, <1>7 DEF Cuts
<1>11. Len(e) = d[Len(m)] - d[k]
  BY <1>1, <1>2, <1>3, <1>5, <1>6, <1>7, <1>8
<1>12. ASSUME NEW i \in k + 1 .. n + 1, NEW j \in 1 .. Size(m[i]), d[i - 1] - d[k] + j <= Len(e)
       PROVE  e[d[i - 1] - d[k] + j] = DeviceFrame(m[i])[j]
  <2>1. CASE i <= n
    <3>1. /\ i \in 1 .. n /\ i - 1 \in 0 .. n /\ i \in 0 .. n /\ n \in 0 .. n /\ i \in k + 1 .. n
          /\ k <= i - 1
      BY <2>1, <1>1
    <3>2. /\ c[i] = c[i - 1] + Size(msgs[i]) /\ c[i] <= c[n] /\ c[k] <= c[i - 1]
          /\ c[i] \in Nat /\ c[i - 1] \in Nat /\ c[n] \in Nat /\ c[k] \in Nat
      BY <3>1, <1>1, <1>6
    <3>3. j \in 1 .. Size(msgs[i]) /\ d[i - 1] = c[i - 1] /\ d[k] = c[k] /\ m[i] = msgs[i]
      BY <3>1, <1>1, <1>2, <1>7
    <3>4. c[i - 1] - c[k] + j \in 1 .. Len(b)
      <4>1. Size(msgs[i]) \in Nat /\ j \in Nat /\ 1 <= j /\ j <= Size(msgs[i])
        BY <3>1, <3>3, <1>3
      <4>2. \A u, v, w, x, y, z \in Nat :
              v = u + y /\ v <= w /\ x <= u /\ 1 <= z /\ z <= y => u - x + z \in 1 .. w - x
        OBVIOUS
      <4>3. c[i - 1] - c[k] + j \in 1 .. c[n] - c[k]
        BY ONLY <3>2, <4>1, <4>2, Zenon
      <4> QED
        BY ONLY <4>3, <1>8, Zenon
    <3>5. e[c[i - 1] - c[k] + j] = b[c[i - 1] - c[k] + j]
      BY <3>4, <1>5
    <3>6. b[c[i - 1] - c[k] + j] = DeviceFrame(msgs[i])[j]
      <4>1. c[i - 1] - c[k] + j <= Len(b)
        BY ONLY <3>4, <1>5
      <4> QED
        BY <3>1, <3>3, <4>1, <1>9, Zenon
    <3> QED
      BY <3>3, <3>5, <3>6
  <2>2. CASE i = n + 1
    <3>1. i - 1 = n /\ d[i - 1] = c[n] /\ d[k] = c[k] /\ m[i] = p
      <4>1. i - 1 = n /\ n \in 0 .. n
        BY <2>2, <1>1
      <4> QED
        BY <4>1, <2>2, <1>1, <1>2, <1>7, Zenon
    <3>2. d[i - 1] - d[k] + j = Len(b) + j /\ j \in 1 .. Size(p)
      BY <3>1, <1>8
    <3> QED
      BY <3>1, <3>2, <1>5 DEF f
  <2>3. i <= n \/ i = n + 1
    BY <1>1
  <2> QED
    BY <2>1, <2>2, <2>3, Zenon
<1>13. Carries(e, m, k, d)
  <2>1. k \in 0 .. Len(m) /\ Len(e) <= d[Len(m)] - d[k]
    BY <1>1, <1>2, <1>5, <1>11
  <2> QED
    BY <2>1, <1>2, <1>12 DEF Carries
<1> QED
  BY <1>10, <1>11, <1>13 DEF m, e, f

(* The end of what is on its way is cut off. *)
LEMMA EndCutOff ==
  ASSUME NEW P, \A p \in P : p \in Seq(Byte), NEW msgs \in Seq(P),
         NEW b \in Seq(Byte), NEW k \in Nat, NEW c, Cuts(c, msgs), Carries(b, msgs, k, c),
         NEW a \in Seq(Byte), Len(a) <= Len(b), \A i \in 1 .. Len(a) : a[i] = b[i]
  PROVE  Carries(a, msgs, k, c)
<1> DEFINE n == Len(msgs)
<1>1. Len(a) \in Nat /\ Len(b) \in Nat /\ n \in Nat /\ k \in 0 .. n /\ Len(b) <= c[n] - c[k]
  BY LenProperties, Sizes DEF Carries
<1>2. \A i \in 0 .. n : c[i] \in Nat
  BY DEF Cuts
<1>3. \A i, j \in 0 .. n : i <= j => c[i] <= c[j]
  BY DEF Cuts
<1>4. ASSUME NEW i \in k + 1 .. n, NEW j \in 1 .. Size(msgs[i]), c[i - 1] - c[k] + j <= Len(a)
      PROVE  a[c[i - 1] - c[k] + j] = DeviceFrame(msgs[i])[j]
  <2> DEFINE x == c[i - 1] - c[k] + j
  <2>1. c[i - 1] \in Nat /\ c[k] \in Nat /\ c[k] <= c[i - 1]
    BY <1>1, <1>2, <1>3
  <2>2. j \in Nat /\ j >= 1
    <3>1. i \in 1 .. Len(msgs)
      BY <1>1
    <3>2. Size(msgs[i]) \in Nat
      BY <3>1, Sizes, Zenon
    <3> QED
      BY <3>2
  <2>3. x \in 1 .. Len(a) /\ x <= Len(b)
    BY <1>1, <1>4, <2>1, <2>2
  <2>4. b[x] = DeviceFrame(msgs[i])[j]
    BY <2>3 DEF Carries
  <2> HIDE DEF x
  <2>5. a[x] = b[x]
    BY <2>3
  <2> QED
    BY <2>4, <2>5 DEF x
<1>5. Len(a) <= c[n] - c[k]
  BY <1>1, <1>2
<1> QED
  BY <1>1, <1>4, <1>5, Zenon DEF Carries

(* What arrives first is the next frame, all of it if nothing is cut off.  *)
LEMMA FrameFirst ==
  ASSUME NEW P, \A p \in P : p \in Seq(Byte), NEW msgs \in Seq(P),
         NEW b \in Seq(Byte), NEW k \in Nat, NEW c, Cuts(c, msgs), Carries(b, msgs, k, c),
         Len(b) > 0
  PROVE  /\ k < Len(msgs) /\ msgs[k + 1] \in P /\ Size(msgs[k + 1]) \in Nat
         /\ \A j \in 1 .. Size(msgs[k + 1]) : j <= Len(b) => b[j] = DeviceFrame(msgs[k + 1])[j]
         /\ Len(b) = c[Len(msgs)] - c[k] => Size(msgs[k + 1]) <= Len(b)
<1> DEFINE n == Len(msgs)
<1>1. Len(b) \in Nat /\ n \in Nat /\ k \in 0 .. n /\ Len(b) <= c[n] - c[k]
  BY LenProperties, Sizes DEF Carries
<1>2. \A i \in 0 .. n : c[i] \in Nat
  BY DEF Cuts
<1>3. /\ \A i, j \in 0 .. n : i <= j => c[i] <= c[j]
      /\ \A i \in 1 .. n : c[i] = c[i - 1] + Size(msgs[i])
  BY DEF Cuts
<1>4. k # n
  <2>1. SUFFICES ASSUME k = n PROVE FALSE
    OBVIOUS
  <2>2. c[n] - c[n] = 0
    BY <1>1, <1>2
  <2> QED
    BY ONLY <1>1, <2>1, <2>2, Len(b) > 0
<1>5. k < n /\ k + 1 \in 1 .. n /\ k + 1 \in 0 .. n /\ n \in 0 .. n /\ k + 1 <= n /\ (k + 1) - 1 = k
  BY <1>1, <1>4
<1>6. msgs[k + 1] \in P /\ Size(msgs[k + 1]) \in Nat
  BY <1>5, Sizes, Zenon
<1>7. ASSUME NEW j \in 1 .. Size(msgs[k + 1]), j <= Len(b)
      PROVE  b[j] = DeviceFrame(msgs[k + 1])[j]
  <2>1. c[(k + 1) - 1] - c[k] + j = j
    BY <1>1, <1>2, <1>5, <1>6
  <2>2. k + 1 \in k + 1 .. n
    BY <1>1, <1>5
  <2> QED
    BY <1>7, <2>1, <2>2, Zenon DEF Carries
<1>8. ASSUME Len(b) = c[n] - c[k] PROVE Size(msgs[k + 1]) <= Len(b)
  <2>1. c[k + 1] = c[k] + Size(msgs[k + 1]) /\ c[k + 1] <= c[n]
    BY <1>3, <1>5, Zenon
  <2>2. c[k] \in Nat /\ c[n] \in Nat /\ c[k + 1] \in Nat
    BY <1>1, <1>2, <1>5
  <2> HIDE DEF n
  <2> QED
    BY ONLY <1>6, <1>8, <2>1, <2>2
<1> QED
  BY <1>5, <1>6, <1>7, <1>8

(* What is left of b after its first s bytes. *)
Rest(a, b, s) == Len(a) = Len(b) - s /\ \A i \in 1 .. Len(a) : a[i] = b[s + i]

(* It is taken. *)
LEMMA FrameTaken ==
  ASSUME NEW P, \A p \in P : p \in Seq(Byte), NEW msgs \in Seq(P),
         NEW b \in Seq(Byte), NEW k \in Nat, NEW c, Cuts(c, msgs), Carries(b, msgs, k, c),
         k < Len(msgs), NEW a \in Seq(Byte), Rest(a, b, Size(msgs[k + 1]))
  PROVE  /\ Carries(a, msgs, k + 1, c)
         /\ Len(b) = c[Len(msgs)] - c[k] => Len(a) = c[Len(msgs)] - c[k + 1]
<1> DEFINE n == Len(msgs)
           s == Size(msgs[k + 1])
<1>0. /\ Len(a) = Len(b) - s /\ \A i \in 1 .. Len(a) : a[i] = b[s + i]
      /\ s \in Nat
  <2>1. k + 1 \in 1 .. n
    BY LenProperties
  <2> QED
    BY <2>1, Sizes, Zenon DEF Rest
<1> HIDE DEF s
<1>1. Len(b) \in Nat /\ Len(a) \in Nat /\ n \in Nat /\ k \in 0 .. n /\ Len(b) <= c[n] - c[k]
  BY LenProperties, Sizes DEF Carries
<1>2. k + 1 \in 1 .. n /\ k + 1 \in 0 .. n /\ n \in 0 .. n /\ (k + 1) - 1 = k
  BY <1>1
<1>3. \A i \in 0 .. n : c[i] \in Nat
  BY DEF Cuts
<1>4. \A i, j \in 0 .. n : i <= j => c[i] <= c[j]
  BY DEF Cuts
<1>5. c[k + 1] = c[k] + s
  BY <1>2, Zenon DEF Cuts, s
<1>6. c[k] \in Nat /\ c[n] \in Nat /\ c[k + 1] \in Nat
  BY <1>1, <1>2, <1>3
<1>7. ASSUME NEW i \in k + 2 .. n, NEW j \in 1 .. Size(msgs[i]), c[i - 1] - c[k + 1] + j <= Len(a)
      PROVE  a[c[i - 1] - c[k + 1] + j] = DeviceFrame(msgs[i])[j]
  <2> DEFINE x == c[i - 1] - c[k + 1] + j
  <2>0. \A y, z \in Nat : \A h \in y + 2 .. z :
          h \in 1 .. z /\ h \in y + 1 .. z /\ h - 1 \in 0 .. z /\ y + 1 <= h - 1
    OBVIOUS
  <2>1. i \in 1 .. n /\ i \in k + 1 .. n /\ i - 1 \in 0 .. n /\ k + 1 <= i - 1
    BY <1>1, <2>0, Zenon
  <2>2. c[i - 1] \in Nat /\ c[k + 1] <= c[i - 1]
    BY <1>2, <1>3, <1>4, <2>1
  <2>3. Size(msgs[i]) \in Nat
    BY <2>1, Sizes, Zenon
  <2>4. j \in Nat /\ j >= 1
    BY <2>3
  <2>5. x \in 1 .. Len(a)
    BY ONLY <1>1, <1>6, <1>7, <2>2, <2>4
  <2>6. s + x = c[i - 1] - c[k] + j /\ s + x <= Len(b)
    <3>1. s + (c[i - 1] - (c[k] + s) + j) = c[i - 1] - c[k] + j
      BY ONLY <1>6, <2>2, <2>4, <1>0
    <3>2. x = c[i - 1] - (c[k] + s) + j
      BY <1>5, Zenon
    <3>3. x \in Int /\ x <= Len(a)
      BY <1>7, <2>5
    <3> HIDE DEF x
    <3>4. s + x <= Len(b)
      BY ONLY <1>1, <3>3, <1>0
    <3> QED
      BY <3>1, <3>2, <3>4, Zenon
  <2> HIDE DEF x
  <2>7. b[s + x] = DeviceFrame(msgs[i])[j]
    BY <2>1, <2>6 DEF Carries
  <2>8. a[x] = b[s + x]
    BY <1>0, <2>5
  <2> QED
    BY <2>7, <2>8 DEF x
<1>8. Len(a) <= c[n] - c[k + 1]
  BY ONLY <1>1, <1>5, <1>6, <1>0
<1>9. Len(b) = c[n] - c[k] => Len(a) = c[n] - c[k + 1]
  BY ONLY <1>1, <1>5, <1>6, <1>0
<1>10. (k + 1) + 1 = k + 2
  OBVIOUS
<1> QED
  BY <1>2, <1>7, <1>8, <1>9, <1>10, Zenon DEF Carries

(* Headers that are the same tell the same length. *)
LEMMA HeadersDiffer ==
  ASSUME NEW m \in Nat, NEW n \in Nat, m < Place[4], n < Place[4], HeaderOf(m) = HeaderOf(n)
  PROVE  m = n
BY HeaderOK, DeviceLengthIsRead, Zenon
=============================================================================
