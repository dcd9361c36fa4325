-------------------------- MODULE FrameFormatProofs --------------------------
(***************************************************************************)
(* The writer and the reader of a frame agree: proofs about FrameFormat    *)
(* for every payload bound and every function in the place of CRC32.       *)
(***************************************************************************)
EXTENDS FrameFormat, SequenceTheorems, TLAPS

-----------------------------------------------------------------------------
(* Numbers and their bytes *)

\* Two bytes cannot make a number larger than a length field holds.
LEMMA U16Range ==
  ASSUME NEW lo \in Byte, NEW hi \in Byte
  PROVE  U16(lo, hi) \in Nat /\ U16(lo, hi) <= 255 + 256 * 255
<1>1. lo \in 0..255 /\ hi \in 0..255
  BY DEF Byte
<1>2. lo \in Int /\ hi \in Int /\ 0 <= lo /\ lo <= 255 /\ 0 <= hi /\ hi <= 255
  BY <1>1
<1>3. /\ lo + 256 * hi \in Int /\ 0 <= lo + 256 * hi
      /\ lo + 256 * hi <= 255 + 256 * 255
  BY <1>2
<1>4. QED  BY <1>3 DEF U16

\* Two bytes read as a number are written as they were (protocol.cpp:11-15,
\* frame_parser.cpp:66-67).
LEMMA TwoBytes ==
  ASSUME NEW b0 \in Byte, NEW b1 \in Byte
  PROVE  LE(U16(b0, b1), 2) = << b0, b1 >>
<1> DEFINE v == U16(b0, b1)
<1>1. b0 \in 0..255 /\ b1 \in 0..255 /\ v = b0 + 256 * b1
  BY DEF Byte, U16
<1>2. (v \div 1) % 256 = b0 /\ (v \div 256) % 256 = b1
  <2>1. v \div 1 = v
    BY <1>1
  <2>2. v % 256 = b0
    BY <1>1
  <2>3. v \div 256 = b1
    BY <1>1
  <2>4. b1 % 256 = b1
    BY <1>1
  <2> HIDE DEF v
  <2>5. (v \div 1) % 256 = b0
    BY <2>1, <2>2
  <2>6. QED  BY <2>3, <2>4, <2>5
<1>3. Weight[1] = 1 /\ Weight[2] = 256
  BY DEF Weight
<1> HIDE DEF v
<1>4. /\ LE(v, 2) = [i \in 1..2 |-> (v \div Weight[i]) % 256]
      /\ LE(v, 2)[1] = b0 /\ LE(v, 2)[2] = b1
  BY <1>2, <1>3 DEF LE
<1>5. LE(v, 2) = << b0, b1 >>
  BY <1>4
<1>6. QED  BY <1>5 DEF v

\* The same of four bytes (protocol.cpp:17-22, frame_parser.cpp:61-64).
LEMMA FourBytes ==
  ASSUME NEW b0 \in Byte, NEW b1 \in Byte, NEW b2 \in Byte, NEW b3 \in Byte
  PROVE  LE(U32(b0, b1, b2, b3), 4) = << b0, b1, b2, b3 >>
<1> DEFINE v == U32(b0, b1, b2, b3)
<1>1. /\ b0 \in 0..255 /\ b1 \in 0..255 /\ b2 \in 0..255 /\ b3 \in 0..255
      /\ v = b0 + 256 * b1 + 65536 * (b2 + 256 * b3)
  BY DEF Byte, U16, U32
<1>2. v \in Nat
  BY <1>1
<1>3. (v \div 1) % 256 = b0
  BY <1>1
<1>4. (v \div 256) % 256 = b1
  <2>1. v \div 256 = b1 + 256 * (b2 + 256 * b3)
    BY <1>1
  <2>2. QED  BY <1>1, <2>1
<1>5. v \div 65536 = b2 + 256 * b3
  BY <1>1
<1>6. (v \div 65536) % 256 = b2
  BY <1>1, <1>5
<1>7. (v \div 16777216) % 256 = b3
  <2>1. v \div 16777216 = b3
    BY <1>1
  <2>2. QED  BY <1>1, <2>1
<1>8. Weight[1] = 1 /\ Weight[2] = 256 /\ Weight[3] = 65536 /\ Weight[4] = 16777216
  BY DEF Weight
<1> HIDE DEF v
<1>9. /\ LE(v, 4) = [i \in 1..4 |-> (v \div Weight[i]) % 256]
      /\ LE(v, 4)[1] = b0 /\ LE(v, 4)[2] = b1 /\ LE(v, 4)[3] = b2 /\ LE(v, 4)[4] = b3
  BY <1>3, <1>4, <1>6, <1>7, <1>8 DEF LE
<1>10. LE(v, 4) = << b0, b1, b2, b3 >>
  BY <1>9
<1>11. QED  BY <1>10 DEF v

-----------------------------------------------------------------------------
(* A frame that was accepted *)

\* Bytes in a row are a byte string.
LEMMA BytesInARow ==
  ASSUME NEW b0 \in Byte, NEW b1 \in Byte, NEW b2 \in Byte, NEW b3 \in Byte
  PROVE  /\ << b0, b1 >> \in Seq(Byte) /\ Len(<< b0, b1 >>) = 2
         /\ << b0, b1, b2, b3 >> \in Seq(Byte) /\ Len(<< b0, b1, b2, b3 >>) = 4
  OBVIOUS

\* Two byte strings, one behind the other.
LEMMA JoinProperties ==
  ASSUME NEW s \in Seq(Byte), NEW t \in Seq(Byte)
  PROVE  /\ s \o t \in Seq(Byte)
         /\ Len(s \o t) = Len(s) + Len(t)
         /\ \A i \in 1..Len(s) : (s \o t)[i] = s[i]
         /\ \A i \in 1..Len(t) : (s \o t)[Len(s) + i] = t[i]
<1> DEFINE w == s \o t
<1>1. /\ w \in Seq(Byte)
      /\ Len(w) = Len(s) + Len(t)
      /\ \A i \in 1 .. Len(s) + Len(t) : w[i] = IF i <= Len(s) THEN s[i] ELSE t[i - Len(s)]
  BY ConcatProperties
<1> HIDE DEF w
<1>2. Len(s) \in Nat /\ Len(t) \in Nat
  OBVIOUS
<1>3. ASSUME NEW i \in 1..Len(s)  PROVE w[i] = s[i]
  BY <1>1, <1>2
<1>4. ASSUME NEW i \in 1..Len(t)  PROVE w[Len(s) + i] = t[i]
  <2>1. /\ Len(s) + i \in 1 .. Len(s) + Len(t) /\ ~(Len(s) + i <= Len(s))
        /\ (Len(s) + i) - Len(s) = i
    BY <1>2
  <2>2. w[Len(s) + i] = t[(Len(s) + i) - Len(s)]
    BY <1>1, <2>1
  <2>3. QED  BY <2>1, <2>2
<1>5. QED  BY <1>1, <1>3, <1>4, Zenon DEF w

\* A header is its three parts, one behind the other.
LEMMA HeaderOfParts ==
  ASSUME NEW front \in Seq(Byte), NEW number \in Seq(Byte), NEW length \in Seq(Byte),
         Len(front) = 4, Len(number) = 4, Len(length) = 2
  PROVE  LET header == front \o number \o length
         IN  /\ header \in Seq(Byte) /\ Len(header) = 10
             /\ \A i \in 1..4 : header[i] = front[i] /\ header[4 + i] = number[i]
             /\ header[9] = length[1] /\ header[10] = length[2]
<1> DEFINE first == front \o number
           header == first \o length
<1> HIDE DEF first, header
<1>1. /\ first \in Seq(Byte) /\ Len(first) = Len(front) + Len(number)
      /\ \A i \in 1..Len(front) : first[i] = front[i]
      /\ \A i \in 1..Len(number) : first[Len(front) + i] = number[i]
  BY JoinProperties DEF first
<1>2. /\ Len(first) = 8
      /\ \A i \in 1..4 : first[i] = front[i] /\ first[4 + i] = number[i]
  BY <1>1
<1>3. /\ header \in Seq(Byte) /\ Len(header) = Len(first) + Len(length)
      /\ \A i \in 1..Len(first) : header[i] = first[i]
      /\ \A i \in 1..Len(length) : header[Len(first) + i] = length[i]
  BY <1>1, JoinProperties DEF header
<1>4. /\ Len(header) = 10
      /\ \A i \in 1..8 : header[i] = first[i]
      /\ \A i \in 1..2 : header[8 + i] = length[i]
  BY <1>2, <1>3
<1>5. \A i \in 1..4 : header[i] = front[i] /\ header[4 + i] = number[i]
  BY <1>2, <1>4
<1>6. header[9] = length[1] /\ header[10] = length[2]
  <2>1. header[8 + 1] = length[1] /\ header[8 + 2] = length[2]
    BY <1>4
  <2>2. QED  BY <2>1
<1>7. header = front \o number \o length
  BY DEF header, first
<1>8. QED  BY <1>3, <1>4, <1>5, <1>6, <1>7, Zenon

\* Encoding what a receiver took from a frame gives the frame back, byte for byte
\* (protocol.cpp:42-59 against frame_parser.cpp:60-98).
LEMMA AcceptedFrameReencodes ==
  ASSUME NEW b \in Seq(Byte), StartsFrame(b)
  PROVE  LET f == ParsedFrame(b)
         IN  EncodeFrame(f.type, f.sequence, f.payload) = SubSeq(b, 1, FrameSize(b))
<1> DEFINE n == PayloadLen(b)
           payload == SubSeq(b, kHeaderSize + 1, kHeaderSize + n)
           front == << kMagic0, kMagic1, kProtocolVersion, b[4] >>
           number == LE(Sequence(b), 4)
           length == LE(Len(payload) % 65536, 2)
           header == front \o number \o length
           body == header \o payload
<1> HIDE DEF n, payload, front, number, length, header, body
<1>1. /\ Len(b) \in Nat /\ Len(b) >= 14
      /\ b[1] = kMagic0 /\ b[2] = kMagic1 /\ b[3] = kProtocolVersion
      /\ Len(b) >= FrameSize(b) /\ CrcOK(b)
  BY DEF StartsFrame, HeaderOK, Version, kMinFrameSize, kHeaderSize, kCrcSize
<1>2. \A i \in 1..10 : b[i] \in Byte
  BY <1>1
<1>3. n \in Nat /\ n <= 255 + 256 * 255 /\ n = U16(b[9], b[10])
  <2>1. b[9] \in Byte /\ b[10] \in Byte
    BY <1>2
  <2>2. n = U16(b[9], b[10])
    BY DEF n, PayloadLen
  <2>3. n \in Nat /\ n <= 255 + 256 * 255
    BY <2>1, <2>2, U16Range, Zenon
  <2>4. QED  BY <2>2, <2>3, Zenon
<1>4. FrameSize(b) = 14 + n /\ 14 + n <= Len(b)
  BY <1>1, <1>3 DEF n, FrameSize, kHeaderSize, kCrcSize
<1>5. /\ payload = SubSeq(b, 11, 10 + n)
      /\ payload \in Seq(Byte) /\ Len(payload) = n
  <2>1. payload = SubSeq(b, 11, 10 + n)
    BY DEF payload, kHeaderSize
  <2>2. \A i \in 11..(10 + n) : b[i] \in Byte
    BY <1>3, <1>4
  <2>3. /\ SubSeq(b, 11, 10 + n) \in Seq(Byte)
        /\ Len(SubSeq(b, 11, 10 + n)) = IF 11 <= 10 + n THEN (10 + n) - 11 + 1 ELSE 0
    BY <1>3, <2>2, SubSeqProperties
  <2>4. QED  BY <1>3, <2>1, <2>3
<1>6. Len(payload) % 65536 = U16(b[9], b[10])
  <2>1. n % 65536 = n
    BY <1>3
  <2>2. QED  BY <1>3, <1>5, <2>1
<1>7. /\ number \in Seq(Byte) /\ Len(number) = 4
      /\ \A i \in 1..4 : number[i] = b[4 + i]
  <2>1. b[5] \in Byte /\ b[6] \in Byte /\ b[7] \in Byte /\ b[8] \in Byte
    BY <1>2
  <2>2. number = << b[5], b[6], b[7], b[8] >>
    BY <2>1, FourBytes DEF number, Sequence
  <2>3. number \in Seq(Byte) /\ Len(number) = 4
    BY <2>1, <2>2, BytesInARow, Zenon
  <2>4. QED  BY <2>2, <2>3
<1>8. /\ length \in Seq(Byte) /\ Len(length) = 2
      /\ length[1] = b[9] /\ length[2] = b[10]
  <2>1. b[9] \in Byte /\ b[10] \in Byte
    BY <1>2
  <2>2. length = << b[9], b[10] >>
    BY <1>6, <2>1, TwoBytes DEF length
  <2>3. length \in Seq(Byte) /\ Len(length) = 2
    BY <2>1, <2>2, BytesInARow, Zenon
  <2>4. QED  BY <2>2, <2>3
<1>9. /\ front \in Seq(Byte) /\ Len(front) = 4
      /\ \A i \in 1..4 : front[i] = b[i]
  <2>1. front = << b[1], b[2], b[3], b[4] >>
    BY <1>1 DEF front
  <2>2. b[1] \in Byte /\ b[2] \in Byte /\ b[3] \in Byte /\ b[4] \in Byte
    BY <1>2
  <2>3. front \in Seq(Byte) /\ Len(front) = 4
    BY <2>1, <2>2, BytesInARow, Zenon
  <2>4. QED  BY <2>1, <2>3
<1>10. /\ header \in Seq(Byte) /\ Len(header) = 10
       /\ \A i \in 1..4 : header[i] = front[i] /\ header[4 + i] = number[i]
       /\ header[9] = length[1] /\ header[10] = length[2]
  <2>1. /\ front \in Seq(Byte) /\ number \in Seq(Byte) /\ length \in Seq(Byte)
        /\ Len(front) = 4 /\ Len(number) = 4 /\ Len(length) = 2
    BY <1>7, <1>8, <1>9, Zenon
  <2>2. QED  BY ONLY <2>1, HeaderOfParts, ZenonT(60) DEF header
<1>11. header = SubSeq(b, 1, 10)
  <2>1. \A i \in 1..10 : header[i] = b[i]
    <3>1. \A i \in 1..4 : header[i] = b[i] /\ header[4 + i] = b[4 + i]
      BY <1>7, <1>9, <1>10
    <3>2. header[9] = b[9] /\ header[10] = b[10]
      BY <1>8, <1>10
    <3>3. header[5] = b[5] /\ header[6] = b[6] /\ header[7] = b[7] /\ header[8] = b[8]
      BY <3>1
    <3>4. QED  BY <3>1, <3>2, <3>3
  <2>2. /\ SubSeq(b, 1, 10) \in Seq(Byte) /\ Len(SubSeq(b, 1, 10)) = 10
        /\ \A i \in 1..10 : SubSeq(b, 1, 10)[i] = b[i]
    BY <1>2, SubSeqProperties
  <2>3. QED  BY <1>10, <2>1, <2>2, SeqEqual
<1>12. body = SubSeq(b, 1, 10 + n)
  <2>1. 1 \in 1..(Len(b) + 1) /\ 10 \in (1 - 1)..Len(b) /\ 10 + n \in 10..Len(b)
    BY <1>1, <1>3, <1>4
  <2>2. SubSeq(b, 1, 10) \o SubSeq(b, 11, 10 + n) = SubSeq(b, 1, 10 + n)
    BY <2>1, ConcatAdjacentSubSeq
  <2>3. QED  BY <1>5, <1>11, <2>2 DEF body
<1>13. Crc32(body) = SubSeq(b, 10 + n + 1, 14 + n)
  <2>1. FrameSize(b) - kCrcSize = 10 + n /\ 10 + n + kCrcSize = 14 + n
    BY <1>3, <1>4 DEF kCrcSize
  <2>2. SubSeq(b, 10 + n + 1, 14 + n) = Crc32(SubSeq(b, 1, 10 + n))
    BY <1>1, <2>1 DEF CrcOK
  <2>3. QED  BY <1>12, <2>2
<1>14. body \o Crc32(body) = SubSeq(b, 1, 14 + n)
  <2>1. /\ 1 \in 1..(Len(b) + 1) /\ 10 + n \in (1 - 1)..Len(b)
        /\ 14 + n \in (10 + n)..Len(b)
    BY <1>1, <1>3, <1>4
  <2>2. SubSeq(b, 1, 10 + n) \o SubSeq(b, 10 + n + 1, 14 + n) = SubSeq(b, 1, 14 + n)
    BY <2>1, ConcatAdjacentSubSeq
  <2>3. QED  BY <1>12, <1>13, <2>2
<1>15. /\ ParsedFrame(b).type = b[4] /\ ParsedFrame(b).sequence = Sequence(b)
       /\ ParsedFrame(b).payload = payload
  BY DEF ParsedFrame, payload, n
<1>16. EncodeFrame(b[4], Sequence(b), payload) = body \o Crc32(body)
  BY DEF EncodeFrame, body, header, front, number, length
<1>17. QED  BY <1>4, <1>14, <1>15, <1>16, Zenon

-----------------------------------------------------------------------------
(* A frame that was encoded *)

\* A length that fits in two bytes is made of two bytes.
LEMMA LengthBytes ==
  ASSUME NEW n \in Nat, n <= 255 + 256 * 255
  PROVE  \E l0, l1 \in Byte : n = U16(l0, l1)
<1>1. n % 256 \in 0..255 /\ n \div 256 \in 0..255 /\ n = (n % 256) + 256 * (n \div 256)
  OBVIOUS
<1>2. U16(n % 256, n \div 256) = n
  BY <1>1 DEF U16
<1>3. n % 256 \in Byte /\ n \div 256 \in Byte
  BY <1>1 DEF Byte
<1> DEFINE low == n % 256
           high == n \div 256
<1>4. low \in Byte /\ high \in Byte /\ U16(low, high) = n
  BY <1>2, <1>3
<1> HIDE DEF low, high
<1>5. QED  BY <1>4, Zenon

\* A number of 32 bits is made of four bytes.
LEMMA NumberBytes ==
  ASSUME NEW n \in Nat, n \div Weight[4] \in Byte
  PROVE  \E q0, q1, q2, q3 \in Byte : n = U32(q0, q1, q2, q3)
<1> DEFINE q0 == n % 256
           q1 == (n \div 256) % 256
           q2 == (n \div 65536) % 256
           q3 == n \div 16777216
           low == n % 65536
           high == n \div 65536
<1>1. n \in Nat
  OBVIOUS
<1>2. low = q0 + 256 * q1
  BY ONLY <1>1, SMT
<1>3. high = q2 + 256 * q3
  BY ONLY <1>1, SMT
<1>4. n = low + 65536 * high
  BY ONLY <1>1, SMT
<1>5. q0 \in 0..255 /\ q1 \in 0..255 /\ q2 \in 0..255
  BY ONLY <1>1, SMT
<1>6. q3 \in Byte
  BY SMT DEF Weight
<1>7. q0 \in Byte /\ q1 \in Byte /\ q2 \in Byte
  BY ONLY <1>5, SMT DEF Byte
<1> HIDE DEF q0, q1, q2, q3, low, high
<1>8. n = q0 + 256 * q1 + 65536 * (q2 + 256 * q3)
  BY ONLY <1>2, <1>3, <1>4, SMT
<1>9. n = U32(q0, q1, q2, q3)
  BY ONLY <1>8, SMT DEF U32, U16
<1>10. QED  BY <1>6, <1>7, <1>9, Zenon

\* A byte string that stands in another is the stretch it stands in.
LEMMA StretchOf ==
  ASSUME NEW w \in Seq(Byte), NEW t \in Seq(Byte), NEW k \in Nat,
         k + Len(t) <= Len(w), \A i \in 1..Len(t) : w[k + i] = t[i]
  PROVE  SubSeq(w, k + 1, k + Len(t)) = t
<1> DEFINE n == Len(t)
           z == SubSeq(w, k + 1, k + n)
<1>1. n \in Nat /\ Len(w) \in Nat
  OBVIOUS
<1>2. \A i \in (k + 1)..(k + n) : w[i] \in Byte
  BY <1>1
<1> HIDE DEF n
<1>3. /\ z \in Seq(Byte)
      /\ Len(z) = IF k + 1 <= k + n THEN (k + n) - (k + 1) + 1 ELSE 0
      /\ \A i \in 1..((k + n) - (k + 1) + 1) : z[i] = w[(k + 1) + i - 1]
  BY <1>1, <1>2, SubSeqProperties
<1>4. /\ (k + n) - (k + 1) + 1 = n
      /\ \A i \in 1..n : (k + 1) + i - 1 = k + i
  BY <1>1
<1> HIDE DEF z
<1>5. Len(z) = Len(t) /\ \A i \in 1..n : z[i] = t[i]
  BY <1>1, <1>3, <1>4 DEF n
<1>6. z = t
  BY <1>3, <1>5, SeqEqual
<1>7. QED  BY <1>6 DEF z, n

\* zlib's crc32 of a byte string, written as a frame carries it.
FourByteCrc == \A s \in Seq(Byte) : Crc32(s) \in Seq(Byte) /\ Len(Crc32(s)) = kCrcSize

\* What encode_frame writes is as long as it announces, and is accepted and read back as it
\* was given, whatever follows it on the wire (protocol.cpp:42-59 against
\* frame_parser.cpp:49-98): a sequence number of four bytes, a payload within kMaxPayload and
\* the length field, a CRC of four bytes.
THEOREM EncodedFrameAccepted ==
  ASSUME FourByteCrc,
         NEW type \in Byte, NEW sequence \in Nat, NEW payload \in Seq(Byte),
         sequence \div Weight[4] \in Byte,
         Len(payload) \div Weight[2] \in Byte, Len(payload) <= MaxPayload,
         NEW rest \in Seq(Byte)
  PROVE  LET b == EncodeFrame(type, sequence, payload) \o rest IN
           /\ EncodeFrame(type, sequence, payload) \in Seq(Byte)
           /\ Len(EncodeFrame(type, sequence, payload)) = FrameSize(b)
           /\ StartsFrame(b)
           /\ ParsedFrame(b) = [type |-> type, sequence |-> sequence, payload |-> payload]
<1> DEFINE n == Len(payload)
           front == << kMagic0, kMagic1, kProtocolVersion, type >>
           number == LE(sequence, 4)
           length == LE(Len(payload) % 65536, 2)
           header == front \o number \o length
           body == header \o payload
           crc == Crc32(body)
           frame == body \o crc
           b == frame \o rest
<1> HIDE DEF n, front, number, length, header, body, crc, frame, b
<1>0. PICK q0, q1, q2, q3 \in Byte : sequence = U32(q0, q1, q2, q3)
  BY NumberBytes
<1>1. n \in Nat /\ n = Len(payload) /\ n <= MaxPayload /\ n <= 255 + 256 * 255
  <2>1. n \in Nat /\ n \div 256 \in 0..255
    BY SMT DEF n, Byte, Weight
  <2>2. n <= 255 + 256 * 255
    BY ONLY <2>1, SMT
  <2>3. QED  BY <2>1, <2>2 DEF n
<1>2. PICK l0, l1 \in Byte : n = U16(l0, l1)
  BY <1>1, LengthBytes
<1>3. number = << q0, q1, q2, q3 >> /\ number \in Seq(Byte) /\ Len(number) = 4
  <2>1. number = << q0, q1, q2, q3 >>
    <3>1. number = LE(U32(q0, q1, q2, q3), 4)
      BY <1>0 DEF number
    <3>2. QED  BY <3>1, FourBytes, ZenonT(60)
  <2>2. number \in Seq(Byte) /\ Len(number) = 4
    BY <2>1, BytesInARow, Zenon
  <2>3. QED  BY <2>1, <2>2, Zenon
<1>4. length = << l0, l1 >> /\ length \in Seq(Byte) /\ Len(length) = 2
  <2>1. length = LE(U16(l0, l1), 2)
    <3>1. n % 65536 = n
      BY <1>1
    <3>2. length = LE(n % 65536, 2)
      BY <1>1 DEF length
    <3>3. QED  BY <1>2, <3>1, <3>2
  <2>2. length = << l0, l1 >>
    BY <2>1, TwoBytes
  <2>3. length \in Seq(Byte) /\ Len(length) = 2
    BY <2>2, BytesInARow, Zenon
  <2>4. QED  BY <2>2, <2>3, Zenon
<1>5. /\ front = << kMagic0, kMagic1, kProtocolVersion, type >>
      /\ front \in Seq(Byte) /\ Len(front) = 4
  <2>1. kMagic0 \in Byte /\ kMagic1 \in Byte /\ kProtocolVersion \in Byte
    BY DEF kMagic0, kMagic1, kProtocolVersion, Byte
  <2>2. QED  BY <2>1, BytesInARow, Zenon DEF front
<1>6. /\ header \in Seq(Byte) /\ Len(header) = 10
      /\ \A i \in 1..4 : header[i] = front[i] /\ header[4 + i] = number[i]
      /\ header[9] = length[1] /\ header[10] = length[2]
  <2>1. /\ front \in Seq(Byte) /\ number \in Seq(Byte) /\ length \in Seq(Byte)
        /\ Len(front) = 4 /\ Len(number) = 4 /\ Len(length) = 2
    BY <1>3, <1>4, <1>5, Zenon
  <2>2. QED  BY ONLY <2>1, HeaderOfParts, ZenonT(60) DEF header
<1>7. /\ header[1] = kMagic0 /\ header[2] = kMagic1
      /\ header[3] = kProtocolVersion /\ header[4] = type
      /\ header[9] = l0 /\ header[10] = l1
  <2>1. /\ front[1] = kMagic0 /\ front[2] = kMagic1
        /\ front[3] = kProtocolVersion /\ front[4] = type
    BY <1>5
  <2>2. length[1] = l0 /\ length[2] = l1
    BY <1>4
  <2>3. /\ header[1] = front[1] /\ header[2] = front[2]
        /\ header[3] = front[3] /\ header[4] = front[4]
    BY <1>6
  <2>4. QED  BY <1>6, <2>1, <2>2, <2>3, Zenon
<1>8. /\ header[5] = q0 /\ header[6] = q1 /\ header[7] = q2 /\ header[8] = q3
  <2>1. number[1] = q0 /\ number[2] = q1 /\ number[3] = q2 /\ number[4] = q3
    BY <1>3
  <2>2. /\ header[4 + 1] = number[1] /\ header[4 + 2] = number[2]
        /\ header[4 + 3] = number[3] /\ header[4 + 4] = number[4]
    BY <1>6
  <2>3. QED  BY <2>1, <2>2
<1>9. /\ body \in Seq(Byte) /\ Len(body) = 10 + n
      /\ \A i \in 1..10 : body[i] = header[i]
      /\ \A i \in 1..n : body[10 + i] = payload[i]
  <2>1. /\ body \in Seq(Byte) /\ Len(body) = Len(header) + Len(payload)
        /\ \A i \in 1..Len(header) : body[i] = header[i]
        /\ \A i \in 1..Len(payload) : body[Len(header) + i] = payload[i]
    <3>1. header \in Seq(Byte) /\ payload \in Seq(Byte)
      BY <1>6, Zenon
    <3>2. QED  BY ONLY <3>1, JoinProperties, SMTT(30) DEF body
  <2>2. QED  BY <1>1, <1>6, <2>1
<1>10. crc \in Seq(Byte) /\ Len(crc) = 4
  BY <1>9 DEF crc, kCrcSize, FourByteCrc
<1>11. /\ frame \in Seq(Byte) /\ Len(frame) = 14 + n
       /\ \A i \in 1..(10 + n) : frame[i] = body[i]
       /\ \A i \in 1..4 : frame[(10 + n) + i] = crc[i]
  <2>1. /\ frame \in Seq(Byte) /\ Len(frame) = Len(body) + Len(crc)
        /\ \A i \in 1..Len(body) : frame[i] = body[i]
        /\ \A i \in 1..Len(crc) : frame[Len(body) + i] = crc[i]
    BY <1>9, <1>10, JoinProperties DEF frame
  <2>2. QED  BY <1>1, <1>9, <1>10, <2>1
<1>12. /\ b \in Seq(Byte) /\ Len(b) >= 14 + n /\ Len(b) \in Nat
       /\ \A i \in 1..(14 + n) : b[i] = frame[i]
  <2>1. /\ b \in Seq(Byte) /\ Len(b) = Len(frame) + Len(rest)
        /\ \A i \in 1..Len(frame) : b[i] = frame[i]
    BY <1>11, JoinProperties DEF b
  <2>2. Len(rest) \in Nat
    OBVIOUS
  <2>3. QED  BY <1>1, <1>11, <2>1, <2>2
<1>13. \A i \in 1..(10 + n) : b[i] = body[i]
  <2> SUFFICES ASSUME NEW i \in 1..(10 + n)  PROVE b[i] = body[i]
    OBVIOUS
  <2>1. i \in 1..(14 + n)
    BY <1>1
  <2>2. QED  BY <1>11, <1>12, <2>1, Zenon
<1>14. \A i \in 1..10 : b[i] = header[i]
  <2> SUFFICES ASSUME NEW i \in 1..10  PROVE b[i] = header[i]
    OBVIOUS
  <2>1. i \in 1..(10 + n)
    BY <1>1
  <2>2. QED  BY <1>9, <1>13, <2>1, Zenon
<1>15. /\ b[1] = kMagic0 /\ b[2] = kMagic1 /\ b[3] = kProtocolVersion /\ b[4] = type
       /\ b[5] = q0 /\ b[6] = q1 /\ b[7] = q2 /\ b[8] = q3 /\ b[9] = l0 /\ b[10] = l1
  <2>1. /\ b[1] = header[1] /\ b[2] = header[2] /\ b[3] = header[3] /\ b[4] = header[4]
        /\ b[5] = header[5] /\ b[6] = header[6] /\ b[7] = header[7] /\ b[8] = header[8]
        /\ b[9] = header[9] /\ b[10] = header[10]
    BY <1>14
  <2>2. QED  BY <1>7, <1>8, <2>1, Zenon
<1>16. PayloadLen(b) = n /\ Sequence(b) = sequence
  <2>1. PayloadLen(b) = n
    BY <1>2, <1>15 DEF PayloadLen
  <2>2. Sequence(b) = sequence
    BY <1>0, <1>15 DEF Sequence
  <2>3. QED  BY <2>1, <2>2
<1>17. FrameSize(b) = 14 + n
  BY <1>1, <1>16 DEF FrameSize, kHeaderSize, kCrcSize
<1>18. SubSeq(b, 1, 10 + n) = body
  <2>1. SubSeq(b, 0 + 1, 0 + Len(body)) = body
    <3>1. 0 \in Nat /\ 0 + Len(body) <= Len(b)
      BY <1>1, <1>9, <1>12
    <3>2. ASSUME NEW i \in 1..Len(body)  PROVE b[0 + i] = body[i]
      <4>1. 0 + i = i /\ i \in 1..(10 + n)
        BY <1>1, <1>9
      <4>2. QED  BY <1>13, <4>1, Zenon
    <3>3. QED  BY ONLY <1>9, <1>12, <3>1, <3>2, StretchOf
  <2>2. 0 + 1 = 1 /\ 0 + Len(body) = 10 + n
    BY <1>1, <1>9
  <2>3. QED  BY <2>1, <2>2, Zenon
<1>19. SubSeq(b, (10 + n) + 1, (10 + n) + 4) = crc
  <2>1. ASSUME NEW i \in 1..4  PROVE b[(10 + n) + i] = crc[i]
    <3>1. (10 + n) + i \in 1..(14 + n)
      BY <1>1
    <3>2. QED  BY <1>11, <1>12, <3>1, Zenon
  <2>2. SubSeq(b, (10 + n) + 1, (10 + n) + Len(crc)) = crc
    <3>1. 10 + n \in Nat /\ (10 + n) + Len(crc) <= Len(b)
      BY <1>1, <1>10, <1>12
    <3>2. \A i \in 1..Len(crc) : b[(10 + n) + i] = crc[i]
      BY <1>10, <2>1
    <3>3. QED  BY ONLY <1>10, <1>12, <3>1, <3>2, StretchOf
  <2>3. QED  BY <1>10, <2>2
<1>20. SubSeq(b, 10 + 1, 10 + n) = payload
  <2>1. ASSUME NEW i \in 1..n  PROVE b[10 + i] = payload[i]
    <3>1. 10 + i \in 1..(10 + n)
      BY <1>1
    <3>2. QED  BY <1>9, <1>13, <3>1, Zenon
  <2>2. 10 \in Nat /\ 10 + Len(payload) <= Len(b)
    BY <1>1, <1>12
  <2>3. SubSeq(b, 10 + 1, 10 + Len(payload)) = payload
    <3>1. \A i \in 1..Len(payload) : b[10 + i] = payload[i]
      BY <1>1, <2>1
    <3>2. QED  BY ONLY <1>12, <2>2, <3>1, payload \in Seq(Byte), StretchOf
  <2>4. QED  BY <1>1, <2>3
<1>21. StartsFrame(b)
  <2>1. CrcOK(b)
    <3>1. FrameSize(b) - kCrcSize = 10 + n
      BY <1>1, <1>17 DEF kCrcSize
    <3>2. SubSeq(b, (10 + n) + 1, (10 + n) + kCrcSize) = Crc32(SubSeq(b, 1, 10 + n))
      BY <1>18, <1>19 DEF kCrcSize, crc
    <3>3. QED  BY <3>1, <3>2, Zenon DEF CrcOK
  <2>2. HeaderOK(b)
    BY <1>1, <1>15, <1>16 DEF HeaderOK, Version
  <2>3. Len(b) >= kMinFrameSize /\ Len(b) >= FrameSize(b)
    BY <1>1, <1>12, <1>17 DEF kMinFrameSize, kHeaderSize, kCrcSize
  <2>4. QED  BY <1>15, <2>1, <2>2, <2>3, Zenon DEF StartsFrame
<1>22. ParsedFrame(b) = [type |-> type, sequence |-> sequence, payload |-> payload]
  <2>1. SubSeq(b, kHeaderSize + 1, kHeaderSize + PayloadLen(b)) = payload
    BY <1>16, <1>20 DEF kHeaderSize
  <2>2. QED  BY <1>15, <1>16, <2>1 DEF ParsedFrame
<1>23. frame = EncodeFrame(type, sequence, payload) /\ b = frame \o rest
  BY DEF EncodeFrame, b, frame, crc, body, header, front, number, length
<1>24. frame \in Seq(Byte) /\ Len(frame) = FrameSize(b)
  BY <1>11, <1>17, Zenon
<1>25. QED  BY <1>21, <1>22, <1>23, <1>24, Zenon
=============================================================================
