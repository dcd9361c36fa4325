-------------------------- MODULE FrameParserProofs --------------------------
(***************************************************************************)
(* Proofs about FrameParser for every payload bound, read size and set of  *)
(* streams, and for every function in the place of CRC32; that frames      *)
(* arrive as they were sent needs that its value has four bytes.           *)
(***************************************************************************)
EXTENDS FrameLink, FrameFormatProofs, Induction, SequenceTheorems, TLAPS

-----------------------------------------------------------------------------
(* Byte strings *)

\* The end of a byte string that DropFirst leaves.
LEMMA DropFirstProperties ==
  ASSUME NEW S, NEW b \in Seq(S), NEW n \in 0..Len(b)
  PROVE  /\ DropFirst(b, n) \in Seq(S)
         /\ Len(DropFirst(b, n)) = Len(b) - n
         /\ \A i \in 1..(Len(b) - n) : DropFirst(b, n)[i] = b[n + i]
<1>1. \A i \in (n + 1)..Len(b) : b[i] \in S
  OBVIOUS
<1>2. QED
  BY <1>1, SubSeqProperties DEF DropFirst

\* The end of a byte string that KeepLast leaves.
LEMMA KeepLastProperties ==
  ASSUME NEW S, NEW b \in Seq(S), NEW n \in Nat
  PROVE  /\ KeepLast(b, n) \in Seq(S)
         /\ Len(KeepLast(b, n)) = IF Len(b) > n THEN n ELSE Len(b)
         /\ \E k \in 0..Len(b) : KeepLast(b, n) = DropFirst(b, k)
<1>1. CASE Len(b) > n
  BY <1>1, DropFirstProperties DEF KeepLast
<1>2. CASE ~(Len(b) > n)
  <2>1. DropFirst(b, 0) = b
    BY SubSeqFull DEF DropFirst
  <2>2. QED
    BY <1>2, <2>1 DEF KeepLast
<1>3. QED
  BY <1>1, <1>2

\* Dropping bytes from the front of a window on s moves the window's start.
LEMMA DropFromWindow ==
  ASSUME NEW S, NEW s \in Seq(S), NEW z \in 0..Len(s), NEW a \in 0..z,
         NEW n \in 0..(z - a)
  PROVE  DropFirst(SubSeq(s, a + 1, z), n) = SubSeq(s, a + n + 1, z)
<1> DEFINE w == SubSeq(s, a + 1, z)
<1>1. /\ w \in Seq(S)
      /\ Len(w) = z - a
      /\ \A i \in 1..(z - a) : w[i] = s[a + i]
  BY SubSeqProperties
<1>2. /\ DropFirst(w, n) \in Seq(S)
      /\ Len(DropFirst(w, n)) = z - a - n
      /\ \A i \in 1..(z - a - n) : DropFirst(w, n)[i] = s[a + n + i]
  <2> HIDE DEF w
  <2>1. n \in 0..Len(w)
    BY <1>1
  <2>2. /\ DropFirst(w, n) \in Seq(S)
        /\ Len(DropFirst(w, n)) = Len(w) - n
        /\ \A i \in 1..(Len(w) - n) : DropFirst(w, n)[i] = w[n + i]
    BY <1>1, <2>1, DropFirstProperties
  <2>3. ASSUME NEW i \in 1..(z - a - n)  PROVE DropFirst(w, n)[i] = s[a + n + i]
    <3>1. DropFirst(w, n)[i] = w[n + i]
      BY <1>1, <2>2
    <3>2. w[n + i] = s[a + (n + i)]
      BY <1>1
    <3>3. QED  BY <3>1, <3>2
  <2>4. QED  BY <1>1, <2>2, <2>3
<1>3. /\ SubSeq(s, a + n + 1, z) \in Seq(S)
      /\ Len(SubSeq(s, a + n + 1, z)) = z - a - n
      /\ \A i \in 1..(z - a - n) : SubSeq(s, a + n + 1, z)[i] = s[a + n + i]
  BY SubSeqProperties
<1>4. QED
  <2> HIDE DEF w
  <2>1. DropFirst(w, n) = SubSeq(s, a + n + 1, z)
    BY <1>2, <1>3, SeqEqual
  <2>2. QED  BY <2>1 DEF w

\* Aligned drops what stands before the first magic, and nothing else.
LEMMA AlignedProperties ==
  ASSUME NEW S, NEW b \in Seq(S), MagicPositions(b) # {}
  PROVE  \E k \in 0..(Len(b) - 2) :
           /\ Aligned(b) = DropFirst(b, k)
           /\ b[k + 1] = kMagic0 /\ b[k + 2] = kMagic1
           /\ \A i \in 1..k : i \notin MagicPositions(b)
<1> DEFINE M == MagicPositions(b)
           first == CHOOSE i \in M : \A j \in M : i <= j
<1>1. M \subseteq Nat
  BY DEF MagicPositions
<1>2. \E i \in M : \A j \in M : i <= j
  BY <1>1, LeastNumber
<1>3. first \in M /\ \A j \in M : first <= j
  BY <1>2
<1>4. Aligned(b) = DropFirst(b, first - 1)
  BY DEF Aligned
<1>5. first \in 1..(Len(b) - 1) /\ b[first] = kMagic0 /\ b[first + 1] = kMagic1
  BY <1>3 DEF MagicPositions
<1> HIDE DEF first
<1>6. first - 1 \in 0..(Len(b) - 2) /\ (first - 1) + 1 = first /\ (first - 1) + 2 = first + 1
  BY <1>5
<1>7. ASSUME NEW i \in 1..(first - 1)  PROVE i \notin M
  BY <1>3, <1>5
<1>8. QED  BY <1>4, <1>5, <1>6, <1>7

\* Appending the next bytes of a string to a window on it moves the window's end.
LEMMA ExtendWindow ==
  ASSUME NEW S, NEW s \in Seq(S), NEW a \in Nat, NEW z \in a..Len(s),
         NEW n \in 0..(Len(s) - z)
  PROVE  SubSeq(s, a + 1, z) \o SubSeq(s, z + 1, z + n) = SubSeq(s, a + 1, z + n)
<1>1. /\ a + 1 \in 1..(Len(s) + 1)
      /\ z \in ((a + 1) - 1)..Len(s)
      /\ z + n \in z..Len(s)
  OBVIOUS
<1>2. QED  BY <1>1, ConcatAdjacentSubSeq

-----------------------------------------------------------------------------
(* Types *)

\* Two bytes make a natural number.
LEMMA U16Type ==
  ASSUME NEW lo \in Byte, NEW hi \in Byte
  PROVE  U16(lo, hi) \in Nat
<1>1. lo \in Nat /\ hi \in Nat
  BY DEF Byte
<1>2. QED  BY <1>1 DEF U16

\* What the header of a byte string announces.
LEMMA HeaderTypes ==
  ASSUME NEW b \in Seq(Byte), Len(b) >= kMinFrameSize
  PROVE  /\ PayloadLen(b) \in Nat
         /\ FrameSize(b) \in Nat
         /\ FrameSize(b) >= kMinFrameSize
         /\ HeaderOK(b) => FrameSize(b) <= MaxFrameSize
<1>1. b[9] \in Byte /\ b[10] \in Byte
  BY DEF kMinFrameSize, kHeaderSize, kCrcSize
<1>2. PayloadLen(b) \in Nat
  BY <1>1, U16Type DEF PayloadLen
<1>3. QED
  BY <1>2, MaxPayloadAssumption
  DEF FrameSize, HeaderOK, MaxFrameSize, kMinFrameSize, kHeaderSize, kCrcSize

\* What a frame in the buffer is returned as.
LEMMA ParsedFrameType ==
  ASSUME NEW b \in Seq(Byte), Len(b) >= kMinFrameSize, Len(b) >= FrameSize(b)
  PROVE  ParsedFrame(b) \in [type : Byte, sequence : Nat, payload : Seq(Byte)]
<1>1. b[4] \in Byte /\ b[5] \in Byte /\ b[6] \in Byte /\ b[7] \in Byte /\ b[8] \in Byte
  BY DEF kMinFrameSize, kHeaderSize, kCrcSize
<1>2. Sequence(b) \in Nat
  <2>1. U16(b[5], b[6]) \in Nat /\ U16(b[7], b[8]) \in Nat
    BY <1>1, U16Type
  <2>2. QED  BY <2>1 DEF Sequence, U32
<1>3. SubSeq(b, kHeaderSize + 1, kHeaderSize + PayloadLen(b)) \in Seq(Byte)
  <2>1. PayloadLen(b) \in Nat /\ kHeaderSize + PayloadLen(b) <= Len(b)
    BY HeaderTypes DEF FrameSize, kHeaderSize, kCrcSize
  <2>2. \A i \in (kHeaderSize + 1)..(kHeaderSize + PayloadLen(b)) : b[i] \in Byte
    BY <2>1 DEF kHeaderSize
  <2>3. QED  BY <2>1, <2>2, SubSeqProperties DEF kHeaderSize
<1>4. QED  BY <1>1, <1>2, <1>3 DEF ParsedFrame

-----------------------------------------------------------------------------
(* The inductive invariant *)

IInv == TypeOK /\ BufferIsWindow /\ HeldBytesBounded

\* Numbers and strings the steps below use.
LEMMA Facts ==
  ASSUME IInv
  PROVE  /\ stream \in Seq(Byte) /\ Len(stream) \in Nat
         /\ buffer \in Seq(Byte) /\ Len(buffer) \in Nat
         /\ fed \in Nat /\ Cursor \in Nat
         /\ Cursor = fed - Len(buffer) /\ Cursor <= fed /\ fed <= Len(stream)
         /\ kMaxBufferedBytes = MaxFrameSize + CapSlack
         /\ MaxFrameSize \in Nat /\ MaxFrameSize >= kMinFrameSize
         /\ kMinFrameSize = 14
<1>1. stream \in Seq(Byte)
  BY ParserAssumption DEF IInv, TypeOK
<1>2. QED
  BY <1>1, MaxPayloadAssumption, ParserAssumption
  DEF IInv, TypeOK, BufferIsWindow, Cursor, kMaxBufferedBytes, MaxFrameSize,
      kMinFrameSize, kHeaderSize, kCrcSize

\* The buffer as a window, after its first n bytes are dropped.
LEMMA WindowAfterDrop ==
  ASSUME IInv, NEW n \in 0..Len(buffer)
  PROVE  /\ DropFirst(buffer, n) \in Seq(Byte)
         /\ Len(DropFirst(buffer, n)) = Len(buffer) - n
         /\ DropFirst(buffer, n) = SubSeq(stream, Cursor + n + 1, fed)
<1>1. DropFirst(buffer, n) \in Seq(Byte) /\ Len(DropFirst(buffer, n)) = Len(buffer) - n
  BY Facts, DropFirstProperties
<1>2. buffer = SubSeq(stream, Cursor + 1, fed)
  BY DEF IInv, BufferIsWindow
<1>3. fed \in 0..Len(stream) /\ Cursor \in 0..fed /\ n \in 0..(fed - Cursor)
  BY Facts
<1>4. DropFirst(SubSeq(stream, Cursor + 1, fed), n) = SubSeq(stream, Cursor + n + 1, fed)
  BY <1>3, Facts, DropFromWindow
<1>5. QED  BY <1>1, <1>2, <1>4

\* The aligned buffer is a window that starts with a magic; no magic starts before it.
LEMMA AlignedWindow ==
  ASSUME IInv, MagicPositions(buffer) # {}
  PROVE  \E k \in 0..(Len(buffer) - 2) :
           /\ Aligned(buffer) = DropFirst(buffer, k)
           /\ Aligned(buffer) \in Seq(Byte)
           /\ Len(Aligned(buffer)) = Len(buffer) - k
           /\ Aligned(buffer) = SubSeq(stream, Cursor + k + 1, fed)
           /\ Aligned(buffer)[1] = kMagic0 /\ Aligned(buffer)[2] = kMagic1
           /\ \A i \in 1..k : i \notin MagicPositions(buffer)
<1>1. buffer \in Seq(Byte)
  BY Facts
<1>2. PICK k \in 0..(Len(buffer) - 2) :
        /\ Aligned(buffer) = DropFirst(buffer, k)
        /\ buffer[k + 1] = kMagic0 /\ buffer[k + 2] = kMagic1
        /\ \A i \in 1..k : i \notin MagicPositions(buffer)
  BY <1>1, AlignedProperties
<1>3. k \in 0..Len(buffer) /\ 1 \in 1..(Len(buffer) - k) /\ 2 \in 1..(Len(buffer) - k)
  BY Facts
<1>4. DropFirst(buffer, k)[1] = buffer[k + 1] /\ DropFirst(buffer, k)[2] = buffer[k + 2]
  BY <1>1, <1>3, DropFirstProperties
<1>5. QED  BY <1>2, <1>3, <1>4, WindowAfterDrop

\* A second drop continues the first.
LEMMA DropAligned ==
  ASSUME IInv, NEW k \in 0..Len(buffer), NEW n \in 0..(Len(buffer) - k)
  PROVE  DropFirst(DropFirst(buffer, k), n) = DropFirst(buffer, k + n)
<1>1. /\ fed \in 0..Len(stream) /\ Cursor + k \in 0..fed /\ n \in 0..(fed - (Cursor + k))
      /\ k + n \in 0..Len(buffer) /\ Cursor + (k + n) + 1 = (Cursor + k) + n + 1
  BY Facts
<1>2. DropFirst(SubSeq(stream, (Cursor + k) + 1, fed), n) = SubSeq(stream, (Cursor + k) + n + 1, fed)
  BY <1>1, Facts, DropFromWindow
<1>3. DropFirst(buffer, k) = SubSeq(stream, Cursor + k + 1, fed)
  BY WindowAfterDrop
<1>4. DropFirst(buffer, k + n) = SubSeq(stream, Cursor + (k + n) + 1, fed)
  BY <1>1, WindowAfterDrop
<1>5. QED  BY <1>1, <1>2, <1>3, <1>4

\* A parser that has read nothing satisfies the invariant (frame_parser.cpp:17-21).
LEMMA IInvInit == Init => IInv
<1> SUFFICES ASSUME Init  PROVE IInv
  OBVIOUS
<1>1. stream \in Seq(Byte) /\ Len(stream) \in Nat
  BY ParserAssumption DEF Init
<1>2. buffer \in Seq(Byte) /\ Len(buffer) = 0 /\ Cursor = 0
  <2>1. buffer = << >> /\ fed = 0
    BY DEF Init
  <2>2. buffer \in Seq(Byte) /\ Len(buffer) = 0
    BY <2>1, EmptySeq, Zenon
  <2>3. fed = 0 /\ Len(buffer) = 0
    BY <2>1, <2>2, Zenon
  <2>4. Cursor = 0
    BY <2>3 DEF Cursor
  <2>5. QED  BY <2>2, <2>4, Zenon
<1>3. TypeOK
  <2>1. delivered = << >>
    BY DEF Init
  <2>2. delivered \in Seq(Delivery)
    BY <2>1, EmptySeq, Zenon
  <2>3. stream \in Streams /\ fed = 0 /\ scanning = FALSE /\ bad_frames = 0
    BY DEF Init
  <2>4. fed \in 0..Len(stream)
    BY <1>1, <2>3
  <2>5. 0 <= kMaxBufferedBytes
    BY MaxPayloadAssumption, ParserAssumption DEF kMaxBufferedBytes, kHeaderSize, kCrcSize
  <2>6. scanning \in BOOLEAN /\ bad_frames \in Nat
    BY <2>3
  <2>7. QED  BY <1>2, <2>2, <2>3, <2>4, <2>5, <2>6, Zenon DEF TypeOK
<1>4. BufferIsWindow
  <2>1. SubSeq(stream, 0 + 1, 0) = << >>
    BY SubSeqEmpty
  <2>2. QED  BY <1>2, <2>1 DEF Init, BufferIsWindow
<1>5. HeldBytesBounded
  BY <1>2, MaxPayloadAssumption
  DEF HeldBytesBounded, MaxFrameSize, kMinFrameSize, kHeaderSize, kCrcSize
<1>6. QED  BY <1>3, <1>4, <1>5 DEF IInv

\* A call of feed() starts with the buffer short enough for any chunk to fit.
LEMMA FeedKeepsAll ==
  ASSUME IInv, NEW n \in 1..ReadSize, Feed(n)
  PROVE  /\ buffer' = SubSeq(stream, Cursor + 1, fed + n)
         /\ buffer' \in Seq(Byte)
         /\ Len(buffer') = Len(buffer) + n
         /\ Len(buffer') <= kMaxBufferedBytes
         /\ Cursor' = Cursor
<1> DEFINE chunk == SubSeq(stream, fed + 1, fed + n)
<1>1. n \in Nat /\ n <= CapSlack /\ fed + n <= Len(stream)
  BY ParserAssumption DEF Feed
<1>2. chunk \in Seq(Byte) /\ Len(chunk) = n
  <2>1. \A i \in (fed + 1)..(fed + n) : stream[i] \in Byte
    BY <1>1, Facts
  <2>2. QED  BY <1>1, <2>1, Facts, SubSeqProperties
<1>3. Len(buffer) < MaxFrameSize
  BY DEF IInv, HeldBytesBounded, Feed
<1> HIDE DEF chunk
<1>4. buffer \o chunk \in Seq(Byte) /\ Len(buffer \o chunk) = Len(buffer) + n
  BY <1>2, Facts
<1>5. Len(buffer \o chunk) <= kMaxBufferedBytes
  BY <1>1, <1>3, <1>4, Facts, ParserAssumption
<1>6. KeepLast(buffer \o chunk, kMaxBufferedBytes) = buffer \o chunk
  BY <1>1, <1>4, <1>5, Facts, ParserAssumption DEF KeepLast
<1>7. buffer' = buffer \o chunk
  BY <1>6 DEF Feed, chunk
<1>8. buffer \o chunk = SubSeq(stream, Cursor + 1, fed + n)
  <2>1. Cursor \in Nat /\ fed \in Cursor..Len(stream) /\ n \in 0..(Len(stream) - fed)
    BY <1>1, Facts
  <2>2. SubSeq(stream, Cursor + 1, fed) \o chunk = SubSeq(stream, Cursor + 1, fed + n)
    BY <2>1, Facts, ExtendWindow DEF chunk
  <2>3. QED  BY <2>2 DEF IInv, BufferIsWindow
<1>9. Cursor' = Cursor
  <2>1. fed' = fed + n /\ Len(buffer') = Len(buffer) + n
    BY <1>4, <1>7 DEF Feed
  <2>2. fed \in Nat /\ Len(buffer) \in Nat
    BY Facts
  <2>3. QED  BY <1>1, <2>1, <2>2 DEF Cursor
<1>10. QED  BY <1>4, <1>5, <1>7, <1>8, <1>9

\* A step of the loop drops some bytes from the front of the buffer and reads none.
LEMMA ScanDrops ==
  ASSUME IInv, Scan
  PROVE  /\ UNCHANGED << stream, fed >>
         /\ \E d \in 0..Len(buffer) : buffer' = DropFirst(buffer, d)
<1>0. buffer = DropFirst(buffer, 0)
  BY Facts, SubSeqFull DEF DropFirst
<1>1. CASE TooShort
  BY <1>0, <1>1, Facts DEF TooShort
<1>2. CASE NoMagic
  <2>1. Len(buffer) > 1 /\ Len(buffer) - 1 \in 0..Len(buffer)
    BY <1>2, Facts DEF NoMagic
  <2>2. KeepLast(buffer, 1) = DropFirst(buffer, Len(buffer) - 1)
    BY <2>1 DEF KeepLast
  <2>3. QED  BY <1>2, <2>1, <2>2 DEF NoMagic
<1>3. CASE AwaitBytes
  <2>1. PICK k \in 0..(Len(buffer) - 2) : Aligned(buffer) = DropFirst(buffer, k)
    BY <1>3, AlignedWindow DEF AwaitBytes, FindsMagic
  <2>2. k \in 0..Len(buffer)
    BY Facts
  <2>3. QED  BY <1>3, <2>1, <2>2 DEF AwaitBytes, FindsMagic
<1>4. CASE RejectFrame
  <2>1. PICK k \in 0..(Len(buffer) - 2) : Aligned(buffer) = DropFirst(buffer, k)
    BY <1>4, AlignedWindow DEF RejectFrame, FindsMagic
  <2>2. k \in 0..Len(buffer) /\ 1 \in 0..(Len(buffer) - k) /\ k + 1 \in 0..Len(buffer)
    BY Facts
  <2>3. buffer' = DropFirst(DropFirst(buffer, k), 1)
    BY <1>4, <2>1 DEF RejectFrame, PopFront
  <2>4. buffer' = DropFirst(buffer, k + 1)
    BY <2>2, <2>3, DropAligned
  <2>5. QED  BY <1>4, <2>2, <2>4 DEF RejectFrame, PopFront, FindsMagic
<1>5. CASE AcceptFrame
  <2> DEFINE b == Aligned(buffer)
  <2>1. PICK k \in 0..(Len(buffer) - 2) :
          b = DropFirst(buffer, k) /\ b \in Seq(Byte) /\ Len(b) = Len(buffer) - k
    BY <1>5, AlignedWindow DEF AcceptFrame, FindsMagic
  <2>2. StartsFrame(b) /\ buffer' = DropFirst(b, FrameSize(b))
    BY <1>5 DEF AcceptFrame
  <2>3. FrameSize(b) \in Nat /\ FrameSize(b) <= Len(b)
    BY <2>1, <2>2, HeaderTypes DEF StartsFrame
  <2>4. /\ k \in 0..Len(buffer) /\ FrameSize(b) \in 0..(Len(buffer) - k)
        /\ k + FrameSize(b) \in 0..Len(buffer)
    BY <2>1, <2>3, Facts
  <2>5. buffer' = DropFirst(buffer, k + FrameSize(b))
    BY <2>1, <2>2, <2>4, DropAligned
  <2>6. QED  BY <1>5, <2>4, <2>5 DEF AcceptFrame, FindsMagic
<1>6. QED  BY <1>1, <1>2, <1>3, <1>4, <1>5 DEF Scan

\* Every step of feed() and every reset preserves the invariant (frame_parser.cpp:17-104).
LEMMA IInvStep == IInv /\ [Next]_vars => IInv'
<1> SUFFICES ASSUME IInv, [Next]_vars  PROVE IInv'
  OBVIOUS
<1>1. CASE Reset
  <2>1. stream' \in Seq(Byte) /\ Len(stream') \in Nat
    BY <1>1, ParserAssumption DEF Reset
  <2>2. buffer' \in Seq(Byte) /\ Len(buffer') = 0 /\ fed' = 0 /\ Cursor' = 0
    <3>1. buffer' = << >> /\ fed' = 0
      BY <1>1 DEF Reset
    <3>2. buffer' \in Seq(Byte) /\ Len(buffer') = 0
      BY <3>1, EmptySeq, Zenon
    <3>3. fed' = 0 /\ Len(buffer') = 0
      BY <3>1, <3>2, Zenon
    <3>4. Cursor' = 0
      BY <3>3 DEF Cursor
    <3>5. QED  BY <3>1, <3>2, <3>4, Zenon
  <2>3. TypeOK'
    <3>1. delivered' \in Seq(Delivery)
      BY <1>1, EmptySeq DEF Reset
    <3>2. scanning' \in BOOLEAN
      BY <1>1 DEF Reset, IInv, TypeOK
    <3>3. fed' \in 0..Len(stream') /\ 0 <= kMaxBufferedBytes
      BY <2>1, <2>2, Facts, ParserAssumption
    <3>4. stream' \in Streams /\ bad_frames' = 0
      BY <1>1 DEF Reset
    <3>5. bad_frames' \in Nat
      BY <3>4
    <3>6. QED  BY <2>2, <3>1, <3>2, <3>3, <3>4, <3>5, Zenon DEF TypeOK
  <2>4. BufferIsWindow'
    <3>1. SubSeq(stream', 0 + 1, 0) = << >>
      BY SubSeqEmpty
    <3>2. QED  BY <1>1, <2>2, <3>1 DEF Reset, BufferIsWindow
  <2>5. HeldBytesBounded'
    BY <2>2, Facts DEF HeldBytesBounded
  <2>6. QED  BY <2>3, <2>4, <2>5 DEF IInv
<1>2. ASSUME NEW n \in 1..ReadSize, Feed(n)  PROVE IInv'
  <2>1. /\ buffer' = SubSeq(stream, Cursor + 1, fed + n)
        /\ buffer' \in Seq(Byte)
        /\ Len(buffer') <= kMaxBufferedBytes
        /\ Cursor' = Cursor
    BY <1>2, FeedKeepsAll
  <2>2. n \in Nat /\ fed' = fed + n /\ fed + n <= Len(stream) /\ stream' = stream
    BY <1>2, ParserAssumption DEF Feed
  <2>3. TypeOK'
    BY <1>2, <2>1, <2>2, Facts DEF Feed, IInv, TypeOK
  <2>4. BufferIsWindow'
    BY <2>1, <2>2, Facts DEF BufferIsWindow
  <2>5. HeldBytesBounded'
    BY <1>2 DEF Feed, HeldBytesBounded
  <2>6. QED  BY <2>3, <2>4, <2>5 DEF IInv
<1>3. CASE Scan
  <2>1. stream' = stream /\ fed' = fed
    BY <1>3, ScanDrops
  <2>2. PICK d \in 0..Len(buffer) : buffer' = DropFirst(buffer, d)
    BY <1>3, ScanDrops
  <2>3. /\ buffer' \in Seq(Byte)
        /\ Len(buffer') = Len(buffer) - d
        /\ buffer' = SubSeq(stream, Cursor + d + 1, fed)
    BY <2>2, WindowAfterDrop
  <2>4. Cursor' = Cursor + d /\ Cursor' \in 0..fed'
    <3>1. Cursor' = fed' - Len(buffer')
      BY DEF Cursor
    <3>2. d \in Nat /\ d <= Len(buffer)
      BY Facts
    <3>3. Cursor' = fed - (Len(buffer) - d)
      BY <2>1, <2>3, <3>1, Zenon
    <3>4. Cursor' = Cursor + d
      BY <3>2, <3>3, Facts
    <3>5. QED  BY <2>1, <3>2, <3>4, Facts
  <2>5. delivered' \in Seq(Delivery) /\ scanning' \in BOOLEAN /\ bad_frames' \in Nat
    <3>0. delivered \in Seq(Delivery) /\ scanning \in BOOLEAN /\ bad_frames \in Nat
      BY DEF IInv, TypeOK
    <3>1. CASE AcceptFrame
      <4> DEFINE b == Aligned(buffer)
                 d2 == [at |-> fed - Len(b), frame |-> ParsedFrame(b)]
      <4>1. PICK k \in 0..(Len(buffer) - 2) :
              b \in Seq(Byte) /\ Len(b) = Len(buffer) - k
        BY <3>1, AlignedWindow DEF AcceptFrame, FindsMagic
      <4>2. StartsFrame(b)
        BY <3>1 DEF AcceptFrame
      <4>3. ParsedFrame(b) \in [type : Byte, sequence : Nat, payload : Seq(Byte)]
        BY <4>1, <4>2, ParsedFrameType DEF StartsFrame
      <4>4. fed - Len(b) \in Nat
        BY <4>1, Facts
      <4>5. d2 \in Delivery
        BY <4>3, <4>4 DEF Delivery
      <4>6. delivered' = Append(delivered, d2)
        BY <3>1 DEF AcceptFrame
      <4>7. delivered' \in Seq(Delivery)
        BY <3>0, <4>5, <4>6, AppendProperties
      <4>8. QED  BY <3>0, <3>1, <4>7 DEF AcceptFrame
    <3>2. CASE ~AcceptFrame
      <4>1. delivered' = delivered
        BY <1>3, <3>2 DEF Scan, TooShort, NoMagic, AwaitBytes, RejectFrame, PopFront
      <4>2. scanning' = scanning \/ scanning' = FALSE
        BY <1>3, <3>2 DEF Scan, TooShort, NoMagic, AwaitBytes, RejectFrame, PopFront
      <4>3. bad_frames' = bad_frames \/ bad_frames' = bad_frames + 1
        BY <1>3, <3>2 DEF Scan, TooShort, NoMagic, AwaitBytes, RejectFrame, PopFront
      <4>4. delivered' \in Seq(Delivery)
        BY <3>0, <4>1, Zenon
      <4>5. scanning' \in BOOLEAN
        BY <3>0, <4>2
      <4>6. bad_frames' \in Nat
        BY <3>0, <4>3
      <4>7. QED  BY <4>4, <4>5, <4>6
    <3>3. QED  BY <3>1, <3>2
  <2>6. TypeOK'
    <3>1. d \in Nat /\ Len(buffer') <= Len(buffer)
      BY <2>3, Facts
    <3>2. stream \in Streams /\ fed \in 0..Len(stream) /\ Len(buffer) <= kMaxBufferedBytes
      BY DEF IInv, TypeOK
    <3>3. Len(buffer') <= kMaxBufferedBytes
      BY <2>3, <3>1, <3>2, Facts, ParserAssumption
    <3>4. QED  BY <2>1, <2>3, <2>5, <3>2, <3>3 DEF TypeOK
  <2>7. BufferIsWindow'
    BY <2>1, <2>3, <2>4 DEF BufferIsWindow
  <2>8. HeldBytesBounded'
    <3>1. CASE TooShort
      BY <3>1, Facts DEF TooShort, HeldBytesBounded
    <3>2. CASE NoMagic
      <4>1. Len(KeepLast(buffer, 1)) <= 1
        BY Facts, KeepLastProperties
      <4>2. QED  BY <3>2, <4>1, Facts DEF NoMagic, HeldBytesBounded
    <3>3. CASE AwaitBytes
      <4> DEFINE b == Aligned(buffer)
      <4>1. PICK k \in 0..(Len(buffer) - 2) :
              b \in Seq(Byte) /\ Len(b) = Len(buffer) - k
        BY <3>3, AlignedWindow DEF AwaitBytes, FindsMagic
      <4>2. /\ buffer' = b
            /\ \/ Len(b) < kMinFrameSize
               \/ Len(b) >= kMinFrameSize /\ HeaderOK(b) /\ Len(b) < FrameSize(b)
        BY <3>3 DEF AwaitBytes
      <4> HIDE DEF b
      <4>3. Len(b) < MaxFrameSize
        <5>1. CASE Len(b) < kMinFrameSize
          BY <4>1, <5>1, Facts
        <5>2. CASE Len(b) >= kMinFrameSize /\ HeaderOK(b) /\ Len(b) < FrameSize(b)
          <6>1. FrameSize(b) \in Nat /\ FrameSize(b) <= MaxFrameSize
            BY <4>1, <5>2, HeaderTypes
          <6>2. QED  BY <4>1, <5>2, <6>1, Facts
        <5>3. QED  BY <4>2, <5>1, <5>2
      <4>4. QED  BY <4>2, <4>3, MaxPayloadAssumption DEF HeldBytesBounded, MaxFrameSize
    <3>4. CASE RejectFrame \/ AcceptFrame
      BY <3>4 DEF RejectFrame, AcceptFrame, FindsMagic, HeldBytesBounded
    <3>5. QED  BY <1>3, <3>1, <3>2, <3>3, <3>4 DEF Scan
  <2>9. QED  BY <2>6, <2>7, <2>8 DEF IInv
<1>4. CASE UNCHANGED vars
  BY <1>4 DEF vars, IInv, TypeOK, BufferIsWindow, HeldBytesBounded, Cursor
<1>5. QED  BY <1>1, <1>2, <1>3, <1>4 DEF Next

-----------------------------------------------------------------------------
(* What follows for every behaviour *)

\* Every reachable state satisfies the invariant.
THEOREM Invariance == Spec => []IInv
<1>1. QED  BY IInvInit, IInvStep, PTL DEF Spec

\* The types of FrameParser, the cap of the buffer among them (frame_parser.cpp:9-13).
THEOREM TypeCorrect == Spec => []TypeOK
<1>1. IInv => TypeOK
  BY DEF IInv
<1>2. QED  BY <1>1, Invariance, PTL

\* The buffer is the stretch of the session behind the last byte read
\* (frame_parser.cpp:23-104).
THEOREM WindowCorrect == Spec => []BufferIsWindow
<1>1. IInv => BufferIsWindow
  BY DEF IInv
<1>2. QED  BY <1>1, Invariance, PTL

\* Between calls the parser holds less than one maximal frame (frame_parser.cpp:69-78).
THEOREM HeldBytesCorrect == Spec => []HeldBytesBounded
<1>1. IInv => HeldBytesBounded
  BY DEF IInv
<1>2. QED  BY <1>1, Invariance, PTL

\* The cap never costs a byte as long as a read is no longer than the slack
\* (frame_parser.cpp:26-28, radio_bridge_node.cpp:422).
THEOREM CapNeverReached == Spec => CapNeverDrops
<1>1. IInv /\ [Next]_vars => [fed' > fed => fed' - Len(buffer') = Cursor]_vars
  <2> SUFFICES ASSUME IInv, Next, fed' > fed  PROVE fed' - Len(buffer') = Cursor
    OBVIOUS
  <2>1. CASE Reset
    BY <2>1, Facts DEF Reset
  <2>2. ASSUME NEW n \in 1..ReadSize, Feed(n)  PROVE fed' - Len(buffer') = Cursor
    BY <2>2, FeedKeepsAll DEF Cursor
  <2>3. CASE Scan
    BY <2>3, ScanDrops, Facts
  <2>4. QED  BY <2>1, <2>2, <2>3 DEF Next
<1>2. QED  BY <1>1, Invariance, PTL DEF Spec, CapNeverDrops

\* An iteration that does not end the call shortens the buffer: a rejected frame costs a byte
\* of it, an accepted one at least an empty frame's (frame_parser.cpp:33-104).
THEOREM LoopShortens == Spec => LoopAdvances
<1>1. IInv /\ [Next]_vars => [scanning /\ scanning' => Len(buffer') < Len(buffer)]_vars
  <2> SUFFICES ASSUME IInv, Next, scanning, scanning'  PROVE Len(buffer') < Len(buffer)
    OBVIOUS
  <2>1. RejectFrame \/ AcceptFrame
    BY DEF Next, Reset, Feed, Scan, TooShort, NoMagic, AwaitBytes
  <2> DEFINE b == Aligned(buffer)
  <2>2. FindsMagic
    BY <2>1 DEF RejectFrame, AcceptFrame
  <2>3. PICK k \in 0..(Len(buffer) - 2) : b \in Seq(Byte) /\ Len(b) = Len(buffer) - k
    BY <2>2, AlignedWindow DEF FindsMagic
  <2>4. \E n \in 1..Len(b) : buffer' = DropFirst(b, n)
    <3>1. CASE RejectFrame
      <4>1. buffer' = DropFirst(b, 1)
        BY <3>1 DEF RejectFrame, PopFront
      <4>2. 1 \in 1..Len(b)
        BY <2>3, Facts
      <4>3. QED  BY <4>1, <4>2
    <3>2. CASE AcceptFrame
      <4>1. StartsFrame(b) /\ buffer' = DropFirst(b, FrameSize(b))
        BY <3>2 DEF AcceptFrame
      <4>2. FrameSize(b) \in 1..Len(b)
        BY <2>3, <4>1, HeaderTypes DEF StartsFrame, FrameSize, kHeaderSize, kCrcSize
      <4>3. QED  BY <4>1, <4>2
    <3>3. QED  BY <2>1, <3>1, <3>2
  <2>5. PICK n \in 1..Len(b) : buffer' = DropFirst(b, n)
    BY <2>4
  <2> HIDE DEF b
  <2>6. n \in 0..Len(b)
    BY <2>3
  <2>7. Len(buffer') = Len(b) - n
    BY <2>3, <2>5, <2>6, DropFirstProperties
  <2>8. QED  BY <2>3, <2>7, Facts
<1>2. QED  BY <1>1, Invariance, PTL DEF Spec, LoopAdvances

-----------------------------------------------------------------------------
(* The parser implements FrameScan *)

\* A stretch of a string that a prefix of it covers.
LEMMA StretchOfPrefix ==
  ASSUME NEW S, NEW s \in Seq(S), NEW n \in 0..Len(s), NEW i \in Nat \ {0}, NEW j \in 0..n
  PROVE  SubSeq(SubSeq(s, 1, n), i, j) = SubSeq(s, i, j)
<1> DEFINE w == SubSeq(s, 1, n)
<1>1. w \in Seq(S) /\ Len(w) = n /\ \A m \in 1..n : w[m] = s[m]
  BY SubSeqProperties
<1>2. /\ SubSeq(s, i, j) \in Seq(S)
      /\ Len(SubSeq(s, i, j)) = IF i <= j THEN j - i + 1 ELSE 0
      /\ \A m \in 1..(j - i + 1) : SubSeq(s, i, j)[m] = s[i + m - 1]
  <2>1. \A m \in i..j : s[m] \in S
    OBVIOUS
  <2>2. QED  BY <2>1, SubSeqProperties
<1> HIDE DEF w
<1>3. /\ SubSeq(w, i, j) \in Seq(S)
      /\ Len(SubSeq(w, i, j)) = IF i <= j THEN j - i + 1 ELSE 0
      /\ \A m \in 1..(j - i + 1) : SubSeq(w, i, j)[m] = w[i + m - 1]
  <2>1. \A m \in i..j : w[m] \in S
    BY <1>1
  <2>2. QED  BY <2>1, SubSeqProperties
<1>4. ASSUME NEW m \in 1..Len(SubSeq(s, i, j))  PROVE SubSeq(w, i, j)[m] = SubSeq(s, i, j)[m]
  <2>1. m \in 1..(j - i + 1) /\ i + m - 1 \in 1..n
    BY <1>2
  <2>2. QED  BY <1>1, <1>2, <1>3, <2>1
<1>5. SubSeq(w, i, j) = SubSeq(s, i, j)
  BY <1>2, <1>3, <1>4, SeqEqual
<1>6. QED  BY <1>5 DEF w

\* What the checks of the receiver say of a string they say of what it is a prefix of.
LEMMA FrameOfPrefix ==
  ASSUME NEW s \in Seq(Byte), NEW n \in kMinFrameSize..Len(s),
         NEW b \in Seq(Byte), b = SubSeq(s, 1, n)
  PROVE  /\ b[1] = s[1] /\ b[2] = s[2]
         /\ HeaderOK(b) <=> HeaderOK(s)
         /\ FrameSize(b) = FrameSize(s)
         /\ FrameSize(b) <= n => /\ CrcOK(b) <=> CrcOK(s)
                                 /\ ParsedFrame(b) = ParsedFrame(s)
<1>0. n \in Nat /\ n >= 14 /\ n <= Len(s) /\ n \in 0..Len(s)
  BY DEF kMinFrameSize, kHeaderSize, kCrcSize
<1>1. Len(b) = n /\ \A i \in 1..n : b[i] = s[i]
  BY <1>0, SubSeqProperties
<1>2. /\ b[1] = s[1] /\ b[2] = s[2] /\ b[3] = s[3] /\ b[4] = s[4] /\ b[5] = s[5]
      /\ b[6] = s[6] /\ b[7] = s[7] /\ b[8] = s[8] /\ b[9] = s[9] /\ b[10] = s[10]
  <2>1. /\ 1 \in 1..n /\ 2 \in 1..n /\ 3 \in 1..n /\ 4 \in 1..n /\ 5 \in 1..n
        /\ 6 \in 1..n /\ 7 \in 1..n /\ 8 \in 1..n /\ 9 \in 1..n /\ 10 \in 1..n
    BY <1>0
  <2>2. QED  BY <1>1, <2>1, Zenon
<1>3. PayloadLen(b) = PayloadLen(s)
  BY <1>2, Zenon DEF PayloadLen
<1>4. HeaderOK(b) <=> HeaderOK(s)
  BY <1>2, <1>3, Zenon DEF HeaderOK, Version
<1>5. FrameSize(b) = FrameSize(s)
  BY <1>3 DEF FrameSize
<1>6. ASSUME FrameSize(b) <= n
      PROVE  (CrcOK(b) <=> CrcOK(s)) /\ ParsedFrame(b) = ParsedFrame(s)
  <2> DEFINE body == FrameSize(b) - kCrcSize
  <2>1. /\ PayloadLen(b) \in Nat /\ FrameSize(b) = PayloadLen(b) + 14
        /\ body = PayloadLen(b) + 10
    <3>1. Len(b) >= kMinFrameSize
      BY <1>0, <1>1 DEF kMinFrameSize, kHeaderSize, kCrcSize
    <3>2. PayloadLen(b) \in Nat
      BY <3>1, HeaderTypes
    <3>3. QED  BY <3>2 DEF FrameSize, kHeaderSize, kCrcSize
  <2> HIDE DEF body
  <2>2. body \in 0..n /\ body + 1 \in Nat \ {0} /\ body + kCrcSize \in 0..n
    BY <1>0, <1>6, <2>1 DEF kCrcSize
  <2>3. /\ SubSeq(b, 1, body) = SubSeq(s, 1, body)
        /\ SubSeq(b, body + 1, body + kCrcSize) = SubSeq(s, body + 1, body + kCrcSize)
    BY <1>0, <2>2, StretchOfPrefix
  <2>4. CrcOK(b) <=> CrcOK(s)
    BY <1>5, <2>3 DEF CrcOK, body
  <2>5. SubSeq(b, kHeaderSize + 1, kHeaderSize + PayloadLen(b))
          = SubSeq(s, kHeaderSize + 1, kHeaderSize + PayloadLen(b))
    <3>1. kHeaderSize + 1 \in Nat \ {0} /\ kHeaderSize + PayloadLen(b) \in 0..n
      BY <1>0, <1>6, <2>1 DEF kHeaderSize
    <3>2. QED  BY <1>0, <3>1, StretchOfPrefix
  <2>6. ParsedFrame(b) = ParsedFrame(s)
    <3>1. Sequence(b) = Sequence(s)
      BY <1>2, Zenon DEF Sequence
    <3>2. b[4] = s[4]
      BY <1>2, Zenon
    <3>3. SubSeq(b, kHeaderSize + 1, kHeaderSize + PayloadLen(b))
            = SubSeq(s, kHeaderSize + 1, kHeaderSize + PayloadLen(s))
      BY <1>3, <2>5, Zenon
    <3>4. QED  BY <3>1, <3>2, <3>3, Zenon DEF ParsedFrame
  <2>7. QED  BY <2>4, <2>6
<1>7. QED  BY <1>2, <1>4, <1>5, <1>6, Zenon

\* FrameScan uses the same words for frames.
LEMMA SameWords ==
  ASSUME NEW b
  PROVE  /\ ImplementsScan!StartsFrame(b) <=> StartsFrame(b)
         /\ ImplementsScan!FrameSize(b) = FrameSize(b)
         /\ ImplementsScan!ParsedFrame(b) = ParsedFrame(b)
BY DEF ImplementsScan!StartsFrame, StartsFrame, ImplementsScan!HeaderOK, HeaderOK,
       ImplementsScan!CrcOK, CrcOK, ImplementsScan!FrameSize, FrameSize,
       ImplementsScan!ParsedFrame, ParsedFrame, ImplementsScan!PayloadLen, PayloadLen,
       ImplementsScan!Version, Version, ImplementsScan!Sequence, Sequence,
       ImplementsScan!U16, U16, ImplementsScan!U32, U32,
       ImplementsScan!kMagic0, kMagic0, ImplementsScan!kMagic1, kMagic1,
       ImplementsScan!kProtocolVersion, kProtocolVersion,
       ImplementsScan!kHeaderSize, kHeaderSize, ImplementsScan!kCrcSize, kCrcSize,
       ImplementsScan!kMinFrameSize, kMinFrameSize

\* What FrameScan sees from the place of a byte of the buffer on.
LEMMA FromBuffer ==
  ASSUME IInv, NEW k \in 0..Len(buffer)
  PROVE  /\ ImplementsScan!From(Cursor + k) \in Seq(Byte)
         /\ Len(ImplementsScan!From(Cursor + k)) = Len(stream) - (Cursor + k)
         /\ DropFirst(buffer, k) = SubSeq(ImplementsScan!From(Cursor + k), 1, Len(buffer) - k)
<1> DEFINE p == Cursor + k
           f == SubSeq(stream, p + 1, Len(stream))
           n == Len(buffer) - k
<1>1. /\ p \in Nat /\ p <= fed /\ fed <= Len(stream) /\ n = fed - p /\ n \in Nat
      /\ stream \in Seq(Byte) /\ Len(stream) \in Nat /\ fed \in Nat
  BY Facts
<1>2. f = ImplementsScan!From(p)
  BY DEF ImplementsScan!From
<1> HIDE DEF p, n
<1>3. f \in Seq(Byte) /\ Len(f) = Len(stream) - p /\ \A i \in 1..(Len(stream) - p) : f[i] = stream[p + i]
  <2>1. \A i \in (p + 1)..Len(stream) : stream[i] \in Byte
    BY <1>1
  <2>2. QED  BY <1>1, <2>1, SubSeqProperties
<1> HIDE DEF f
<1>4. SubSeq(f, 1, n) \in Seq(Byte) /\ Len(SubSeq(f, 1, n)) = n
      /\ \A i \in 1..n : SubSeq(f, 1, n)[i] = f[i]
  <2>1. \A i \in 1..n : f[i] \in Byte
    BY <1>1, <1>3
  <2>2. QED  BY <1>1, <2>1, SubSeqProperties
<1>5. SubSeq(stream, p + 1, fed) \in Seq(Byte) /\ Len(SubSeq(stream, p + 1, fed)) = n
      /\ \A i \in 1..n : SubSeq(stream, p + 1, fed)[i] = stream[p + i]
  <2>1. \A i \in (p + 1)..fed : stream[i] \in Byte
    BY <1>1
  <2>2. QED  BY <1>1, <2>1, SubSeqProperties
<1>6. \A i \in 1..n : SubSeq(f, 1, n)[i] = SubSeq(stream, p + 1, fed)[i]
  BY <1>1, <1>3, <1>4, <1>5
<1>7. SubSeq(f, 1, n) = SubSeq(stream, p + 1, fed)
  BY <1>4, <1>5, <1>6, SeqEqual
<1>8. DropFirst(buffer, k) = SubSeq(stream, p + 1, fed)
  BY WindowAfterDrop DEF p
<1>9. QED  BY <1>2, <1>3, <1>7, <1>8 DEF p, n

\* No frame starts at a byte of the buffer that is not the first half of a magic.
LEMMA NoFrameWithoutMagic ==
  ASSUME IInv, NEW i \in 1..(Len(buffer) - 1), i \notin MagicPositions(buffer)
  PROVE  ~ImplementsScan!FrameAt(Cursor + (i - 1))
<1> DEFINE f == ImplementsScan!From(Cursor + (i - 1))
           d == DropFirst(buffer, i - 1)
           n == Len(buffer) - (i - 1)
<1>1. i - 1 \in 0..Len(buffer) /\ n \in Nat /\ n >= 2 /\ 1 \in 1..n /\ 2 \in 1..n
  BY Facts
<1>2. f \in Seq(Byte) /\ d = SubSeq(f, 1, n) /\ n <= Len(f)
  <2>1. /\ f \in Seq(Byte)
        /\ Len(f) = Len(stream) - (Cursor + (i - 1))
        /\ d = SubSeq(f, 1, n)
    BY <1>1, FromBuffer, Zenon
  <2>2. Len(f) = Len(stream) - (Cursor + (i - 1)) => n <= Len(f)
    <3> HIDE DEF f
    <3>1. QED  BY Facts
  <2>3. QED  BY <2>1, <2>2, Zenon
<1>3. d[1] = buffer[i] /\ d[2] = buffer[i + 1]
  <2>1. \A j \in 1..n : d[j] = buffer[(i - 1) + j]
    BY <1>1, Facts, DropFirstProperties
  <2>2. (i - 1) + 1 = i /\ (i - 1) + 2 = i + 1
    BY Facts
  <2>3. d[1] = buffer[(i - 1) + 1] /\ d[2] = buffer[(i - 1) + 2]
    BY <1>1, <2>1
  <2>4. QED  BY <2>2, <2>3
<1>4. d[1] = f[1] /\ d[2] = f[2]
  <2> HIDE DEF f, d, n
  <2>1. \A j \in 1..n : f[j] \in Byte
    BY <1>1, <1>2
  <2>2. \A j \in 1..n : SubSeq(f, 1, n)[j] = f[1 + j - 1]
    BY <1>1, <2>1, SubSeqProperties
  <2>3. QED  BY <1>1, <1>2, <2>2
<1>5. ~(buffer[i] = kMagic0 /\ buffer[i + 1] = kMagic1)
  BY DEF MagicPositions
<1>6. ~StartsFrame(f)
  BY <1>3, <1>4, <1>5 DEF StartsFrame
<1>7. QED  BY <1>6, SameWords DEF ImplementsScan!FrameAt

\* Counting from the cursor or from the session's first byte is the same.
LEMMA NoFrameUpTo ==
  ASSUME Cursor \in Nat, NEW d \in Nat,
         \A i \in 0..(d - 1) : ~ImplementsScan!FrameAt(Cursor + i)
  PROVE  ImplementsScan!NoFrameBetween(Cursor, Cursor + d)
<1> SUFFICES ASSUME NEW i \in Cursor..((Cursor + d) - 1)
             PROVE  ~ImplementsScan!FrameAt(i)
  BY DEF ImplementsScan!NoFrameBetween
<1>1. i - Cursor \in 0..(d - 1) /\ Cursor + (i - Cursor) = i
  OBVIOUS
<1>2. ~ImplementsScan!FrameAt(Cursor + (i - Cursor))
  BY <1>1, Zenon
<1>3. QED  BY <1>1, <1>2, Zenon

\* Bytes dropped from the buffer, at none of which a frame starts, are skipped.
LEMMA DropIsSkip ==
  ASSUME IInv, UNCHANGED << stream, fed, delivered >>, NEW d \in 0..Len(buffer),
         buffer' = DropFirst(buffer, d),
         \A i \in 0..(d - 1) : ~ImplementsScan!FrameAt(Cursor + i)
  PROVE  ImplementsScan!Skip
<1>1. Len(buffer') = Len(buffer) - d
  BY WindowAfterDrop
<1>2. d \in Nat /\ d <= Len(buffer)
  BY Facts
<1>3. Cursor' = Cursor + d
  <2>1. Cursor' = fed' - Len(buffer')
    BY DEF Cursor
  <2>2. Cursor' = fed - (Len(buffer) - d)
    BY <1>1, <2>1, Zenon
  <2>3. QED  BY <1>2, <2>2, Facts
<1>4. Cursor' \in Cursor..Len(stream)
  BY <1>2, <1>3, Facts
<1>5. ImplementsScan!NoFrameBetween(Cursor, Cursor')
  BY <1>2, <1>3, Facts, NoFrameUpTo, Zenon
<1>6. QED  BY <1>4, <1>5 DEF ImplementsScan!Skip

\* What stands before the first magic of the buffer is not the start of a frame.
LEMMA NoFrameBeforeAligned ==
  ASSUME IInv, NEW k \in 0..(Len(buffer) - 2), \A i \in 1..k : i \notin MagicPositions(buffer)
  PROVE  \A i \in 0..(k - 1) : ~ImplementsScan!FrameAt(Cursor + i)
<1> SUFFICES ASSUME NEW i \in 0..(k - 1)  PROVE ~ImplementsScan!FrameAt(Cursor + i)
  OBVIOUS
<1>1. i + 1 \in 1..(Len(buffer) - 1) /\ i + 1 \in 1..k /\ (i + 1) - 1 = i
  BY Facts
<1>2. i + 1 \notin MagicPositions(buffer)
  BY <1>1, Zenon
<1>3. ~ImplementsScan!FrameAt(Cursor + ((i + 1) - 1))
  BY <1>1, <1>2, NoFrameWithoutMagic
<1>4. QED  BY <1>1, <1>3, Zenon

\* Whether a frame starts at the head of the aligned buffer shows in the buffer as soon
\* as the header is there and, if the header is good, the announced length.
LEMMA FrameAtAligned ==
  ASSUME IInv, NEW k \in 0..Len(buffer), NEW b, b = DropFirst(buffer, k),
         Len(b) >= kMinFrameSize, HeaderOK(b) => Len(b) >= FrameSize(b)
  PROVE  LET f == ImplementsScan!From(Cursor + k) IN
           /\ ImplementsScan!FrameAt(Cursor + k) <=> StartsFrame(b)
           /\ StartsFrame(b) => /\ ImplementsScan!FrameSize(f) = FrameSize(b)
                                /\ ImplementsScan!ParsedFrame(f) = ParsedFrame(b)
<1> DEFINE f == ImplementsScan!From(Cursor + k)
<1>1. /\ f \in Seq(Byte) /\ Len(f) = Len(stream) - (Cursor + k)
      /\ b = SubSeq(f, 1, Len(buffer) - k)
  BY FromBuffer, Zenon
<1>2. b \in Seq(Byte) /\ Len(b) = Len(buffer) - k
  BY WindowAfterDrop
<1> HIDE DEF f
<1>3. Len(b) \in kMinFrameSize..Len(f)
  <2>1. /\ Cursor \in Nat /\ fed \in Nat /\ Len(buffer) \in Nat /\ Len(stream) \in Nat
        /\ Cursor = fed - Len(buffer) /\ fed <= Len(stream) /\ kMinFrameSize = 14
    BY Facts
  <2>2. Len(f) = Len(stream) - (Cursor + k) /\ Len(b) = Len(buffer) - k
    BY <1>1, <1>2
  <2>3. QED  BY ONLY <2>1, <2>2, k \in 0..Len(buffer), Len(b) >= kMinFrameSize
<1>4. b = SubSeq(f, 1, Len(b))
  BY <1>1, <1>2, Zenon
<1>5. /\ b[1] = f[1] /\ b[2] = f[2]
      /\ HeaderOK(b) <=> HeaderOK(f)
      /\ FrameSize(b) = FrameSize(f)
      /\ FrameSize(b) <= Len(b) => /\ CrcOK(b) <=> CrcOK(f)
                                   /\ ParsedFrame(b) = ParsedFrame(f)
  BY <1>1, <1>2, <1>3, <1>4, FrameOfPrefix
<1>6. FrameSize(b) \in Nat
  BY <1>2, HeaderTypes
<1>7. Len(b) \in Nat /\ Len(f) \in Nat /\ Len(b) <= Len(f) /\ Len(f) >= kMinFrameSize
  BY <1>1, <1>2, <1>3, Facts
<1>8. StartsFrame(b) <=> StartsFrame(f)
  BY <1>5, <1>6, <1>7 DEF StartsFrame
<1>9. StartsFrame(b) => FrameSize(f) = FrameSize(b) /\ ParsedFrame(f) = ParsedFrame(b)
  BY <1>5, <1>6, <1>7 DEF StartsFrame
<1>10. ImplementsScan!FrameAt(Cursor + k) <=> StartsFrame(f)
  BY SameWords, Zenon DEF f, ImplementsScan!FrameAt
<1>11. ImplementsScan!FrameSize(f) = FrameSize(f) /\ ImplementsScan!ParsedFrame(f) = ParsedFrame(f)
  BY SameWords, Zenon
<1>12. QED  BY <1>8, <1>9, <1>10, <1>11, Zenon DEF f

\* A session starts with the cursor at its first byte.
LEMMA InitRefines == Init => ImplementsScan!Init
<1> SUFFICES ASSUME Init  PROVE ImplementsScan!Init
  OBVIOUS
<1>1. fed = 0 /\ Len(buffer) = 0
  <2>1. fed = 0 /\ buffer = << >>
    BY DEF Init
  <2>2. QED  BY <2>1, EmptySeq, Zenon
<1>2. Cursor = 0
  BY <1>1 DEF Cursor
<1>3. stream \in Streams /\ delivered = << >>
  BY DEF Init
<1>4. QED  BY <1>2, <1>3, Zenon DEF ImplementsScan!Init

\* A step of the parser is a step of FrameScan or leaves cursor and deliveries alone.
LEMMA StepRefines ==
  IInv /\ [Next]_vars => [ImplementsScan!Next]_(ImplementsScan!scanVars)
<1> SUFFICES ASSUME IInv, [Next]_vars
             PROVE  ImplementsScan!Next \/ UNCHANGED << stream, Cursor, delivered >>
  BY DEF ImplementsScan!scanVars
<1>1. CASE Reset
  <2>1. fed' = 0 /\ Len(buffer') = 0
    <3>1. fed' = 0 /\ buffer' = << >>
      BY <1>1 DEF Reset
    <3>2. QED  BY <3>1, EmptySeq, Zenon
  <2>2. Cursor' = 0
    BY <2>1 DEF Cursor
  <2>3. stream' \in Streams /\ delivered' = << >>
    BY <1>1 DEF Reset
  <2>4. ImplementsScan!NewSession
    BY <2>2, <2>3, Zenon DEF ImplementsScan!NewSession
  <2>5. QED  BY <2>4 DEF ImplementsScan!Next
<1>2. ASSUME NEW n \in 1..ReadSize, Feed(n)
      PROVE  UNCHANGED << stream, Cursor, delivered >>
  BY <1>2, FeedKeepsAll DEF Feed
<1>3. CASE TooShort
  BY <1>3 DEF TooShort, Cursor
<1>4. CASE NoMagic
  <2>1. Len(buffer) > 1 /\ Len(buffer) - 1 \in 0..Len(buffer)
    BY <1>4, Facts DEF NoMagic
  <2>2. buffer' = DropFirst(buffer, Len(buffer) - 1)
    BY <1>4, <2>1 DEF NoMagic, KeepLast
  <2>3. /\ Len(buffer) - 1 \in 0..Len(buffer)
        /\ \A i \in 0..((Len(buffer) - 1) - 1) : ~ImplementsScan!FrameAt(Cursor + i)
    <3> SUFFICES ASSUME NEW i \in 0..((Len(buffer) - 1) - 1)
                 PROVE  ~ImplementsScan!FrameAt(Cursor + i)
      BY <2>1
    <3>1. i + 1 \in 1..(Len(buffer) - 1) /\ (i + 1) - 1 = i
      BY Facts
    <3>2. i + 1 \notin MagicPositions(buffer)
      BY <1>4 DEF NoMagic
    <3>3. ~ImplementsScan!FrameAt(Cursor + ((i + 1) - 1))
      BY <3>1, <3>2, NoFrameWithoutMagic
    <3>4. QED  BY <3>1, <3>3, Zenon
  <2>4. UNCHANGED << stream, fed, delivered >>
    BY <1>4 DEF NoMagic
  <2>5. ImplementsScan!Skip
    BY <2>2, <2>3, <2>4, DropIsSkip
  <2>6. QED  BY <2>5 DEF ImplementsScan!Next
<1>5. CASE AwaitBytes
  <2>1. PICK k \in 0..(Len(buffer) - 2) :
          /\ Aligned(buffer) = DropFirst(buffer, k)
          /\ \A i \in 1..k : i \notin MagicPositions(buffer)
    BY <1>5, AlignedWindow DEF AwaitBytes, FindsMagic
  <2>2. k \in 0..Len(buffer)
    BY Facts
  <2>3. buffer' = DropFirst(buffer, k) /\ UNCHANGED << stream, fed, delivered >>
    BY <1>5, <2>1 DEF AwaitBytes, FindsMagic
  <2>4. \A i \in 0..(k - 1) : ~ImplementsScan!FrameAt(Cursor + i)
    BY <2>1, NoFrameBeforeAligned
  <2>5. ImplementsScan!Skip
    BY <2>2, <2>3, <2>4, DropIsSkip
  <2>6. QED  BY <2>5 DEF ImplementsScan!Next
<1>6. CASE RejectFrame
  <2> DEFINE b == Aligned(buffer)
  <2>1. PICK k \in 0..(Len(buffer) - 2) :
          /\ b = DropFirst(buffer, k)
          /\ b \in Seq(Byte)
          /\ \A i \in 1..k : i \notin MagicPositions(buffer)
    BY <1>6, AlignedWindow DEF RejectFrame, FindsMagic
  <2>2. /\ k \in 0..Len(buffer) /\ k \in Nat /\ 1 \in 0..(Len(buffer) - k)
        /\ k + 1 \in 0..Len(buffer)
    BY Facts
  <2>3. /\ Len(b) >= kMinFrameSize
        /\ \/ ~HeaderOK(b)
           \/ HeaderOK(b) /\ Len(b) >= FrameSize(b) /\ ~CrcOK(b)
        /\ buffer' = DropFirst(b, 1)
        /\ UNCHANGED << stream, fed, delivered >>
    BY <1>6 DEF RejectFrame, PopFront, FindsMagic
  <2>4. buffer' = DropFirst(buffer, k + 1)
    BY <2>1, <2>2, <2>3, DropAligned
  <2>5. ~StartsFrame(b)
    BY <2>3, Zenon DEF StartsFrame
  <2> HIDE DEF b
  <2>6. ~ImplementsScan!FrameAt(Cursor + k)
    BY <2>1, <2>2, <2>3, <2>5, FrameAtAligned
  <2>7. \A i \in 0..(k - 1) : ~ImplementsScan!FrameAt(Cursor + i)
    BY <2>1, NoFrameBeforeAligned
  <2>8. \A i \in 0..((k + 1) - 1) : ~ImplementsScan!FrameAt(Cursor + i)
    <3> SUFFICES ASSUME NEW i \in 0..((k + 1) - 1)  PROVE ~ImplementsScan!FrameAt(Cursor + i)
      OBVIOUS
    <3>1. i = k \/ i \in 0..(k - 1)
      BY <2>2
    <3>2. QED  BY <2>6, <2>7, <3>1, Zenon
  <2>9. ImplementsScan!Skip
    BY <2>2, <2>3, <2>4, <2>8, DropIsSkip
  <2>10. QED  BY <2>9 DEF ImplementsScan!Next
<1>7. CASE AcceptFrame
  <2> DEFINE b == Aligned(buffer)
  <2>1. PICK k \in 0..(Len(buffer) - 2) :
          /\ b = DropFirst(buffer, k)
          /\ b \in Seq(Byte)
          /\ Len(b) = Len(buffer) - k
          /\ \A i \in 1..k : i \notin MagicPositions(buffer)
    BY <1>7, AlignedWindow DEF AcceptFrame, FindsMagic
  <2> DEFINE p == Cursor + k
             f == ImplementsScan!From(p)
  <2>2. /\ StartsFrame(b)
        /\ buffer' = DropFirst(b, FrameSize(b))
        /\ delivered' = Append(delivered, [at |-> fed - Len(b), frame |-> ParsedFrame(b)])
        /\ stream' = stream /\ fed' = fed
    BY <1>7 DEF AcceptFrame, FindsMagic
  <2> HIDE DEF b
  <2>3. /\ Len(b) >= kMinFrameSize /\ Len(b) >= FrameSize(b) /\ FrameSize(b) \in Nat
        /\ k \in Nat /\ k \in 0..Len(buffer)
    BY <2>1, <2>2, HeaderTypes, Facts DEF StartsFrame
  <2>4. /\ ImplementsScan!FrameAt(p)
        /\ ImplementsScan!FrameSize(f) = FrameSize(b)
        /\ ImplementsScan!ParsedFrame(f) = ParsedFrame(b)
    BY <2>1, <2>2, <2>3, FrameAtAligned
  <2>5. ImplementsScan!NoFrameBetween(Cursor, p)
    <3>1. \A i \in 0..(k - 1) : ~ImplementsScan!FrameAt(Cursor + i)
      BY <2>1, NoFrameBeforeAligned
    <3>2. QED  BY <2>3, <3>1, Facts, NoFrameUpTo, Zenon
  <2>6. p \in Cursor..Len(stream) /\ fed - Len(b) = p
    BY <2>1, <2>3, Facts
  <2>7. Cursor' = p + FrameSize(b)
    <3>1. Len(buffer') = Len(b) - FrameSize(b)
      BY <2>1, <2>2, <2>3, DropFirstProperties
    <3>2. Cursor' = fed - (Len(b) - FrameSize(b))
      BY <2>2, <3>1, Zenon DEF Cursor
    <3>3. QED  BY <2>1, <2>3, <2>6, <3>2, Facts
  <2>8. delivered' = Append(delivered, [at |-> p, frame |-> ImplementsScan!ParsedFrame(f)])
    BY <2>2, <2>4, <2>6, Zenon
  <2>9. Cursor' = p + ImplementsScan!FrameSize(f)
    BY <2>4, <2>7, Zenon
  <2> HIDE DEF p, f
  <2>10. f = ImplementsScan!From(p)
    BY DEF f
  <2>11. ImplementsScan!Deliver
    BY <2>2, <2>4, <2>5, <2>6, <2>8, <2>9, <2>10, Zenon DEF ImplementsScan!Deliver
  <2>12. QED  BY <2>11 DEF ImplementsScan!Next
<1>8. CASE UNCHANGED vars
  BY <1>8 DEF vars, Cursor
<1>9. QED
  BY <1>1, <1>2, <1>3, <1>4, <1>5, <1>6, <1>7, <1>8 DEF Next, Scan

\* Whatever the payload bound, the chunks and the bytes, the parser delivers exactly the
\* frames FrameScan promises, once and in order (frame_parser.cpp:23-104).
THEOREM ParserImplementsScan == Spec => DeliversEveryFrame
<1>1. QED
  BY InitRefines, StepRefines, Invariance, PTL
  DEF Spec, DeliversEveryFrame, ImplementsScan!Spec

-----------------------------------------------------------------------------
(* What was delivered stands in the session *)

\* Every delivered frame is what the receiver reads where it says it was found.
DeliveredWereFound ==
  \A k \in 1..Len(delivered) :
    LET d == delivered[k] IN
      /\ d.at \in 0..Len(stream)
      /\ ImplementsScan!FrameAt(d.at)
      /\ d.frame = ParsedFrame(ImplementsScan!From(d.at))

\* A new session starts without deliveries.
LEMMA FoundInit == delivered = << >> => DeliveredWereFound
  BY EmptySeq DEF DeliveredWereFound

\* Only a frame that was found is added, and the session does not change under one.
LEMMA FoundStep == IInv /\ DeliveredWereFound /\ [Next]_vars => DeliveredWereFound'
<1> SUFFICES ASSUME IInv, DeliveredWereFound, [Next]_vars
             PROVE  DeliveredWereFound'
  OBVIOUS
<1>1. delivered \in Seq(Delivery) /\ delivered' \in Seq(Delivery)
  BY IInvStep DEF IInv, TypeOK
<1>2. ImplementsScan!Next \/ UNCHANGED << stream, Cursor, delivered >>
  BY StepRefines DEF ImplementsScan!scanVars
<1>3. ASSUME stream' = stream, delivered' = delivered
      PROVE  DeliveredWereFound'
  BY <1>3 DEF DeliveredWereFound, ImplementsScan!FrameAt, ImplementsScan!From
<1>4. CASE ImplementsScan!Skip
  BY <1>3, <1>4 DEF ImplementsScan!Skip
<1>5. CASE ImplementsScan!Deliver
  <2>1. PICK p \in Cursor..Len(stream) :
          /\ ImplementsScan!FrameAt(p)
          /\ delivered' = Append(delivered,
               [at |-> p, frame |-> ImplementsScan!ParsedFrame(ImplementsScan!From(p))])
    BY <1>5 DEF ImplementsScan!Deliver
  <2> DEFINE d == [at |-> p, frame |-> ParsedFrame(ImplementsScan!From(p))]
  <2>2. delivered' = Append(delivered, d)
    BY <2>1, SameWords, Zenon
  <2>3. d.at = p /\ d.frame = ParsedFrame(ImplementsScan!From(p))
    OBVIOUS
  <2>4. p \in 0..Len(stream)
    BY Facts
  <2> HIDE DEF d
  <2>5. /\ Len(delivered') = Len(delivered) + 1
        /\ \A k \in 1..Len(delivered) : delivered'[k] = delivered[k]
        /\ delivered'[Len(delivered) + 1] = d
    BY <1>1, <2>2
  <2>6. UNCHANGED stream
    BY <1>5 DEF ImplementsScan!Deliver
  <2> SUFFICES ASSUME NEW k \in 1..Len(delivered')
               PROVE  LET e == delivered'[k] IN
                        /\ e.at \in 0..Len(stream)
                        /\ ImplementsScan!FrameAt(e.at)
                        /\ e.frame = ParsedFrame(ImplementsScan!From(e.at))
    BY <2>6 DEF DeliveredWereFound, ImplementsScan!FrameAt, ImplementsScan!From
  <2>7. CASE k = Len(delivered) + 1
    <3>1. delivered'[k] = d
      BY <2>5, <2>7
    <3>2. QED  BY <2>1, <2>3, <2>4, <3>1, Zenon
  <2>8. CASE k # Len(delivered) + 1
    <3>1. k \in 1..Len(delivered)
      BY <1>1, <2>5, <2>8
    <3>2. delivered'[k] = delivered[k]
      BY <2>5, <3>1
    <3>3. QED  BY <3>1, <3>2, Zenon DEF DeliveredWereFound
  <2>9. QED  BY <2>7, <2>8
<1>6. CASE ImplementsScan!NewSession
  <2>1. delivered' = << >>
    BY <1>6 DEF ImplementsScan!NewSession
  <2>2. Len(delivered') = 0
    BY <2>1, EmptySeq, Zenon
  <2>3. QED  BY <2>2 DEF DeliveredWereFound
<1>7. QED
  BY <1>2, <1>3, <1>4, <1>5, <1>6 DEF ImplementsScan!Next

\* A frame that was found encodes to the bytes it was found in.
LEMMA FoundReencodes == IInv /\ DeliveredWereFound => DeliveredFramesReencode
<1> SUFFICES ASSUME IInv, DeliveredWereFound, NEW k \in DOMAIN delivered
             PROVE  LET d == delivered[k]
                        e == EncodeFrame(d.frame.type, d.frame.sequence, d.frame.payload)
                    IN  SubSeq(stream, d.at + 1, d.at + Len(e)) = e
  BY DEF DeliveredFramesReencode
<1> DEFINE at == delivered[k].at
           frame == delivered[k].frame
           f == ImplementsScan!From(at)
           e == EncodeFrame(frame.type, frame.sequence, frame.payload)
           n == FrameSize(f)
<1>1. k \in 1..Len(delivered)
  BY DEF IInv, TypeOK
<1>2. /\ at \in 0..Len(stream) /\ ImplementsScan!FrameAt(at)
      /\ frame = ParsedFrame(f)
  BY <1>1, Zenon DEF DeliveredWereFound
<1> HIDE DEF at, frame, n
<1>3. stream \in Seq(Byte) /\ Len(stream) \in Nat
  BY Facts
<1>4. /\ f \in Seq(Byte) /\ Len(f) = Len(stream) - at
      /\ \A i \in 1..(Len(stream) - at) : f[i] = stream[at + i]
  <2>1. f = SubSeq(stream, at + 1, Len(stream))
    BY DEF ImplementsScan!From
  <2>2. \A i \in (at + 1)..Len(stream) : stream[i] \in Byte
    BY <1>2, <1>3
  <2> HIDE DEF f
  <2>3. QED  BY <1>2, <1>3, <2>1, <2>2, SubSeqProperties
<1>5. StartsFrame(f)
  BY <1>2, SameWords, Zenon DEF ImplementsScan!FrameAt
<1> HIDE DEF f
<1>6. n \in Nat /\ n <= Len(f)
  BY <1>4, <1>5, HeaderTypes DEF n, StartsFrame
<1>7. e = SubSeq(f, 1, n)
  BY <1>2, <1>4, <1>5, AcceptedFrameReencodes, Zenon DEF n
<1> HIDE DEF e
<1>8. /\ SubSeq(f, 1, n) \in Seq(Byte) /\ Len(SubSeq(f, 1, n)) = n
      /\ \A i \in 1..n : SubSeq(f, 1, n)[i] = f[i]
  <2>1. \A i \in 1..n : f[i] \in Byte
    BY <1>4, <1>6
  <2>2. QED  BY <1>6, <2>1, SubSeqProperties
<1>9. /\ SubSeq(stream, at + 1, at + n) \in Seq(Byte)
      /\ Len(SubSeq(stream, at + 1, at + n)) = n
      /\ \A i \in 1..n : SubSeq(stream, at + 1, at + n)[i] = stream[at + i]
  <2>1. \A i \in (at + 1)..(at + n) : stream[i] \in Byte
    BY <1>2, <1>3, <1>4, <1>6
  <2>2. at + 1 \in Int /\ at + n \in Int /\ at \in Nat
    BY <1>2, <1>6
  <2>3. /\ SubSeq(stream, at + 1, at + n) \in Seq(Byte)
        /\ Len(SubSeq(stream, at + 1, at + n))
             = IF at + 1 <= at + n THEN (at + n) - (at + 1) + 1 ELSE 0
        /\ \A i \in 1..((at + n) - (at + 1) + 1) :
              SubSeq(stream, at + 1, at + n)[i] = stream[(at + 1) + i - 1]
    BY <2>1, <2>2, SubSeqProperties
  <2>4. /\ (at + n) - (at + 1) + 1 = n
        /\ \A i \in 1..n : (at + 1) + i - 1 = at + i
    BY <1>6, <2>2
  <2>5. QED  BY <1>6, <2>2, <2>3, <2>4
<1>10. SubSeq(stream, at + 1, at + n) = SubSeq(f, 1, n)
  <2>1. \A i \in 1..n : SubSeq(stream, at + 1, at + n)[i] = SubSeq(f, 1, n)[i]
    BY <1>2, <1>3, <1>4, <1>6, <1>8, <1>9
  <2>2. QED  BY <1>8, <1>9, <2>1, SeqEqual
<1>11. SubSeq(stream, at + 1, at + Len(e)) = e
  BY <1>7, <1>8, <1>10
<1>12. QED  BY <1>11, Zenon DEF at, frame, e

\* encode_frame and feed() agree on every byte of the envelope, whatever the checksum
\* (protocol.cpp:42-59 against frame_parser.cpp:60-98).
THEOREM ReencodeCorrect == Spec => []DeliveredFramesReencode
<1>1. Init => DeliveredWereFound
  BY FoundInit DEF Init
<1>2. QED
  BY <1>1, FoundStep, FoundReencodes, Invariance, PTL DEF Spec

-----------------------------------------------------------------------------
(* A line that adds and loses nothing *)

\* A frame that may be sent is accepted at the front of whatever its bytes stand before.
LEMMA SendableAccepted ==
  ASSUME FourByteCrc, NEW f \in Sendable, NEW rest \in Seq(Byte)
  PROVE  LET b == Bytes(f) \o rest IN
           /\ Bytes(f) \in Seq(Byte) /\ Len(Bytes(f)) = FrameSize(b)
           /\ StartsFrame(b) /\ ParsedFrame(b) = f
<1> DEFINE type == f.type
           sequence == f.sequence
           payload == f.payload
<1>1. f \in [type : Byte, sequence : Nat, payload : Seq(Byte)]
  BY Zenon DEF Sendable
<1>2. /\ sequence \div Weight[4] \in Byte
      /\ Len(payload) \div Weight[2] \in Byte /\ Len(payload) <= MaxPayload
  BY Zenon DEF Sendable
<1>3. type \in Byte /\ sequence \in Nat /\ payload \in Seq(Byte)
  BY <1>1
<1>4. f = [type |-> type, sequence |-> sequence, payload |-> payload]
  BY <1>1
<1>5. Bytes(f) = EncodeFrame(type, sequence, payload)
  BY DEF Bytes
<1> HIDE DEF type, sequence, payload
<1>6. LET b == EncodeFrame(type, sequence, payload) \o rest IN
        /\ EncodeFrame(type, sequence, payload) \in Seq(Byte)
        /\ Len(EncodeFrame(type, sequence, payload)) = FrameSize(b)
        /\ StartsFrame(b)
        /\ ParsedFrame(b) = [type |-> type, sequence |-> sequence, payload |-> payload]
  BY <1>2, <1>3, EncodedFrameAccepted
<1>7. QED  BY <1>4, <1>5, <1>6, Zenon

\* The bytes of a frame that may be sent.
LEMMA BytesType ==
  ASSUME FourByteCrc, NEW f \in Sendable
  PROVE  Bytes(f) \in Seq(Byte) /\ Len(Bytes(f)) \in Nat /\ Len(Bytes(f)) >= kMinFrameSize
<1> DEFINE b == Bytes(f) \o << >>
<1>1. << >> \in Seq(Byte)
  OBVIOUS
<1>2. Bytes(f) \in Seq(Byte) /\ Len(Bytes(f)) = FrameSize(b) /\ StartsFrame(b)
  BY <1>1, SendableAccepted, Zenon
<1>3. b \in Seq(Byte)
  BY <1>1, <1>2, JoinProperties, Zenon
<1> HIDE DEF b
<1>4. FrameSize(b) \in Nat /\ FrameSize(b) >= kMinFrameSize
  BY <1>2, <1>3, HeaderTypes DEF StartsFrame
<1>5. QED  BY <1>2, <1>4, Zenon

\* The line after each frame.
LEMMA LineSteps ==
  ASSUME FourByteCrc, NEW sent \in Seq(Sendable)
  PROVE  /\ Line(sent) \in [0..Len(sent) -> Seq(Byte)]
         /\ Line(sent)[0] = << >>
         /\ \A k \in 1..Len(sent) : Line(sent)[k] = Line(sent)[k - 1] \o Bytes(sent[k])
<1> DEFINE n == Len(sent)
           base == << >>
           after[k \in 0..n] == IF k = 0 THEN base ELSE after[k - 1] \o Bytes(sent[k])
           step == [x \in (1..n) \X Seq(Byte) |-> x[2] \o Bytes(sent[x[1]])]
<1>0. n \in Nat /\ \A k \in 1..n : sent[k] \in Sendable
  OBVIOUS
<1>1. Line(sent) = after
  BY DEF Line
<1>2. base \in Seq(Byte)
  OBVIOUS
<1> HIDE DEF n, base
<1>3. step \in [(1..n) \X Seq(Byte) -> Seq(Byte)]
  <2>1. ASSUME NEW x \in (1..n) \X Seq(Byte)  PROVE x[2] \o Bytes(sent[x[1]]) \in Seq(Byte)
    <3>1. x[1] \in 1..n /\ x[2] \in Seq(Byte)
      BY <2>1
    <3>2. Bytes(sent[x[1]]) \in Seq(Byte)
      BY <1>0, <3>1, BytesType, Zenon
    <3>3. QED  BY <3>1, <3>2, JoinProperties, Zenon
  <2>2. QED  BY <2>1
<1>4. PICK f \in [0..n -> Seq(Byte)] :
        f[0] = base /\ \A k \in 1..n : f[k] = step[<< k, f[k - 1] >>]
  <2> HIDE DEF step
  <2>1. Solvable(n, Seq(Byte), base, step)
    BY <1>0, <1>2, <1>3, Recursion, Zenon
  <2>2. QED  BY <2>1 DEF Solvable, GoesOnBy
<1>5. ASSUME NEW k \in 1..n  PROVE f[k] = f[k - 1] \o Bytes(sent[k])
  <2>1. k - 1 \in 0..n
    BY <1>0
  <2>2. << k, f[k - 1] >> \in (1..n) \X Seq(Byte)
    BY <2>1
  <2>3. step[<< k, f[k - 1] >>] = f[k - 1] \o Bytes(sent[k])
    BY <2>2
  <2>4. QED  BY <1>4, <2>3
<1> HIDE DEF step
<1>6. ASSUME NEW k \in 0..n
      PROVE  f[k] = IF k = 0 THEN base ELSE f[k - 1] \o Bytes(sent[k])
  <2>1. CASE k = 0
    BY <1>4, <2>1
  <2>2. CASE k # 0
    <3>1. k \in 1..n
      BY <1>0, <2>2
    <3>2. QED  BY <1>5, <2>2, <3>1, Zenon
  <2>3. QED  BY <2>1, <2>2
<1>7. f = [k \in 0..n |-> IF k = 0 THEN base ELSE f[k - 1] \o Bytes(sent[k])]
  BY <1>6
<1>8. after = [k \in 0..n |-> IF k = 0 THEN base ELSE after[k - 1] \o Bytes(sent[k])]
  BY <1>7
<1> HIDE DEF after
<1>9. after[0] = base /\ \A k \in 1..n : after[k] = after[k - 1] \o Bytes(sent[k])
  <2>1. 0 \in 0..n /\ \A k \in 1..n : k \in 0..n /\ k # 0
    BY <1>0
  <2>2. QED  BY <1>8, <2>1, Zenon
<1>10. \A k \in 0..n : after[k] \in Seq(Byte)
  <2> DEFINE T == { k \in 0..n : after[k] \in Seq(Byte) }
  <2>1. 0 \in T
    BY <1>0, <1>2, <1>9
  <2>2. ASSUME NEW k \in 1..n, k - 1 \in T  PROVE k \in T
    <3>1. k \in 0..n /\ after[k - 1] \in Seq(Byte)
      BY <1>0, <2>2
    <3>2. Bytes(sent[k]) \in Seq(Byte)
      BY <1>0, BytesType, Zenon
    <3>3. after[k - 1] \o Bytes(sent[k]) \in Seq(Byte)
      BY <3>1, <3>2, JoinProperties, Zenon
    <3>4. QED  BY <1>9, <3>1, <3>3
  <2> HIDE DEF T
  <2>3. \A k \in 0..n : k \in T
    BY <1>0, <2>1, <2>2, BoundedInduction
  <2>4. QED  BY <2>3 DEF T
<1>11. after \in [0..n -> Seq(Byte)]
  BY <1>8, <1>10
<1>12. QED  BY <1>1, <1>9, <1>11, Zenon DEF n, base

\* The line goes on from each frame's end.
LEMMA LineGoesOn ==
  ASSUME FourByteCrc, NEW sent \in Seq(Sendable), NEW n \in 0..Len(sent), NEW k \in 0..n
  PROVE  \E rest \in Seq(Byte) : Line(sent)[n] = Line(sent)[k] \o rest
<1> DEFINE line == Line(sent)
           T == { i \in 0..(n - k) : \E rest \in Seq(Byte) : line[k + i] = line[k] \o rest }
<1>1. n \in Nat /\ k \in Nat /\ n - k \in Nat /\ \A i \in 1..n : sent[i] \in Sendable
  OBVIOUS
<1>2. /\ \A i \in 0..n : line[i] \in Seq(Byte)
      /\ \A i \in 1..n : line[i] = line[i - 1] \o Bytes(sent[i])
  <2>1. \A i \in 0..n : i \in 0..Len(sent)
    OBVIOUS
  <2>2. \A i \in 1..n : i \in 1..Len(sent)
    OBVIOUS
  <2>3. QED  BY <2>1, <2>2, LineSteps, Zenon
<1> HIDE DEF line
<1>3. 0 \in T
  <2>1. line[k] \in Seq(Byte) /\ k + 0 = k
    BY <1>1, <1>2
  <2>2. line[k + 0] = line[k] \o << >>
    BY <2>1, ConcatEmptySeq
  <2>3. << >> \in Seq(Byte) /\ 0 \in 0..(n - k)
    BY <1>1
  <2>4. QED  BY <2>2, <2>3
<1>4. ASSUME NEW i \in 1..(n - k), i - 1 \in T  PROVE i \in T
  <2>1. PICK rest \in Seq(Byte) : line[k + (i - 1)] = line[k] \o rest
    BY <1>4
  <2>2. k + i \in 1..n /\ k + (i - 1) = (k + i) - 1 /\ i \in 0..(n - k) /\ k \in 0..n
    BY <1>1
  <2>3. line[k + i] = line[k + (i - 1)] \o Bytes(sent[k + i])
    BY <1>2, <2>2
  <2>4. Bytes(sent[k + i]) \in Seq(Byte) /\ line[k] \in Seq(Byte)
    BY <1>1, <1>2, <2>2, BytesType, Zenon
  <2>5. line[k + i] = line[k] \o (rest \o Bytes(sent[k + i]))
    <3> DEFINE front == line[k]
               next == Bytes(sent[k + i])
    <3>1. (front \o rest) \o next = front \o (rest \o next)
      <4>1. front \in Seq(Byte) /\ next \in Seq(Byte)
        BY <2>4
      <4> HIDE DEF front, next
      <4>2. QED  BY <4>1, ConcatAssociative
    <3>2. line[k + i] = (line[k] \o rest) \o Bytes(sent[k + i])
      BY <2>1, <2>2, <2>3, Zenon
    <3>3. QED  BY <3>1, <3>2, Zenon
  <2>6. rest \o Bytes(sent[k + i]) \in Seq(Byte)
    BY <2>4, JoinProperties, Zenon
  <2>7. QED  BY <2>2, <2>5, <2>6
<1>5. n - k \in T
  <2> HIDE DEF T
  <2>1. \A i \in 0..(n - k) : i \in T
    BY <1>1, <1>3, <1>4, BoundedInduction
  <2>2. QED  BY <1>1, <2>1
<1>6. PICK rest \in Seq(Byte) : line[k + (n - k)] = line[k] \o rest
  BY <1>5
<1>7. k + (n - k) = n
  BY <1>1
<1>8. QED  BY <1>6, <1>7, Zenon DEF line

\* What stands behind a byte string.
LEMMA BehindFront ==
  ASSUME NEW s \in Seq(Byte), NEW t \in Seq(Byte)
  PROVE  /\ s \o t \in Seq(Byte) /\ Len(s \o t) = Len(s) + Len(t)
         /\ SubSeq(s \o t, Len(s) + 1, Len(s \o t)) = t
<1> DEFINE w == s \o t
           m == Len(s)
<1>1. /\ w \in Seq(Byte) /\ Len(w) = m + Len(t)
      /\ \A i \in 1..Len(t) : w[m + i] = t[i]
  BY JoinProperties
<1>2. m \in Nat /\ m + Len(t) <= Len(w)
  BY <1>1
<1> HIDE DEF w, m
<1>3. SubSeq(w, m + 1, m + Len(t)) = t
  BY <1>1, <1>2, StretchOf
<1>4. QED  BY <1>1, <1>3 DEF w, m

\* Where the receiver stands behind k frames: at the front of the next, or at the end.
LEMMA NextOnLine ==
  ASSUME FourByteCrc, NEW sent \in Seq(Sendable), NEW k \in 0..(Len(sent) - 1),
         stream = Line(sent)[Len(sent)]
  PROVE  LET p == Len(Line(sent)[k])
             f == ImplementsScan!From(p)
         IN  /\ p \in Nat /\ p <= Len(stream)
             /\ f \in Seq(Byte) /\ StartsFrame(f) /\ ParsedFrame(f) = sent[k + 1]
             /\ Len(Line(sent)[k + 1]) = p + FrameSize(f)
<1> DEFINE line == Line(sent)
           p == Len(line[k])
           f == ImplementsScan!From(p)
           next == Bytes(sent[k + 1])
<1>1. /\ k \in 0..Len(sent) /\ k + 1 \in 1..Len(sent) /\ k + 1 \in 0..Len(sent)
      /\ (k + 1) - 1 = k /\ Len(sent) \in 0..Len(sent)
  OBVIOUS
<1>2. sent[k + 1] \in Sendable
  BY <1>1
<1>3. line[k] \in Seq(Byte) /\ line[k + 1] \in Seq(Byte)
  BY <1>1, LineSteps
<1>4. line[k + 1] = line[k] \o next
  BY <1>1, LineSteps
<1>5. PICK rest \in Seq(Byte) : stream = line[k + 1] \o rest
  BY <1>1, LineGoesOn, Zenon
<1>6. next \in Seq(Byte)
  BY <1>2, BytesType, Zenon
<1> HIDE DEF line, next
<1>7. /\ p \in Nat /\ Len(line[k + 1]) = p + Len(next) /\ Len(next) \in Nat
      /\ stream = line[k] \o (next \o rest)
  <2>1. p \in Nat /\ Len(next) \in Nat
    BY <1>3, <1>6
  <2>2. Len(line[k + 1]) = p + Len(next)
    BY <1>3, <1>4, <1>6, JoinProperties
  <2>3. stream = line[k] \o (next \o rest)
    <3> DEFINE front == line[k]
    <3>1. front \in Seq(Byte)
      BY <1>3
    <3> HIDE DEF front
    <3>2. (front \o next) \o rest = front \o (next \o rest)
      BY <1>6, <3>1, ConcatAssociative
    <3>3. QED  BY <1>4, <1>5, <3>2 DEF front
  <2>4. QED  BY <2>1, <2>2, <2>3
<1>8. next \o rest \in Seq(Byte)
  BY <1>6, JoinProperties, Zenon
<1>9. Len(stream) = p + Len(next \o rest) /\ f = next \o rest
  <2> DEFINE front == line[k]
             behind == next \o rest
  <2>1. front \in Seq(Byte) /\ behind \in Seq(Byte) /\ stream = front \o behind /\ p = Len(front)
    BY <1>3, <1>7, <1>8
  <2> HIDE DEF front, behind
  <2>2. Len(stream) = p + Len(behind) /\ SubSeq(stream, p + 1, Len(stream)) = behind
    BY <2>1, BehindFront
  <2>3. QED  BY <2>2 DEF behind, ImplementsScan!From
<1> HIDE DEF f, p
<1>10. /\ Len(next) = FrameSize(f) /\ StartsFrame(f) /\ ParsedFrame(f) = sent[k + 1]
  BY <1>2, <1>9, SendableAccepted, Zenon DEF next
<1>11. p <= Len(stream)
  <2>1. Len(next \o rest) \in Nat
    BY <1>8
  <2>2. QED  BY <1>7, <1>9, <2>1
<1>12. QED  BY <1>7, <1>8, <1>9, <1>10, <1>11, Zenon DEF p, f, line

\* What was delivered of a line, and what not yet.
OnLine(sent) ==
  stream = Line(sent)[Len(sent)] =>
    /\ Len(delivered) <= Len(sent)
    /\ \A k \in 1..Len(delivered) : delivered[k].frame = sent[k]
    /\ Cursor = Len(Line(sent)[Len(delivered)])
    /\ bad_frames = 0
    /\ ~scanning /\ Len(delivered) < Len(sent) => fed < Len(Line(sent)[Len(delivered) + 1])

\* On a line no step of the parser leaves a byte out, and each delivery is the next frame.
LEMMA LineScan ==
  ASSUME FourByteCrc, IInv, NEW sent \in Seq(Sendable), OnLine(sent),
         stream = Line(sent)[Len(sent)]
  PROVE  /\ ImplementsScan!Skip => UNCHANGED << Cursor, delivered >>
         /\ ImplementsScan!Deliver =>
              /\ Len(delivered) < Len(sent)
              /\ Len(delivered') = Len(delivered) + 1
              /\ \A k \in 1..Len(delivered) : delivered'[k] = delivered[k]
              /\ delivered'[Len(delivered) + 1].frame = sent[Len(delivered) + 1]
              /\ Cursor' = Len(Line(sent)[Len(delivered) + 1])
<1> DEFINE n == Len(delivered)
           line == Line(sent)
           f == ImplementsScan!From(Cursor)
<1>1. /\ n \in Nat /\ Len(sent) \in Nat /\ n <= Len(sent) /\ Cursor = Len(line[n])
      /\ Cursor \in Nat /\ Len(stream) \in Nat /\ Cursor <= Len(stream)
      /\ delivered \in Seq(Delivery)
  BY Facts DEF OnLine, IInv, TypeOK
<1> HIDE DEF n, line
<1>2. ASSUME n < Len(sent)
      PROVE  /\ ImplementsScan!FrameAt(Cursor) /\ ParsedFrame(f) = sent[n + 1]
             /\ Len(line[n + 1]) = Cursor + FrameSize(f)
  <2>1. n \in 0..(Len(sent) - 1)
    BY <1>1, <1>2
  <2>2. /\ StartsFrame(f) /\ ParsedFrame(f) = sent[n + 1]
        /\ Len(line[n + 1]) = Cursor + FrameSize(f)
    BY <1>1, <2>1, NextOnLine, Zenon DEF line
  <2>3. QED  BY <2>2, SameWords, Zenon DEF ImplementsScan!FrameAt
<1>3. CASE n < Len(sent)
  <2>1. ASSUME ImplementsScan!Skip  PROVE UNCHANGED << Cursor, delivered >>
    <3>1. /\ Cursor' \in Cursor..Len(stream) /\ delivered' = delivered
          /\ \A i \in Cursor..(Cursor' - 1) : ~ImplementsScan!FrameAt(i)
      BY <2>1 DEF ImplementsScan!Skip, ImplementsScan!NoFrameBetween
    <3>2. Cursor \notin Cursor..(Cursor' - 1)
      BY <1>2, <1>3, <3>1
    <3>3. Cursor' = Cursor
      BY <1>1, <3>1, <3>2
    <3>4. QED  BY <3>1, <3>3
  <2>2. ASSUME ImplementsScan!Deliver
        PROVE  /\ Len(delivered') = n + 1
               /\ \A k \in 1..n : delivered'[k] = delivered[k]
               /\ delivered'[n + 1].frame = sent[n + 1]
               /\ Cursor' = Len(line[n + 1])
    <3>1. PICK p \in Cursor..Len(stream) :
            /\ \A i \in Cursor..(p - 1) : ~ImplementsScan!FrameAt(i)
            /\ delivered' = Append(delivered,
                 [at |-> p, frame |-> ImplementsScan!ParsedFrame(ImplementsScan!From(p))])
            /\ Cursor' = p + ImplementsScan!FrameSize(ImplementsScan!From(p))
      BY <2>2 DEF ImplementsScan!Deliver, ImplementsScan!NoFrameBetween
    <3>2. p = Cursor
      <4>1. Cursor \notin Cursor..(p - 1)
        BY <1>2, <1>3, <3>1
      <4>2. QED  BY <1>1, <4>1
    <3>3. /\ delivered' = Append(delivered, [at |-> Cursor, frame |-> sent[n + 1]])
          /\ Cursor' = Cursor + FrameSize(f)
      BY <1>2, <1>3, <3>1, <3>2, SameWords, Zenon
    <3> DEFINE d == [at |-> Cursor, frame |-> sent[n + 1]]
    <3>4. d.frame = sent[n + 1]
      OBVIOUS
    <3> HIDE DEF d
    <3>5. delivered' = Append(delivered, d)
      BY <3>3 DEF d
    <3>6. /\ Len(delivered') = n + 1 /\ delivered'[n + 1] = d
          /\ \A k \in 1..n : delivered'[k] = delivered[k]
      BY <1>1, <3>5 DEF n
    <3>7. QED  BY <1>2, <1>3, <3>3, <3>4, <3>6, Zenon
  <2>3. QED  BY <1>3, <2>1, <2>2, Zenon DEF n, line
<1>4. CASE ~(n < Len(sent))
  <2>1. n = Len(sent)
    BY <1>1, <1>4
  <2>2. Cursor = Len(stream)
    BY <1>1, <2>1 DEF line
  <2>3. ASSUME ImplementsScan!Skip  PROVE UNCHANGED << Cursor, delivered >>
    BY <1>1, <2>2, <2>3 DEF ImplementsScan!Skip
  <2>4. ASSUME ImplementsScan!Deliver  PROVE FALSE
    <3>1. PICK p \in Cursor..Len(stream) : ImplementsScan!FrameAt(p)
      BY <2>4 DEF ImplementsScan!Deliver
    <3>2. p = Len(stream)
      BY <1>1, <2>2
    <3>3. StartsFrame(ImplementsScan!From(p))
      BY <3>1, SameWords, Zenon DEF ImplementsScan!FrameAt
    <3>4. Len(ImplementsScan!From(p)) = 0
      BY <1>1, <3>2, Facts DEF ImplementsScan!From
    <3>5. QED  BY <3>3, <3>4, Facts DEF StartsFrame
  <2>5. QED  BY <2>3, <2>4, Zenon
<1>5. QED  BY <1>3, <1>4

\* The line begins with the first frame.
LEMMA LineStart ==
  ASSUME FourByteCrc, NEW sent \in Seq(Sendable)
  PROVE  /\ Len(Line(sent)[0]) = 0
         /\ 0 < Len(sent) => 0 < Len(Line(sent)[1])
<1>1. Line(sent)[0] = << >>
  BY LineSteps
<1>2. ASSUME 0 < Len(sent)  PROVE 0 < Len(Line(sent)[1])
  <2> DEFINE first == Bytes(sent[1])
  <2>1. 1 \in 1..Len(sent) /\ sent[1] \in Sendable
    BY <1>2
  <2>2. first \in Seq(Byte) /\ Len(first) \in Nat /\ Len(first) >= 14
    BY <2>1, BytesType DEF kMinFrameSize, kHeaderSize, kCrcSize
  <2>3. Line(sent)[1] = Line(sent)[1 - 1] \o first
    BY <2>1, LineSteps, Zenon
  <2> HIDE DEF first
  <2>4. Line(sent)[1] = << >> \o first
    <3>1. 1 - 1 = 0
      OBVIOUS
    <3>2. QED  BY <1>1, <2>3, <3>1, Zenon
  <2>5. Line(sent)[1] = first
    BY <2>2, <2>4, ConcatEmptySeq
  <2>6. QED  BY <2>2, <2>5
<1>3. QED  BY <1>1, <1>2, EmptySeq

\* The line only grows.
LEMMA LineGrows ==
  ASSUME FourByteCrc, NEW sent \in Seq(Sendable), NEW n \in 0..Len(sent), NEW k \in 0..n
  PROVE  Len(Line(sent)[k]) \in Nat /\ Len(Line(sent)[k]) <= Len(Line(sent)[n])
<1> DEFINE front == Line(sent)[k]
           all == Line(sent)[n]
<1>1. PICK rest \in Seq(Byte) : all = front \o rest
  BY LineGoesOn
<1>2. front \in Seq(Byte)
  <2>1. k \in 0..Len(sent)
    OBVIOUS
  <2>2. QED  BY <2>1, LineSteps, Zenon
<1> HIDE DEF front, all
<1>3. Len(all) = Len(front) + Len(rest) /\ Len(front) \in Nat /\ Len(rest) \in Nat
  BY <1>1, <1>2, JoinProperties
<1>4. QED  BY <1>3 DEF front, all

\* A step that delivers nothing leaves the cursor where it is.
LEMMA StaysOnLine ==
  ASSUME FourByteCrc, IInv, NEW sent \in Seq(Sendable), OnLine(sent),
         stream = Line(sent)[Len(sent)], [Next]_vars, delivered' = delivered
  PROVE  Cursor' = Cursor
<1>1. ImplementsScan!Next \/ UNCHANGED << stream, Cursor, delivered >>
  BY StepRefines DEF ImplementsScan!scanVars
<1>2. CASE ImplementsScan!Skip
  BY <1>2, LineScan, Zenon
<1>3. CASE ImplementsScan!Deliver
  <2>1. Len(delivered') = Len(delivered) + 1 /\ Len(delivered) \in Nat
    BY <1>3, LineScan DEF IInv, TypeOK
  <2>2. QED  BY <2>1
<1>4. CASE ImplementsScan!NewSession
  <2>1. Cursor' = 0 /\ Len(delivered) = 0
    BY <1>4, EmptySeq DEF ImplementsScan!NewSession
  <2>2. Cursor = Len(Line(sent)[0])
    BY <2>1 DEF OnLine
  <2>3. QED  BY <2>1, <2>2, LineStart
<1>5. QED  BY <1>1, <1>2, <1>3, <1>4 DEF ImplementsScan!Next

\* What the header in the buffer says of the frame that comes next on the line.
LEMMA NextInBuffer ==
  ASSUME FourByteCrc, IInv, NEW sent \in Seq(Sendable), OnLine(sent),
         stream = Line(sent)[Len(sent)], Len(delivered) < Len(sent)
  PROVE  LET next == Len(Line(sent)[Len(delivered) + 1]) IN
           /\ next \in Nat
           /\ Len(buffer) < kMinFrameSize => fed < next
           /\ Len(buffer) >= kMinFrameSize => next = Cursor + FrameSize(buffer)
<1> DEFINE n == Len(delivered)
           f == ImplementsScan!From(Cursor)
           next == Len(Line(sent)[n + 1])
<1>1. n \in 0..(Len(sent) - 1) /\ Cursor = Len(Line(sent)[n])
  BY DEF OnLine, IInv, TypeOK
<1>2. f \in Seq(Byte) /\ StartsFrame(f) /\ next = Cursor + FrameSize(f)
  BY <1>1, NextOnLine, Zenon
<1> HIDE DEF f, next
<1>3. FrameSize(f) \in Nat /\ FrameSize(f) >= kMinFrameSize
  BY <1>2, HeaderTypes DEF StartsFrame
<1>4. next \in Nat /\ (Len(buffer) < kMinFrameSize => fed < next)
  BY <1>2, <1>3, Facts
<1>5. ASSUME Len(buffer) >= kMinFrameSize  PROVE FrameSize(buffer) = FrameSize(f)
  <2>1. 0 \in 0..Len(buffer) /\ Cursor + 0 = Cursor /\ Len(buffer) - 0 = Len(buffer)
    BY Facts
  <2>2. /\ f = ImplementsScan!From(Cursor + 0)
        /\ Len(f) = Len(stream) - (Cursor + 0)
        /\ DropFirst(buffer, 0) = SubSeq(f, 1, Len(buffer) - 0)
    BY <2>1, FromBuffer, Zenon DEF f
  <2>3. DropFirst(buffer, 0) = buffer
    BY Facts, SubSeqFull DEF DropFirst
  <2>4. buffer = SubSeq(f, 1, Len(buffer))
    BY <2>1, <2>2, <2>3, Zenon
  <2>5. Len(buffer) \in kMinFrameSize..Len(f)
    BY <1>5, <2>2, Facts
  <2>6. buffer \in Seq(Byte)
    BY Facts
  <2>7. QED  BY <1>2, <2>4, <2>5, <2>6, FrameOfPrefix, Zenon
<1>6. QED  BY <1>2, <1>4, <1>5, Zenon DEF next

\* What a session begins with lies on every line.
LEMMA OnLineInit ==
  ASSUME FourByteCrc, NEW sent \in Seq(Sendable), Init  PROVE OnLine(sent)
<1>1. fed = 0 /\ Len(buffer) = 0 /\ Len(delivered) = 0 /\ bad_frames = 0 /\ Cursor = 0
  <2>1. fed = 0 /\ buffer = << >> /\ delivered = << >> /\ bad_frames = 0
    BY DEF Init
  <2>2. fed = 0 /\ Len(buffer) = 0 /\ Len(delivered) = 0
    BY <2>1, EmptySeq, Zenon
  <2>3. Cursor = 0
    BY <2>2 DEF Cursor
  <2>4. QED  BY <2>1, <2>2, <2>3, Zenon
<1>2. Len(sent) \in Nat
  OBVIOUS
<1>3. QED  BY <1>1, <1>2, LineStart DEF OnLine

\* The parser stays on the line: it steps over nothing, rejects nothing, and leaves its loop
\* only when the next frame has not arrived (frame_parser.cpp:33-104).
LEMMA OnLineStep ==
  ASSUME FourByteCrc, NEW sent \in Seq(Sendable), IInv, OnLine(sent), [Next]_vars
  PROVE  OnLine(sent)'
<1> DEFINE n == Len(delivered)
           line == Line(sent)
<1> SUFFICES ASSUME stream' = line[Len(sent)]
             PROVE  /\ Len(delivered') <= Len(sent)
                    /\ \A k \in 1..Len(delivered') : delivered'[k].frame = sent[k]
                    /\ Cursor' = Len(line[Len(delivered')])
                    /\ bad_frames' = 0
                    /\ ~scanning' /\ Len(delivered') < Len(sent) =>
                         fed' < Len(line[Len(delivered') + 1])
  BY DEF OnLine
<1>1. CASE Reset
  <2>1. fed' = 0 /\ Len(buffer') = 0 /\ Len(delivered') = 0 /\ bad_frames' = 0
    <3>1. fed' = 0 /\ buffer' = << >> /\ delivered' = << >> /\ bad_frames' = 0
      BY <1>1 DEF Reset
    <3>2. QED  BY <3>1, EmptySeq, Zenon
  <2>2. Cursor' = 0
    BY <2>1 DEF Cursor
  <2>3. Len(sent) \in Nat
    OBVIOUS
  <2>4. QED  BY <2>1, <2>2, <2>3, LineStart
<1>2. CASE UNCHANGED vars
  BY <1>2 DEF vars, OnLine, Cursor
<1>3. ASSUME NEW m \in 1..ReadSize, Feed(m)
      PROVE  /\ stream' = stream /\ delivered' = delivered /\ bad_frames' = bad_frames
             /\ Cursor' = Cursor /\ scanning'
  BY <1>3, FeedKeepsAll DEF Feed
<1>4. CASE \E m \in 1..ReadSize : Feed(m)
  BY <1>3, <1>4 DEF OnLine
<1>5. CASE Scan
  <2>1. stream' = stream /\ fed' = fed /\ stream = line[Len(sent)]
    BY <1>5, ScanDrops
  <2>2. /\ n <= Len(sent) /\ n \in Nat
        /\ \A k \in 1..n : delivered[k].frame = sent[k]
        /\ Cursor = Len(line[n]) /\ bad_frames = 0
    BY <2>1 DEF OnLine, IInv, TypeOK
  <2>3. ASSUME delivered' = delivered
        PROVE  Len(buffer') = Len(buffer) /\ Cursor' = Cursor
    <3>1. Cursor' = Cursor
      BY <2>1, <2>3, StaysOnLine, Zenon
    <3>2. PICK d \in 0..Len(buffer) : buffer' = DropFirst(buffer, d)
      BY <1>5, ScanDrops
    <3>3. Len(buffer') \in Nat
      BY <3>2, WindowAfterDrop
    <3>4. QED  BY <2>1, <3>1, <3>3, Facts DEF Cursor
  <2>4. ASSUME delivered' = delivered, bad_frames' = bad_frames,
               ~scanning' /\ n < Len(sent) => fed < Len(line[n + 1])
        PROVE  /\ Len(delivered') <= Len(sent)
               /\ \A k \in 1..Len(delivered') : delivered'[k].frame = sent[k]
               /\ Cursor' = Len(line[Len(delivered')])
               /\ bad_frames' = 0
               /\ ~scanning' /\ Len(delivered') < Len(sent) =>
                    fed' < Len(line[Len(delivered') + 1])
    BY <2>1, <2>2, <2>3, <2>4, Zenon
  <2>5. CASE TooShort
    <3>1. n < Len(sent) => fed < Len(line[n + 1])
      BY <2>1, <2>5, NextInBuffer DEF TooShort
    <3>2. QED  BY <2>4, <2>5, <3>1 DEF TooShort
  <2>6. ~NoMagic
    <3> SUFFICES ASSUME NoMagic  PROVE FALSE
      OBVIOUS
    <3>1. buffer' = KeepLast(buffer, 1) /\ Len(buffer) >= 14 /\ delivered' = delivered
      BY Facts DEF NoMagic
    <3>2. KeepLast(buffer, 1) = DropFirst(buffer, Len(buffer) - 1)
      BY <3>1, Facts DEF KeepLast
    <3>3. Len(buffer) - 1 \in 0..Len(buffer)
      BY <3>1, Facts
    <3>4. Len(buffer') = Len(buffer) - (Len(buffer) - 1)
      BY <3>1, <3>2, <3>3, WindowAfterDrop, Zenon
    <3>5. Len(buffer') = Len(buffer)
      BY <2>3, <3>1, Zenon
    <3>6. Len(buffer) \in Nat /\ Len(buffer) >= 14
      BY <3>1, Facts
    <3> DEFINE old == Len(buffer)
               new == Len(buffer')
    <3>7. new = old - (old - 1) /\ new = old /\ old \in Nat /\ old >= 14
      BY <3>4, <3>5, <3>6, Zenon
    <3> HIDE DEF old, new
    <3>8. QED  BY ONLY <3>7, SMT
  <2>7. ~RejectFrame
    <3> SUFFICES ASSUME RejectFrame  PROVE FALSE
      OBVIOUS
    <3>1. MagicPositions(buffer) # {} /\ Len(Aligned(buffer)) >= kMinFrameSize
      BY DEF RejectFrame, FindsMagic
    <3>2. buffer' = DropFirst(Aligned(buffer), 1) /\ delivered' = delivered
      BY DEF RejectFrame, PopFront
    <3>3. PICK k \in 0..(Len(buffer) - 2) :
            Aligned(buffer) \in Seq(Byte) /\ Len(Aligned(buffer)) = Len(buffer) - k
      BY <3>1, AlignedWindow
    <3>4. 1 \in 0..Len(Aligned(buffer))
      BY <3>1, <3>3, Facts
    <3>5. Len(buffer') = Len(Aligned(buffer)) - 1
      BY <3>2, <3>3, <3>4, DropFirstProperties, Zenon
    <3>6. Len(buffer') = Len(buffer)
      BY <2>3, <3>2, Zenon
    <3>7. QED  BY <3>3, <3>5, <3>6, Facts
  <2>8. CASE AwaitBytes
    <3> DEFINE b == Aligned(buffer)
    <3>1. /\ MagicPositions(buffer) # {} /\ Len(buffer) >= kMinFrameSize /\ buffer' = b
          /\ \/ Len(b) < kMinFrameSize
             \/ Len(b) < FrameSize(b)
          /\ delivered' = delivered /\ bad_frames' = bad_frames
      BY <2>8 DEF AwaitBytes, FindsMagic
    <3>2. PICK k \in 0..(Len(buffer) - 2) : b = DropFirst(buffer, k) /\ Len(b) = Len(buffer) - k
      BY <3>1, AlignedWindow
    <3>3. Len(b) = Len(buffer)
      BY <2>3, <3>1
    <3>4. k = 0
      BY <3>2, <3>3, Facts
    <3>5. b = buffer
      BY <3>2, <3>4, Facts, SubSeqFull DEF DropFirst
    <3> HIDE DEF b
    <3>6. Len(buffer) < FrameSize(buffer)
      BY <3>1, <3>5, Facts
    <3>7. FrameSize(buffer) \in Nat
      BY <3>1, Facts, HeaderTypes
    <3>8. n < Len(sent) => fed < Len(line[n + 1])
      <4>1. n < Len(sent) => Len(line[n + 1]) = Cursor + FrameSize(buffer)
        BY <2>1, <3>1, NextInBuffer
      <4> HIDE DEF line, n
      <4>2. QED  BY <3>6, <3>7, <4>1, Facts
    <3>9. QED  BY <2>4, <3>1, <3>8
  <2>9. CASE AcceptFrame
    <3>1. scanning' /\ bad_frames' = bad_frames
      BY <2>9 DEF AcceptFrame, FindsMagic
    <3>2. Len(delivered') = n + 1
      <4> DEFINE d == [at |-> fed - Len(Aligned(buffer)), frame |-> ParsedFrame(Aligned(buffer))]
      <4>1. delivered' = Append(delivered, d)
        BY <2>9 DEF AcceptFrame
      <4> HIDE DEF d
      <4>2. delivered \in Seq(Delivery)
        BY DEF IInv, TypeOK
      <4>3. delivered' \in Seq(Delivery)
        BY IInvStep DEF IInv, TypeOK
      <4>4. QED  BY <4>1, <4>2
    <3>3. ImplementsScan!Deliver
      <4>1. ImplementsScan!Next \/ UNCHANGED << stream, Cursor, delivered >>
        BY StepRefines DEF ImplementsScan!scanVars
      <4>2. delivered' # delivered /\ Len(delivered') # 0
        BY <2>2, <3>2
      <4>3. ~ImplementsScan!Skip /\ ~ImplementsScan!NewSession
        BY <4>2, EmptySeq DEF ImplementsScan!Skip, ImplementsScan!NewSession
      <4>4. QED  BY <4>1, <4>2, <4>3 DEF ImplementsScan!Next
    <3>4. /\ n < Len(sent)
          /\ \A k \in 1..n : delivered'[k] = delivered[k]
          /\ delivered'[n + 1].frame = sent[n + 1]
          /\ Cursor' = Len(line[n + 1])
      BY <2>1, <3>3, LineScan, Zenon
    <3>5. ASSUME NEW k \in 1..Len(delivered')  PROVE delivered'[k].frame = sent[k]
      <4>1. k \in 1..n \/ k = n + 1
        BY <2>2, <3>2
      <4>2. QED  BY <2>2, <3>4, <4>1
    <3>6. n + 1 <= Len(sent)
      BY <2>2, <3>4
    <3>7. QED  BY <2>2, <3>1, <3>2, <3>4, <3>5, <3>6
  <2>10. QED  BY <1>5, <2>5, <2>6, <2>7, <2>8, <2>9 DEF Scan
<1>6. QED  BY <1>1, <1>2, <1>4, <1>5 DEF Next

\* Every frame of every line that may be sent arrives, in order, once, as it was sent, and
\* with its last byte (protocol.cpp:42-59 against frame_parser.cpp:23-104).
THEOREM CleanLink == ASSUME FourByteCrc PROVE Spec => []CleanLinkDelivers
<1> DEFINE OnAnyLine == \A sent \in Sent : OnLine(sent)
<1>1. Init => OnAnyLine
  BY SentAssumption, OnLineInit
<1>2. IInv /\ OnAnyLine /\ [Next]_vars => OnAnyLine'
  <2> SUFFICES ASSUME IInv, OnAnyLine, [Next]_vars, NEW sent \in Sent  PROVE OnLine(sent)'
    OBVIOUS
  <2>1. sent \in Seq(Sendable) /\ OnLine(sent)
    BY SentAssumption
  <2>2. QED  BY <2>1, OnLineStep
<1>3. IInv /\ OnAnyLine => CleanLinkDelivers
  <2> SUFFICES ASSUME IInv, NEW sent \in Sent, OnLine(sent), stream = Line(sent)[Len(sent)]
               PROVE  /\ Len(delivered) <= Len(sent)
                      /\ \A k \in DOMAIN delivered : delivered[k].frame = sent[k]
                      /\ bad_frames = 0
                      /\ ~scanning => \A k \in DOMAIN sent :
                           Len(Line(sent)[k]) <= fed => k <= Len(delivered)
    BY DEF CleanLinkDelivers
  <2>1. sent \in Seq(Sendable)
    BY SentAssumption
  <2>2. delivered \in Seq(Delivery) /\ fed \in Nat
    BY Facts DEF IInv, TypeOK
  <2>3. /\ Len(delivered) <= Len(sent) /\ bad_frames = 0
        /\ \A k \in DOMAIN delivered : delivered[k].frame = sent[k]
    BY <2>2 DEF OnLine
  <2>4. ASSUME ~scanning, NEW k \in DOMAIN sent, Len(Line(sent)[k]) <= fed,
               ~(k <= Len(delivered))
        PROVE  FALSE
    <3>1. /\ Len(delivered) < Len(sent) /\ k \in 0..Len(sent) /\ Len(delivered) + 1 \in 0..k
      BY <2>1, <2>2, <2>4
    <3>2. fed < Len(Line(sent)[Len(delivered) + 1])
      BY <2>4, <3>1 DEF OnLine
    <3>3. /\ Len(Line(sent)[Len(delivered) + 1]) \in Nat
          /\ Len(Line(sent)[Len(delivered) + 1]) <= Len(Line(sent)[k])
      BY <2>1, <3>1, LineGrows, Zenon
    <3>4. Len(Line(sent)[k]) \in Nat
      <4>1. k \in 0..k
        BY <3>1
      <4>2. QED  BY <2>1, <3>1, <4>1, LineGrows, Zenon
    <3>5. QED  BY <2>2, <2>4, <3>2, <3>3, <3>4
  <2>5. QED  BY <2>3, <2>4, Zenon
<1>4. QED  BY <1>1, <1>2, <1>3, Invariance, PTL DEF Spec

-----------------------------------------------------------------------------
(* Frames behind noise *)

\* The stretch of the session a delivery was taken from holds the byte behind i others.
Covers(d, i) == d.at <= i /\ i < d.at + FrameSize(ImplementsScan!From(d.at))

\* A frame that was passed over is part of one that was delivered.
NonePassedOver ==
  \A i \in 0..(Cursor - 1) :
    ImplementsScan!FrameAt(i) => \E k \in 1..Len(delivered) : Covers(delivered[k], i)

\* Only a delivery passes over a frame: its own, or one in its bytes.
LEMMA PassedStep == IInv /\ NonePassedOver /\ [Next]_vars => NonePassedOver'
<1> SUFFICES ASSUME IInv, NonePassedOver, [Next]_vars  PROVE NonePassedOver'
  OBVIOUS
<1>1. ImplementsScan!Next \/ UNCHANGED << stream, Cursor, delivered >>
  BY StepRefines DEF ImplementsScan!scanVars
<1>2. /\ Cursor \in Nat /\ Len(stream) \in Nat
      /\ delivered \in Seq(Delivery) /\ delivered' \in Seq(Delivery)
  BY Facts, IInvStep DEF IInv, TypeOK
<1>3. CASE UNCHANGED << stream, Cursor, delivered >>
  BY <1>3 DEF NonePassedOver, Covers, ImplementsScan!FrameAt, ImplementsScan!From
<1>4. CASE ImplementsScan!NewSession
  <2>1. Cursor' = 0
    BY <1>4 DEF ImplementsScan!NewSession
  <2>2. 0..(Cursor' - 1) = {}
    BY <2>1
  <2>3. QED  BY <2>2, Zenon DEF NonePassedOver
<1>5. CASE ImplementsScan!Skip
  <2>1. /\ stream' = stream /\ delivered' = delivered /\ Cursor' \in Cursor..Len(stream)
        /\ \A i \in Cursor..(Cursor' - 1) : ~ImplementsScan!FrameAt(i)
    BY <1>5 DEF ImplementsScan!Skip, ImplementsScan!NoFrameBetween
  <2>2. \A c \in Nat, i, m \in Int : i \in 0..m => i \in 0..(c - 1) \/ i \in c..m
    OBVIOUS
  <2>3. Cursor' \in Nat /\ Cursor' - 1 \in Int
    BY <1>2, <2>1
  <2>4. \A i \in 0..(Cursor' - 1) : i \in 0..(Cursor - 1) \/ i \in Cursor..(Cursor' - 1)
    <3> TAKE i \in 0..(Cursor' - 1)
    <3>1. i \in Int
      OBVIOUS
    <3>2. QED  BY <1>2, <2>2, <2>3, <3>1, Zenon
  <2>5. QED
    BY <2>1, <2>4 DEF NonePassedOver, Covers, ImplementsScan!FrameAt, ImplementsScan!From
<1>6. CASE ImplementsScan!Deliver
  <2>1. PICK p \in Cursor..Len(stream) :
          /\ \A i \in Cursor..(p - 1) : ~ImplementsScan!FrameAt(i)
          /\ delivered' = Append(delivered,
               [at |-> p, frame |-> ImplementsScan!ParsedFrame(ImplementsScan!From(p))])
          /\ Cursor' = p + ImplementsScan!FrameSize(ImplementsScan!From(p))
    BY <1>6 DEF ImplementsScan!Deliver, ImplementsScan!NoFrameBetween
  <2> DEFINE d == [at |-> p, frame |-> ImplementsScan!ParsedFrame(ImplementsScan!From(p))]
             n == Len(delivered)
  <2>2. d.at = p /\ delivered' = Append(delivered, d)
    BY <2>1
  <2> HIDE DEF d
  <2>3. /\ n \in Nat /\ Len(delivered') = n + 1 /\ delivered'[n + 1] = d
        /\ \A k \in 1..n : delivered'[k] = delivered[k]
    BY <1>2, <2>2
  <2>4. stream' = stream /\ Cursor' = p + FrameSize(ImplementsScan!From(p))
    BY <1>6, <2>1, SameWords DEF ImplementsScan!Deliver
  <2> SUFFICES ASSUME NEW i \in 0..(Cursor' - 1), ImplementsScan!FrameAt(i)
               PROVE  \E k \in 1..Len(delivered') : Covers(delivered'[k], i)
    BY <2>4 DEF NonePassedOver, Covers, ImplementsScan!FrameAt, ImplementsScan!From
  <2>5. CASE i < Cursor
    <3>1. i \in 0..(Cursor - 1)
      BY <1>2, <2>5
    <3>2. PICK k \in 1..n : Covers(delivered[k], i)
      BY <3>1 DEF NonePassedOver
    <3>3. k \in 1..Len(delivered') /\ delivered'[k] = delivered[k]
      BY <2>3
    <3>4. QED  BY <3>2, <3>3, Zenon
  <2>6. CASE ~(i < Cursor)
    <3>1. i \notin Cursor..(p - 1)
      BY <2>1
    <3>2. p <= i /\ i < p + FrameSize(ImplementsScan!From(p))
      BY <1>2, <2>4, <2>6, <3>1
    <3>3. Covers(d, i)
      BY <2>2, <3>2 DEF Covers
    <3>4. n + 1 \in 1..Len(delivered')
      BY <2>3
    <3>5. QED  BY <2>3, <3>3, <3>4, Zenon
  <2>7. QED  BY <2>5, <2>6
<1>7. QED  BY <1>1, <1>3, <1>4, <1>5, <1>6 DEF ImplementsScan!Next

\* A frame that stands whole in the session is found there, as it was sent.
LEMMA StandsIsFound ==
  ASSUME FourByteCrc, stream \in Seq(Byte), NEW f \in Sendable, NEW p \in Nat, Stands(f, p)
  PROVE  /\ ImplementsScan!FrameAt(p)
         /\ ParsedFrame(ImplementsScan!From(p)) = f
<1> DEFINE bytes == Bytes(f)
           n == Len(bytes)
           rest == SubSeq(stream, p + n + 1, Len(stream))
<1>1. bytes \in Seq(Byte) /\ n \in Nat
  BY BytesType, Zenon
<1>2. p + n <= Len(stream) /\ SubSeq(stream, p + 1, p + n) = bytes
  BY DEF Stands
<1> HIDE DEF bytes, n
<1>3. Len(stream) \in Nat
  OBVIOUS
<1>4. ImplementsScan!From(p) = bytes \o rest
  <2>1. /\ p + 1 \in 1..(Len(stream) + 1) /\ p + n \in ((p + 1) - 1)..Len(stream)
        /\ Len(stream) \in (p + n)..Len(stream)
    BY <1>1, <1>2, <1>3
  <2>2. SubSeq(stream, p + 1, p + n) \o SubSeq(stream, p + n + 1, Len(stream))
          = SubSeq(stream, p + 1, Len(stream))
    BY <2>1, ConcatAdjacentSubSeq
  <2>3. QED  BY <1>2, <2>2 DEF ImplementsScan!From
<1>5. rest \in Seq(Byte)
  <2>1. p + n + 1 \in Nat /\ \A i \in (p + n + 1)..Len(stream) : stream[i] \in Byte
    BY <1>1, <1>2, <1>3
  <2>2. QED  BY <1>3, <2>1, SubSeqProperties
<1> HIDE DEF rest
<1>6. StartsFrame(ImplementsScan!From(p)) /\ ParsedFrame(ImplementsScan!From(p)) = f
  BY <1>4, <1>5, SendableAccepted, Zenon DEF bytes
<1>7. QED  BY <1>6, SameWords, Zenon DEF ImplementsScan!FrameAt

\* A delivered frame has as many bytes as the stretch it was taken from.
LEMMA DeliveredSize ==
  ASSUME IInv, DeliveredWereFound, NEW k \in 1..Len(delivered)
  PROVE  LET d == delivered[k] IN Len(Bytes(d.frame)) = FrameSize(ImplementsScan!From(d.at))
<1> DEFINE at == delivered[k].at
           frame == delivered[k].frame
           f == ImplementsScan!From(at)
<1>1. at \in 0..Len(stream) /\ ImplementsScan!FrameAt(at) /\ frame = ParsedFrame(f)
  BY Zenon DEF DeliveredWereFound
<1>2. f \in Seq(Byte)
  <2>1. stream \in Seq(Byte) /\ Len(stream) \in Nat
    BY Facts
  <2> HIDE DEF at
  <2>2. \A i \in (at + 1)..Len(stream) : stream[i] \in Byte
    BY <1>1, <2>1
  <2>3. SubSeq(stream, at + 1, Len(stream)) \in Seq(Byte)
    BY <1>1, <2>1, <2>2, SubSeqProperties
  <2>4. QED  BY <2>3 DEF ImplementsScan!From
<1>3. StartsFrame(f)
  BY <1>1, SameWords, Zenon DEF ImplementsScan!FrameAt
<1>4. Bytes(frame) = EncodeFrame(frame.type, frame.sequence, frame.payload)
  BY Zenon DEF Bytes
<1> HIDE DEF at, frame, f
<1>5. Bytes(frame) = SubSeq(f, 1, FrameSize(f))
  BY <1>1, <1>2, <1>3, <1>4, AcceptedFrameReencodes, Zenon
<1>6. FrameSize(f) \in Nat /\ FrameSize(f) <= Len(f)
  BY <1>2, <1>3, HeaderTypes DEF StartsFrame
<1>7. Len(SubSeq(f, 1, FrameSize(f))) = FrameSize(f)
  BY <1>2, <1>6, SubSeqProperties
<1>8. QED  BY <1>5, <1>7, Zenon DEF at, frame, f

\* Noise, damage and cut frames cost no other frame, and hold one back by less than one
\* maximal frame (frame_parser.cpp:33-104, serial_transport.cpp:137-149).
THEOREM DamageDelays == ASSUME FourByteCrc PROVE Spec => []DamageOnlyDelays
<1>1. Init => DeliveredWereFound /\ NonePassedOver
  <2> SUFFICES ASSUME Init  PROVE DeliveredWereFound /\ NonePassedOver
    OBVIOUS
  <2>1. fed = 0 /\ Len(buffer) = 0
    BY EmptySeq, Zenon DEF Init
  <2>2. Cursor = 0
    BY <2>1 DEF Cursor
  <2>3. 0..(Cursor - 1) = {}
    BY <2>2
  <2>4. NonePassedOver
    BY <2>3, Zenon DEF NonePassedOver
  <2>5. QED  BY <2>4, FoundInit DEF Init
<1>2. IInv /\ DeliveredWereFound /\ NonePassedOver => DamageOnlyDelays
  <2> SUFFICES ASSUME IInv, DeliveredWereFound, NonePassedOver, ~scanning,
                      NEW sent \in Sent, NEW j \in DOMAIN sent,
                      NEW p \in 0..(fed - MaxFrameSize), Stands(sent[j], p)
               PROVE  \E k \in DOMAIN delivered :
                        LET d == delivered[k]
                        IN  \/ d = [at |-> p, frame |-> sent[j]]
                            \/ d.at < p /\ p < d.at + Len(Bytes(d.frame))
    BY DEF DamageOnlyDelays
  <2>1. sent[j] \in Sendable
    BY SentAssumption
  <2>2. stream \in Seq(Byte) /\ p \in Nat /\ p \in 0..(Cursor - 1)
    BY Facts DEF IInv, HeldBytesBounded
  <2>3. ImplementsScan!FrameAt(p) /\ ParsedFrame(ImplementsScan!From(p)) = sent[j]
    BY <2>1, <2>2, StandsIsFound, Zenon
  <2>4. PICK k \in 1..Len(delivered) : Covers(delivered[k], p)
    BY <2>2, <2>3, Zenon DEF NonePassedOver
  <2> DEFINE d == delivered[k]
  <2>5. d \in Delivery /\ k \in DOMAIN delivered /\ d.at \in Nat
    <3>1. delivered \in Seq(Delivery)
      BY DEF IInv, TypeOK
    <3>2. DOMAIN delivered = 1..Len(delivered)
      BY <3>1
    <3>3. d \in Delivery /\ k \in DOMAIN delivered
      BY <3>1, <3>2
    <3>4. QED  BY <3>3 DEF Delivery
  <2>6. d.frame = ParsedFrame(ImplementsScan!From(d.at))
    BY Zenon DEF DeliveredWereFound
  <2>7. Len(Bytes(d.frame)) = FrameSize(ImplementsScan!From(d.at))
    BY DeliveredSize, Zenon
  <2>8. d = [at |-> d.at, frame |-> d.frame]
    BY <2>5 DEF Delivery
  <2> HIDE DEF d
  <2>9. d.at <= p /\ p < d.at + Len(Bytes(d.frame))
    BY <2>4, <2>7 DEF Covers, d
  <2>10. CASE d.at = p
    BY <2>3, <2>5, <2>6, <2>8, <2>10, Zenon DEF d
  <2>11. CASE d.at # p
    <3>1. d.at < p
      BY <2>2, <2>5, <2>9, <2>11
    <3>2. QED  BY <2>5, <2>9, <3>1, Zenon DEF d
  <2>12. QED  BY <2>10, <2>11
<1>3. QED  BY <1>1, <1>2, FoundStep, PassedStep, Invariance, PTL DEF Spec
=============================================================================
