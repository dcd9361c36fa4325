----------------------------- MODULE FrameParser -----------------------------
(***************************************************************************)
(* FrameParser (frame_parser.hpp, frame_parser.cpp) as the reader thread   *)
(* drives it.  The bytes of a serial session reach feed() in chunks of any *)
(* size the read buffer allows; one call of feed() is Feed, which appends  *)
(* the chunk, followed by the iterations of its while loop, one action for *)
(* each way an iteration can end.  buffer_ is private to the reader        *)
(* thread, so nothing else runs between them that could be noticed.        *)
(*                                                                         *)
(* stream, fed and delivered are not in the code: stream is the session's  *)
(* byte string, fed the number of its bytes read so far, delivered all     *)
(* frames of the session that feed() returned, each with its place.        *)
(***************************************************************************)
EXTENDS FrameFormat

CONSTANTS
  Streams,    \* the byte strings a session may carry
  ReadSize,   \* the reader thread's buffer: 4096 in the code
  CapSlack    \* what kMaxBufferedBytes allows beyond one frame: 4096

ASSUME ParserAssumption ==
  /\ Streams \subseteq Seq(Byte)
  /\ ReadSize \in Nat \ {0}
  /\ CapSlack \in Nat
  /\ ReadSize <= CapSlack

VARIABLES
  stream,
  fed,
  buffer,       \* buffer_
  scanning,     \* feed() is inside its while loop
  delivered,
  bad_frames    \* bad_frames_

vars == << stream, fed, buffer, scanning, delivered, bad_frames >>

\* Variant: no room for what a read brings beyond one frame.
TightCap == MaxPayload + kHeaderSize + kCrcSize

kMaxBufferedBytes == MaxPayload + kHeaderSize + kCrcSize + CapSlack

-----------------------------------------------------------------------------
(* Ends of a byte string. *)

DropFirst(b, n) == SubSeq(b, n + 1, Len(b))

\* Variants of KeepLast: nothing trimmed, the wrong end kept, everything cleared.
KeepAll(b, n)   == b
KeepFirst(b, n) == IF Len(b) > n THEN SubSeq(b, 1, n) ELSE b
KeepNone(b, n)  == IF Len(b) > n THEN << >> ELSE b

KeepLast(b, n) == IF Len(b) > n THEN DropFirst(b, Len(b) - n) ELSE b

MagicPositions(b) ==
  { i \in 1..(Len(b) - 1) : b[i] = kMagic0 /\ b[i + 1] = kMagic1 }

\* The buffer from its first magic on.
Aligned(b) ==
  LET first == CHOOSE i \in MagicPositions(b) :
                  \A j \in MagicPositions(b) : i <= j
  IN  DropFirst(b, first - 1)

-----------------------------------------------------------------------------
Init ==
  /\ stream \in Streams
  /\ fed = 0
  /\ buffer = << >>
  /\ scanning = FALSE
  /\ delivered = << >>
  /\ bad_frames = 0

\* reset(), called when the port was opened: a new session's bytes follow.
Reset ==
  /\ ~scanning
  /\ stream' \in Streams
  /\ fed' = 0
  /\ buffer' = << >>
  /\ delivered' = << >>
  /\ bad_frames' = 0
  /\ UNCHANGED scanning

\* feed(data, n): append the chunk, then drop from the front what exceeds the cap.
Feed(n) ==
  /\ ~scanning
  /\ fed + n <= Len(stream)
  /\ fed' = fed + n
  /\ buffer' = KeepLast(buffer \o SubSeq(stream, fed + 1, fed + n), kMaxBufferedBytes)
  /\ scanning' = TRUE
  /\ UNCHANGED << stream, delivered, bad_frames >>

\* Variant: the loop does not end when the buffer is too short for a frame.
TooShortContinues == scanning /\ Len(buffer) < kMinFrameSize /\ UNCHANGED vars

\* The loop condition fails: not even an empty frame fits.
TooShort ==
  /\ scanning
  /\ Len(buffer) < kMinFrameSize
  /\ scanning' = FALSE
  /\ UNCHANGED << stream, fed, buffer, delivered, bad_frames >>

\* No magic: keep the last byte, it may be the first half of one.
NoMagic ==
  /\ scanning
  /\ Len(buffer) >= kMinFrameSize
  /\ MagicPositions(buffer) = {}
  /\ buffer' = KeepLast(buffer, 1)
  /\ scanning' = FALSE
  /\ UNCHANGED << stream, fed, delivered, bad_frames >>

\* An iteration that finds a magic and erases what stands before it.
FindsMagic ==
  /\ scanning
  /\ Len(buffer) >= kMinFrameSize
  /\ MagicPositions(buffer) # {}
  /\ UNCHANGED << stream, fed >>

\* The rest of the header, or of the frame, has not arrived.
AwaitBytes ==
  /\ FindsMagic
  /\ LET b == Aligned(buffer) IN
       /\ \/ Len(b) < kMinFrameSize
          \/ Len(b) >= kMinFrameSize /\ HeaderOK(b) /\ Len(b) < FrameSize(b)
       /\ buffer' = b
  /\ scanning' = FALSE
  /\ UNCHANGED << delivered, bad_frames >>

\* Variant: a frame whose CRC is wrong is erased as far as its length says.
DropBad(b) == DropFirst(b, IF HeaderOK(b) THEN FrameSize(b) ELSE 1)

\* Variant: the search goes on without a byte being dropped.
DropNone(b) == b

\* The search for a magic goes on behind the first byte.
PopFront(b) == DropFirst(b, 1)

\* Wrong version, impossible length or CRC mismatch: drop exactly one byte.
RejectFrame ==
  /\ FindsMagic
  /\ LET b == Aligned(buffer) IN
       /\ Len(b) >= kMinFrameSize
       /\ \/ ~HeaderOK(b)
          \/ HeaderOK(b) /\ Len(b) >= FrameSize(b) /\ ~CrcOK(b)
       /\ buffer' = PopFront(b)
  /\ bad_frames' = bad_frames + 1
  /\ UNCHANGED << scanning, delivered >>

\* A frame that passes every check is returned and its bytes are erased.
AcceptFrame ==
  /\ FindsMagic
  /\ LET b == Aligned(buffer) IN
       /\ StartsFrame(b)
       /\ buffer' = DropFirst(b, FrameSize(b))
       /\ delivered' = Append(delivered, [at |-> fed - Len(b), frame |-> ParsedFrame(b)])
  /\ UNCHANGED << scanning, bad_frames >>

Scan == TooShort \/ NoMagic \/ AwaitBytes \/ RejectFrame \/ AcceptFrame

Next ==
  \/ Reset
  \/ \E n \in 1..ReadSize : Feed(n)
  \/ Scan

Spec == Init /\ [][Next]_vars

\* The loop is plain code of the running reader thread: it does not stop half-way.
FairSpec == Spec /\ WF_vars(Scan)

-----------------------------------------------------------------------------
(* Properties *)

\* Where the first byte of the buffer stands in the session.
Cursor == fed - Len(buffer)

Delivery == [at : Nat, frame : [type : Byte, sequence : Nat, payload : Seq(Byte)]]

\* Types; what waits never exceeds the cap (frame_parser.cpp:25-28).
TypeOK ==
  /\ stream \in Streams
  /\ fed \in 0..Len(stream)
  /\ buffer \in Seq(Byte) /\ Len(buffer) <= kMaxBufferedBytes
  /\ scanning \in BOOLEAN
  /\ delivered \in Seq(Delivery)
  /\ bad_frames \in Nat

\* Whatever was dropped, trimmed or erased, the buffer is exactly the stretch of the
\* session between the cursor and the last byte read: no byte is lost from its middle,
\* reordered, or left over from a session before the reset (frame_parser.cpp:23-104).
BufferIsWindow ==
  /\ Cursor \in 0..fed
  /\ buffer = SubSeq(stream, Cursor + 1, fed)

\* Between two calls the parser holds less than one maximal frame, so the bytes it
\* waits with cannot grow beyond what one corrupted length field can ask for
\* (frame_parser.cpp:69-78, protocol.hpp:34-36).
HeldBytesBounded == ~scanning => Len(buffer) < MaxFrameSize

\* The cap of feed() never costs a byte: the longest rest plus the longest chunk still
\* fit (frame_parser.cpp:9-13 and 26-28 against the reader's 4096-byte buffer,
\* radio_bridge_node.cpp:422).
CapNeverDrops ==
  [][fed' > fed => fed' - Len(buffer') = Cursor]_vars

\* Every frame that is not inside a delivered one is delivered, in order and once,
\* and nothing else is: feed() keeps the promise of FrameScan however the bytes are
\* cut into chunks (serial_transport.cpp:83-84).
ImplementsScan == INSTANCE FrameScan WITH cursor <- Cursor
DeliversEveryFrame == ImplementsScan!Spec

\* encode_frame and feed() agree on every field of the envelope: encoding a delivered
\* frame again gives, byte for byte, the stretch of the session it was taken from
\* (protocol.cpp:42-59 against frame_parser.cpp:60-98).
DeliveredFramesReencode ==
  \A k \in DOMAIN delivered :
    LET d == delivered[k]
        e == EncodeFrame(d.frame.type, d.frame.sequence, d.frame.payload)
    IN  SubSeq(stream, d.at + 1, d.at + Len(e)) = e

\* An iteration of feed()'s loop that does not end the call leaves fewer bytes behind than it
\* found, so a call ends after at most as many iterations as bytes wait, whatever they are
\* (frame_parser.cpp:33-104).
LoopAdvances == [][scanning /\ scanning' => Len(buffer') < Len(buffer)]_vars

\* Every call of feed() returns, on any bytes (frame_parser.hpp:3-10).
FeedReturns == scanning ~> ~scanning

\* The comment on feed() (frame_parser.hpp:30-33): it returns every complete frame
\* found in the bytes it was given, so none is left in the buffer when it returns.
NoCompleteFrameHeld ==
  ~scanning => \A i \in 0..Len(buffer) : ~StartsFrame(DropFirst(buffer, i))
=============================================================================
