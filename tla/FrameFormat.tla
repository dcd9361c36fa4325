----------------------------- MODULE FrameFormat -----------------------------
(***************************************************************************)
(* The frame envelope of the radio protocol (protocol.hpp, protocol.cpp):  *)
(*                                                                         *)
(*    AA 55 | version | type | sequence, 4 bytes | length, 2 bytes |       *)
(*    payload | CRC32 of everything before it, 4 bytes                     *)
(*                                                                         *)
(* Numbers are little-endian.  A byte is a number in 0..255 and a byte     *)
(* string a sequence of them, indexed from 1: buffer_[i] of the code is    *)
(* b[i+1] here.                                                            *)
(***************************************************************************)
EXTENDS Integers, Sequences

CONSTANTS
  MaxPayload,  \* kMaxPayload: 8192 in the code
  Crc32(_)     \* zlib's crc32 of a byte string, as its four bytes

ASSUME MaxPayloadAssumption == MaxPayload \in Nat

Byte == 0..255

kMagic0 == 170          \* 0xAA
kMagic1 == 85           \* 0x55
kProtocolVersion == 2
kHeaderSize == 10
kCrcSize == 4
kMinFrameSize == kHeaderSize + kCrcSize

\* The longest frame a header may announce and still be taken for a frame.
MaxFrameSize == kMinFrameSize + MaxPayload

-----------------------------------------------------------------------------
(* Reading the fields of a byte string that starts at a frame's magic. *)

U16(lo, hi) == lo + 256 * hi
U32(b0, b1, b2, b3) == U16(b0, b1) + 65536 * U16(b2, b3)

\* Variants of Sequence and HeaderOK that a slip would give: the number read in the
\* other byte order, the length left unchecked, the longest payload refused.
SequenceBigEndian(b) == U32(b[8], b[7], b[6], b[5])
HeaderVersionOnly(b) == b[3] = kProtocolVersion
HeaderBelowMax(b) == b[3] = kProtocolVersion /\ U16(b[9], b[10]) < MaxPayload

Version(b)    == b[3]
Sequence(b)   == U32(b[5], b[6], b[7], b[8])
PayloadLen(b) == U16(b[9], b[10])
FrameSize(b)  == kHeaderSize + PayloadLen(b) + kCrcSize

HeaderOK(b) ==
  /\ Version(b) = kProtocolVersion
  /\ PayloadLen(b) <= MaxPayload

CrcOK(b) ==
  LET body == FrameSize(b) - kCrcSize
  IN  SubSeq(b, body + 1, body + kCrcSize) = Crc32(SubSeq(b, 1, body))

\* The ParsedFrame that a complete frame at the front of b stands for.
ParsedFrame(b) ==
  [ type     |-> b[4],
    sequence |-> Sequence(b),
    payload  |-> SubSeq(b, kHeaderSize + 1, kHeaderSize + PayloadLen(b)) ]

\* b starts with one complete frame that every check of the receiver accepts.
StartsFrame(b) ==
  /\ Len(b) >= kMinFrameSize
  /\ b[1] = kMagic0 /\ b[2] = kMagic1
  /\ HeaderOK(b)
  /\ Len(b) >= FrameSize(b)
  /\ CrcOK(b)

-----------------------------------------------------------------------------
(* Writing a frame. *)

\* What one in each byte of a number counts.
Weight == << 1, 256, 65536, 16777216 >>

LE(value, width) == [i \in 1..width |-> (value \div Weight[i]) % 256]

\* encode_frame: the length field is a cast to uint16_t, so a payload longer
\* than 65535 bytes would announce its length modulo 2^16.
EncodeFrame(type, sequence, payload) ==
  LET header == << kMagic0, kMagic1, kProtocolVersion, type >>
                  \o LE(sequence, 4) \o LE(Len(payload) % 65536, 2)
      body   == header \o payload
  IN  body \o Crc32(body)
=============================================================================
