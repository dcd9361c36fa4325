------------------------------ MODULE FrameLink ------------------------------
(***************************************************************************)
(* Both ends of the radio: the bytes of a session are frames that          *)
(* encode_frame built and write_frame wrote one behind the other, with or  *)
(* without noise, damage and cut frames between them, and the FrameParser  *)
(* of the other end reads them.                                            *)
(***************************************************************************)
EXTENDS FrameParser

\* A frame a node may send: its number has 32 bits, its length 16, and the payload is one
\* that the receiver takes.
Sendable ==
  { f \in [type : Byte, sequence : Nat, payload : Seq(Byte)] :
      /\ f.sequence \div Weight[4] \in Byte
      /\ Len(f.payload) \div Weight[2] \in Byte
      /\ Len(f.payload) <= MaxPayload }

CONSTANT Sent   \* the sequences of frames that may be sent

ASSUME SentAssumption == Sent \subseteq Seq(Sendable)

\* The bytes of one frame.
Bytes(f) == EncodeFrame(f.type, f.sequence, f.payload)

\* The bytes of the first k frames, one behind the other, for each k.
Line(sent) ==
  LET after[k \in 0..Len(sent)] == IF k = 0 THEN << >> ELSE after[k - 1] \o Bytes(sent[k])
  IN  after

\* Over a line that adds and loses nothing every frame arrives as it was sent, once and in
\* order; the call of feed() that brings a frame's last byte is the one that returns it, and
\* no frame is counted bad (protocol.cpp:42-59 against frame_parser.cpp:23-104).
CleanLinkDelivers ==
  \A sent \in Sent : stream = Line(sent)[Len(sent)] =>
    /\ Len(delivered) <= Len(sent)
    /\ \A k \in DOMAIN delivered : delivered[k].frame = sent[k]
    /\ bad_frames = 0
    /\ ~scanning => \A k \in DOMAIN sent : Len(Line(sent)[k]) <= fed => k <= Len(delivered)

\* The frame f stands whole and undamaged behind p bytes of the session.
Stands(f, p) ==
  LET n == Len(Bytes(f)) IN p + n <= Len(stream) /\ SubSeq(stream, p + 1, p + n) = Bytes(f)

\* Noise, damage and frames cut by a failed write cost no other frame and delay it by less
\* than one maximal frame: once so many bytes were read from its first on, a whole frame is
\* delivered, unless it is part of the bytes of one that is (frame_parser.cpp:69-91 against
\* serial_transport.cpp:137-149).
DamageOnlyDelays ==
  ~scanning =>
    \A sent \in Sent : \A j \in DOMAIN sent : \A p \in 0..(fed - MaxFrameSize) :
      Stands(sent[j], p) =>
        \E k \in DOMAIN delivered :
          LET d == delivered[k]
          IN  \/ d = [at |-> p, frame |-> sent[j]]
              \/ d.at < p /\ p < d.at + Len(Bytes(d.frame))
=============================================================================
