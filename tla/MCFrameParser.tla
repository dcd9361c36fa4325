---------------------------- MODULE MCFrameParser ----------------------------
(***************************************************************************)
(* Byte streams for FrameLink: whole, damaged and cut frames, alone and    *)
(* in front of a whole one, with noise between.  MaxPayload is 15, so that *)
(* a payload may itself hold a complete frame, and the header and CRC have *)
(* their real sizes.                                                       *)
(***************************************************************************)
EXTENDS FrameLink, SequencesExt

\* A stand-in for zlib's CRC32: it depends on every byte and on its place.
MCCrc32(s) ==
  LET sum == FoldLeft(LAMBDA acc, x : (7 * acc + x + 1) % 60013, 1, s)
  IN  LE(sum, 2) \o << 3, 4 >>

KillFrame    == [type |-> 5, sequence |-> 1, payload |-> << 1 >>]
ControlFrame == [type |-> 4, sequence |-> 513, payload |-> << 170, 85 >>]   \* a magic inside
StatusFrame  == [type |-> 10, sequence |-> 0, payload |-> << >>]

Kill    == Bytes(KillFrame)
Control == Bytes(ControlFrame)
Status  == Bytes(StatusFrame)

\* A frame with the longest payload, which is a frame itself.
NestedFrame == [type |-> 2, sequence |-> 16777216, payload |-> Kill]
Nested      == Bytes(NestedFrame)

\* What encode_frame makes of a payload that no receiver takes.
Oversize == EncodeFrame(2, 7, [i \in 1..(MaxPayload + 1) |-> 170])

\* One byte changed: each magic byte, the version, the type, each byte of the length
\* (less, more, the longest, impossible), the payload, the CRC.
DamagedAt == { <<1, 0>>, <<2, 170>>, <<3, 1>>, <<4, 170>>, <<9, 0>>, <<9, 2>>, <<9, 14>>,
               <<9, 15>>, <<9, 16>>, <<10, 255>>, <<11, 170>>, <<13, 85>> }

Damaged(f) == { [f EXCEPT ![d[1]] = d[2]] : d \in DamagedAt }

Cut(f) == { SubSeq(f, 1, n) : n \in {1, 2, 9, Len(f) - 1} }

Noise == { << >>, << 170 >>, << 85, 170, 170 >>, [i \in 1..40 |-> 85] }

MCSent == { << >>, << KillFrame, ControlFrame >>, << NestedFrame, StatusFrame >> }

MCStreams ==
     { Line(sent)[Len(sent)] : sent \in MCSent }
  \cup { n \o Kill \o Control : n \in Noise \cup {Oversize} }
  \cup { f \o Control \o Status : f \in Damaged(Kill) \cup Cut(Kill) }
  \cup { f \o Status \o << 170 >> : f \in Damaged(Nested) \cup {Nested} }

\* A frame whose length byte arrives as 40 instead of 1, and two whole frames behind it.
MCHeldStreams == { [Kill EXCEPT ![9] = 40] \o Control \o Status }
=============================================================================
