------------------------------ MODULE RtcmRelay ------------------------------
(***************************************************************************)
(* handle_rtcm and crc24q: a correction from the base station is published *)
(* on /rtcm as it came, or dropped when it is not a whole RTCM 3 message.  *)
(*                                                                         *)
(* Bytes are numbers; a word is the set of its 1 bits, so that exclusive   *)
(* or is the symmetric difference, and a polynomial over bits is the set   *)
(* of its exponents.                                                       *)
(***************************************************************************)
EXTENDS Integers, Sequences

CONSTANT Payloads   \* the payloads of RTCM frames that arrive

Octet == 0..255

ASSUME PayloadsAssumption == Payloads \subseteq Seq(Octet)

VARIABLES
  correction,  \* the last payload handled
  relayed      \* it was published on /rtcm

rtcmVars == << correction, relayed >>

\* What each bit of a byte stands for.
Place == << 1, 2, 4, 8, 16, 32, 64, 128 >>

Bits(byte) == { k \in 0..7 : (byte \div Place[k + 1]) % 2 = 1 }

Xor(a, b) == (a \ b) \cup (b \ a)

\* 0x1864CFB
Generator == {24, 23, 18, 17, 14, 11, 10, 7, 6, 5, 4, 3, 1, 0}

\* Variant: 0x864CFB with the mask first, by which the shifted-out bit is lost.
ShiftOneMasked(crc) == { k + 1 : k \in crc } \cap 0..23

\* One bit: shifted left, reduced when a bit was shifted out, and masked.
ShiftOne(crc) ==
  LET shifted == { k + 1 : k \in crc }
  IN  (IF 23 \in crc THEN Xor(shifted, Generator) ELSE shifted) \cap 0..23

\* The body of crc24q's outer loop.
CrcByte(crc, byte) ==
  LET after[bit \in 0..8] ==
        IF bit = 0 THEN Xor(crc, { k + 16 : k \in Bits(byte) }) ELSE ShiftOne(after[bit - 1])
  IN  after[8]

crc24q(data) ==
  LET after[i \in 0..Len(data)] == IF i = 0 THEN {} ELSE CrcByte(after[i - 1], data[i])
  IN  after[Len(data)]

\* The three last bytes, as the code reads them.
ReceivedCrc(p) ==
  { k + 16 : k \in Bits(p[Len(p) - 2]) } \cup { k + 8 : k \in Bits(p[Len(p) - 1]) } \cup Bits(p[Len(p)])

\* Variant: the reserved bits taken for length.
LengthUnmasked(p) == 3 + p[2] * 256 + p[3] + 3

expected_length(p) == 3 + (p[2] % 4) * 256 + p[3] + 3

\* The payloads handle_rtcm publishes.
Accepted ==
  { p \in Payloads :
      /\ Len(p) >= 6
      /\ p[1] = 211
      /\ Len(p) = expected_length(p)
      /\ crc24q(SubSeq(p, 1, Len(p) - 3)) = ReceivedCrc(p) }

RtcmInit ==
  /\ correction = << >>
  /\ relayed = FALSE

HandleRtcm ==
  \E p \in Payloads :
    /\ correction' = p
    /\ relayed' = (p \in Accepted)

-----------------------------------------------------------------------------
(* The reference *)

\* The message as a polynomial, its first bit the highest exponent.
Polynomial(p) == UNION { { 8 * (Len(p) - i) + k : k \in Bits(p[i]) } : i \in DOMAIN p }

\* One step of a long division: the generator, moved up to the exponent e, is taken away.
Reduce(r, e) == IF e \in r THEN Xor(r, { e - 24 + g : g \in Generator }) ELSE r

\* What division by the generator leaves of a polynomial of n bytes.
Remainder(poly, n) ==
  LET after[j \in 0..(8 * (n - 3))] == IF j = 0 THEN poly ELSE Reduce(after[j - 1], 8 * n - j)
  IN  after[8 * (n - 3)]

\* Ten bits of length, in the second byte and the third.
Lengths == 0..1023
SpeltIn(p, n) == Bits(n % 256) = Bits(p[3]) /\ Bits(n \div 256) = Bits(p[2]) \cap {0, 1}

\* RTCM 3 messages by their definition: 0xD3, six reserved bits, a length, so many bytes, and
\* a trailer that makes the generator divide the whole.
WholeMessages ==
  { p \in Payloads :
      /\ Len(p) >= 6 /\ p[1] = 211
      /\ \E n \in Lengths : Len(p) = n + 6 /\ SpeltIn(p, n)
      /\ Remainder(Polynomial(p), Len(p)) = {} }

\* A correction is passed on exactly when it is a whole message: the shift register agrees
\* with division by the generator (radio_bridge_node.cpp:526-557, crc.cpp:16-27).
RelaysWholeMessages == correction # << >> => relayed = (correction \in WholeMessages)
=============================================================================
