------------------------------ MODULE MCReceive ------------------------------
(* Receive with whole and damaged RTCM messages. *)
EXTENDS Receive, SequencesExt

\* A word as a byte.
Byte(word) == FoldLeft(LAMBDA n, k : n + (IF k \in word THEN 2^k ELSE 0), 0, << 0, 1, 2, 3, 4, 5, 6, 7 >>)

\* A message's body with the trailer that makes it whole, by division.
Sealed(body) ==
  LET crc == Remainder({ e + 24 : e \in Polynomial(body) }, Len(body) + 3)
  IN  body \o [i \in 1..3 |-> Byte({ k - 8 * (3 - i) : k \in crc \cap (8 * (3 - i))..(8 * (3 - i) + 7) })]

Short    == Sealed(<< 211, 0, 2, 62, 208 >>)
Reserved == Sealed(<< 211, 252, 1, 255 >>)
Empty    == Sealed(<< 211, 0, 0 >>)
NoPreamble == Sealed(<< 210, 0, 1, 7 >>)

\* Bit k of byte i inverted.
Flip(p, i, k) == [p EXCEPT ![i] = Byte(Xor(Bits(p[i]), {k}))]

Damaged ==
  { Flip(Short, i, k) : i \in 1..8, k \in 0..7 }
    \cup { Flip(Flip(Short, i, 0), 8, k) : i \in {2, 4}, k \in {0, 7} }
    \cup { SubSeq(Short, 1, n) : n \in 1..7 } \cup { Append(Short, 0) }

MCPayloads == { Short, Reserved, Empty, NoPreamble } \cup Damaged
=============================================================================
