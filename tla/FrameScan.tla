------------------------------ MODULE FrameScan ------------------------------
(***************************************************************************)
(* What a receiver of frames promises, whatever the chunks its bytes come  *)
(* in: it walks over the bytes of a session from left to right, delivers   *)
(* every frame it comes to, once and in order, jumps over the bytes of the *)
(* frames it delivers, and steps over any other byte only when no frame    *)
(* starts there.                                                           *)
(*                                                                         *)
(* stream is the whole byte string of the session, bytes that have not     *)
(* arrived yet included; cursor counts the bytes walked over.              *)
(***************************************************************************)
EXTENDS FrameFormat

CONSTANT Streams   \* the byte strings a session may carry

VARIABLES stream, cursor, delivered

scanVars == << stream, cursor, delivered >>

From(p) == SubSeq(stream, p + 1, Len(stream))

FrameAt(p) == StartsFrame(From(p))

NoFrameBetween(p, q) == \A i \in p..(q - 1) : ~FrameAt(i)

Init ==
  /\ stream \in Streams
  /\ cursor = 0
  /\ delivered = << >>

\* Step over bytes at which no frame starts.
Skip ==
  /\ cursor' \in cursor..Len(stream)
  /\ NoFrameBetween(cursor, cursor')
  /\ UNCHANGED << stream, delivered >>

\* Deliver the next frame.
Deliver ==
  /\ \E p \in cursor..Len(stream) :
        /\ FrameAt(p)
        /\ NoFrameBetween(cursor, p)
        /\ delivered' = Append(delivered, [at |-> p, frame |-> ParsedFrame(From(p))])
        /\ cursor' = p + FrameSize(From(p))
  /\ UNCHANGED stream

\* The port was reopened: another session starts, with nothing of the old one.
NewSession ==
  /\ stream' \in Streams
  /\ cursor' = 0
  /\ delivered' = << >>

Next == Skip \/ Deliver \/ NewSession

Spec == Init /\ [][Next]_scanVars
=============================================================================
