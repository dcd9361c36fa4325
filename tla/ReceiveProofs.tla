---------------------------- MODULE ReceiveProofs ----------------------------
(***************************************************************************)
(* Proofs about what the reader thread drives: the link monitor, alone and *)
(* in Receive, for every timeout, period and delay of the timer; and the   *)
(* relay of corrections, whose shift register computes division by the     *)
(* generator, so that exactly the whole RTCM 3 messages are passed on, for *)
(* messages of every length.                                               *)
(***************************************************************************)
EXTENDS Receive, Induction, SequenceTheorems, TLAPS

\* A link that is not reported down was heard since the last check, or had been heard in
\* time when it was checked.
HeardInTime ==
  \/ link_was_down
  \/ silence <= since_check
  \/ heard /\ silence <= radio_timeout + since_check

\* A link nobody heard since it was reported down still looks down.
UnheardIsQuiet == unheard => Quiet

\* A link that is reported down has had bytes in time since the last check at most.
LateSinceCheck ==
  /\ ~InTime => in_time = 0
  /\ link_was_down => in_time <= since_check

MInv == MonitorTypeOK /\ HeardInTime /\ UnheardIsQuiet /\ LateSinceCheck

-----------------------------------------------------------------------------

\* The bounds of the model.
LEMMA MonitorBounds ==
  /\ radio_timeout \in Int /\ CheckPeriod \in Nat \ {0} /\ MaxLate \in Nat
  /\ MaxBetween \in Nat /\ SilenceCap \in Nat
  /\ SilenceCap > radio_timeout
  /\ 0 \in 0..SilenceCap /\ 0 \in 0..MaxBetween /\ 0 \in 0..(MaxBetween + 1)
BY MonitorAssumption DEF MaxBetween, SilenceCap

\* A monitor starts with a link it may wait for.
LEMMA MInvInit == MonitorInit => MInv
<1> SUFFICES ASSUME MonitorInit  PROVE MInv
  OBVIOUS
<1>1. MonitorTypeOK
  BY MonitorBounds, Zenon DEF MonitorInit, MonitorTypeOK
<1>2. silence <= since_check
  BY DEF MonitorInit
<1>3. UnheardIsQuiet
  BY DEF MonitorInit, UnheardIsQuiet
<1>4. LateSinceCheck
  BY DEF MonitorInit, LateSinceCheck
<1>5. QED  BY <1>1, <1>2, <1>3, <1>4 DEF MInv, HeardInTime

\* Bytes, ticks and checks preserve the invariant (radio_bridge_node.cpp:393-416 and 451).
LEMMA MInvStep == MInv /\ [MonitorNext]_monitorVars => MInv'
<1> SUFFICES ASSUME MInv, [MonitorNext]_monitorVars  PROVE MInv'
  OBVIOUS
<1>1. MonitorTypeOK /\ HeardInTime /\ UnheardIsQuiet /\ LateSinceCheck
  BY DEF MInv
<1>2. CASE BytesRead
  <2>1. MonitorTypeOK'
    BY <1>1, <1>2, MonitorBounds, Zenon DEF BytesRead, MonitorTypeOK
  <2>2. (silence <= since_check)'
    BY <1>1, <1>2, MonitorBounds DEF BytesRead, MonitorTypeOK
  <2>3. UnheardIsQuiet'
    BY <1>2 DEF BytesRead, UnheardIsQuiet
  <2>4. LateSinceCheck'
    BY <1>1, <1>2, MonitorBounds DEF BytesRead, MonitorTypeOK, LateSinceCheck, InTime
  <2>5. QED  BY <2>1, <2>2, <2>3, <2>4 DEF MInv, HeardInTime
<1>3. CASE Tick
  <2>1. MonitorTypeOK'
    BY <1>1, <1>3, MonitorBounds DEF Tick, MonitorTypeOK
  <2>2. HeardInTime'
    BY <1>1, <1>3, MonitorBounds DEF Tick, MonitorTypeOK, HeardInTime
  <2>3. UnheardIsQuiet'
    BY <1>1, <1>3, MonitorBounds DEF Tick, MonitorTypeOK, UnheardIsQuiet, Quiet
  <2>4. LateSinceCheck'
    <3>1. (~InTime => in_time = 0)'
      BY <1>1, <1>3, MonitorBounds DEF Tick, MonitorTypeOK
    <3>2. (link_was_down => in_time <= since_check)'
      BY <1>1, <1>3, MonitorBounds DEF Tick, MonitorTypeOK, LateSinceCheck
    <3>3. QED  BY <3>1, <3>2 DEF LateSinceCheck
  <2>5. QED  BY <2>1, <2>2, <2>3, <2>4 DEF MInv
<1>4. CASE OnLinkCheckTimer
  <2>1. MonitorTypeOK'
    BY <1>1, <1>4, MonitorBounds DEF OnLinkCheckTimer, MonitorTypeOK, Quiet
  <2>2. HeardInTime'
    <3>1. CASE Quiet
      BY <1>4, <3>1 DEF OnLinkCheckTimer, HeardInTime
    <3>2. CASE ~Quiet
      <4>1. heard /\ silence <= radio_timeout
        BY <1>1, <3>2, MonitorBounds DEF Quiet, MonitorTypeOK
      <4>2. heard' = heard /\ silence' = silence /\ since_check' = 0
        BY <1>4 DEF OnLinkCheckTimer
      <4>3. silence' <= radio_timeout + since_check'
        BY <4>1, <4>2, MonitorBounds
      <4>4. QED  BY <4>1, <4>2, <4>3 DEF HeardInTime
    <3>3. QED  BY <3>1, <3>2
  <2>3. UnheardIsQuiet'
    BY <1>1, <1>4 DEF OnLinkCheckTimer, UnheardIsQuiet, Quiet
  <2>4. LateSinceCheck'
    <3>1. (~InTime => in_time = 0)'
      BY <1>1, <1>4 DEF OnLinkCheckTimer, LateSinceCheck, InTime
    <3>2. Quiet => ~InTime
      BY <1>1, MonitorBounds DEF Quiet, InTime, MonitorTypeOK
    <3>3. (link_was_down => in_time <= since_check)'
      BY <1>1, <1>4, <3>2 DEF OnLinkCheckTimer, LateSinceCheck
    <3>4. QED  BY <3>1, <3>3 DEF LateSinceCheck
  <2>5. QED  BY <2>1, <2>2, <2>3, <2>4 DEF MInv
<1>5. CASE UNCHANGED monitorVars
  BY <1>1, <1>5
  DEF monitorVars, MInv, MonitorTypeOK, HeardInTime, UnheardIsQuiet, Quiet, LateSinceCheck, InTime
<1>6. QED  BY <1>2, <1>3, <1>4, <1>5 DEF MonitorNext

\* Every reachable state satisfies the invariant.
LEMMA MonitorInvariance == MonitorSpec => []MInv
<1>1. QED  BY MInvInit, MInvStep, PTL DEF MonitorSpec

-----------------------------------------------------------------------------
(* What follows for every behaviour *)

\* What the reader thread does with the bytes leaves the monitor as it is: every step of
\* Receive is one of the monitor's or none (radio_bridge_node.cpp:445-472).
THEOREM ReceiveImplementsMonitor == Spec => MonitorSpec
<1>1. Init => MonitorInit
  BY DEF Init
<1>2. [Next]_vars => [MonitorNext]_monitorVars
  BY DEF Next, vars, MonitorNext, ReadBytes, ReadRtcm, TimePasses, CheckLink
<1>3. QED  BY <1>1, <1>2, PTL DEF Spec, MonitorSpec

\* The types of the monitor.
THEOREM MonitorTypeCorrect == Spec => []MonitorTypeOK
<1>1. MInv => MonitorTypeOK
  BY DEF MInv
<1>2. QED  BY <1>1, ReceiveImplementsMonitor, MonitorInvariance, PTL

\* Silence is reported at the latest one period and one delay after the timeout, for a
\* negative timeout too (radio_bridge_node.cpp:393-411).
THEOREM SilenceIsNoticed == Spec => []SilenceNoticed
<1>1. MInv => SilenceNoticed
  BY MonitorBounds DEF MInv, MonitorTypeOK, HeardInTime, SilenceNoticed
<1>2. QED  BY <1>1, ReceiveImplementsMonitor, MonitorInvariance, PTL

\* A recovery is reported at the latest one period and one delay after bytes came in time
\* again, for every timeout (radio_bridge_node.cpp:404-415).
THEOREM RecoveryIsInTime == Spec => []RecoveredInTime
<1>1. MInv => RecoveredInTime
  BY MonitorBounds DEF MInv, MonitorTypeOK, LateSinceCheck, RecoveredInTime
<1>2. QED  BY <1>1, ReceiveImplementsMonitor, MonitorInvariance, PTL

\* Nothing but bytes brings a link back (radio_bridge_node.cpp:412-415).
THEOREM RecoveryByBytes == Spec => RecoveredByBytes
<1>1. MInv /\ [MonitorNext]_monitorVars =>
        [link_was_down /\ ~link_was_down' => ~unheard]_monitorVars
  BY DEF MInv, UnheardIsQuiet, MonitorNext, BytesRead, Tick, OnLinkCheckTimer
<1>2. QED
  BY <1>1, ReceiveImplementsMonitor, MonitorInvariance, PTL DEF MonitorSpec, RecoveredByBytes

-----------------------------------------------------------------------------
(* What the loops compute *)

Word == SUBSET (0..23)

\* A word stays one.
LEMMA ShiftOneWord ==
  ASSUME NEW c  PROVE ShiftOne(c) \in Word
BY DEF ShiftOne, Word

\* A byte's bits, moved to the top of a word.
LEMMA TopOfWord ==
  ASSUME NEW c \in Word, NEW b  PROVE Xor(c, { k + 16 : k \in Bits(b) }) \in Word
<1>1. \A k \in Bits(b) : k + 16 \in 0..23
  BY DEF Bits
<1>2. QED  BY <1>1 DEF Xor, Word

\* The eight steps of a byte (crc.cpp:20-24).
LEMMA CrcByteSteps ==
  ASSUME NEW c \in Word, NEW b
  PROVE  \E reg \in [0..8 -> Word] :
           /\ reg[0] = Xor(c, { k + 16 : k \in Bits(b) })
           /\ \A k \in 1..8 : reg[k] = ShiftOne(reg[k - 1])
           /\ CrcByte(c, b) = reg[8]
<1> DEFINE base == Xor(c, { k + 16 : k \in Bits(b) })
           after[bit \in 0..8] == IF bit = 0 THEN base ELSE ShiftOne(after[bit - 1])
           step == [x \in (1..8) \X Word |-> ShiftOne(x[2])]
<1>1. CrcByte(c, b) = after[8]
  BY DEF CrcByte
<1>2. base \in Word
  BY TopOfWord
<1>3. step \in [(1..8) \X Word -> Word]
  BY ShiftOneWord
<1>4. PICK f \in [0..8 -> Word] :
        f[0] = base /\ \A i \in 1..8 : f[i] = step[<< i, f[i - 1] >>]
  <2> HIDE DEF base, step
  <2>1. 8 \in Nat
    OBVIOUS
  <2>2. Solvable(8, Word, base, step)
    BY <1>2, <1>3, <2>1, Recursion, Zenon
  <2>3. QED  BY <2>2 DEF Solvable, GoesOnBy
<1>5. ASSUME NEW i \in 0..8  PROVE f[i] = IF i = 0 THEN base ELSE ShiftOne(f[i - 1])
  <2>1. CASE i = 0
    BY <1>4, <2>1
  <2>2. CASE i # 0
    <3>1. i \in 1..8 /\ i - 1 \in 0..8
      BY <2>2
    <3>2. << i, f[i - 1] >> \in (1..8) \X Word
      BY <3>1
    <3>3. step[<< i, f[i - 1] >>] = ShiftOne(f[i - 1])
      BY <3>2
    <3>4. QED  BY <1>4, <2>2, <3>1, <3>3
  <2>3. QED  BY <2>1, <2>2
<1> HIDE DEF base, step
<1>6. f = [i \in 0..8 |-> f[i]]
  OBVIOUS
<1>7. f = [i \in 0..8 |-> IF i = 0 THEN base ELSE ShiftOne(f[i - 1])]
  BY <1>5, <1>6
<1>8. after = [i \in 0..8 |-> IF i = 0 THEN base ELSE ShiftOne(after[i - 1])]
  BY <1>7
<1> HIDE DEF after
<1>9. after \in [0..8 -> Word]
  BY <1>2, <1>8, ShiftOneWord
<1>10. /\ after[0] = base
       /\ \A k \in 1..8 : after[k] = ShiftOne(after[k - 1])
  BY <1>8
<1>11. QED  BY <1>1, <1>9, <1>10 DEF base

\* A byte leaves a word (crc.cpp:19-25).
LEMMA CrcByteWord ==
  ASSUME NEW c \in Word, NEW b  PROVE CrcByte(c, b) \in Word
<1>1. PICK reg \in [0..8 -> Word] : CrcByte(c, b) = reg[8]
  BY CrcByteSteps
<1>2. QED  BY <1>1

\* A step of the outer loop for each byte (crc.cpp:18-26).
LEMMA CrcSteps ==
  ASSUME NEW data \in Seq(Octet)
  PROVE  \E reg \in [0..Len(data) -> Word] :
           /\ reg[0] = {}
           /\ \A i \in 1..Len(data) : reg[i] = CrcByte(reg[i - 1], data[i])
           /\ crc24q(data) = reg[Len(data)]
<1> DEFINE base == {}
           n == Len(data)
           after[i \in 0..n] == IF i = 0 THEN base ELSE CrcByte(after[i - 1], data[i])
           step == [x \in (1..n) \X Word |-> CrcByte(x[2], data[x[1]])]
<1>0. n \in Nat
  OBVIOUS
<1>1. crc24q(data) = after[n]
  BY DEF crc24q
<1>2. base \in Word
  BY DEF Word
<1>3. step \in [(1..n) \X Word -> Word]
  BY CrcByteWord
<1> HIDE DEF n
<1>4. PICK f \in [0..n -> Word] :
        f[0] = base /\ \A i \in 1..n : f[i] = step[<< i, f[i - 1] >>]
  <2> HIDE DEF base, step
  <2>1. Solvable(n, Word, base, step)
    BY <1>0, <1>2, <1>3, Recursion, Zenon
  <2>2. QED  BY <2>1 DEF Solvable, GoesOnBy
<1>5. ASSUME NEW i \in 0..n  PROVE f[i] = IF i = 0 THEN base ELSE CrcByte(f[i - 1], data[i])
  <2>1. CASE i = 0
    BY <1>4, <2>1
  <2>2. CASE i # 0
    <3>1. i \in 1..n /\ i - 1 \in 0..n
      BY <1>0, <2>2
    <3>2. << i, f[i - 1] >> \in (1..n) \X Word
      BY <3>1
    <3>3. step[<< i, f[i - 1] >>] = CrcByte(f[i - 1], data[i])
      BY <3>2
    <3>4. QED  BY <1>4, <2>2, <3>1, <3>3
  <2>3. QED  BY <2>1, <2>2
<1> HIDE DEF base, step
<1>6. f = [i \in 0..n |-> f[i]]
  OBVIOUS
<1>7. f = [i \in 0..n |-> IF i = 0 THEN base ELSE CrcByte(f[i - 1], data[i])]
  BY <1>5, <1>6
<1>8. after = [i \in 0..n |-> IF i = 0 THEN base ELSE CrcByte(after[i - 1], data[i])]
  BY <1>7
<1> HIDE DEF after
<1>9. /\ after[0] = base
      /\ \A i \in 1..n : after[i] = CrcByte(after[i - 1], data[i])
  BY <1>0, <1>8
<1>10. after \in [0..n -> Word]
  <2> DEFINE W == { i \in 0..n : after[i] \in Word }
  <2>1. 0 \in W
    BY <1>0, <1>2, <1>9
  <2>2. ASSUME NEW i \in 1..n, i - 1 \in W  PROVE i \in W
    <3>1. i \in 0..n /\ after[i - 1] \in Word
      BY <1>0, <2>2
    <3>2. after[i] \in Word
      BY <1>9, <3>1, CrcByteWord
    <3>3. QED  BY <3>1, <3>2
  <2> HIDE DEF W
  <2>3. \A i \in 0..n : i \in W
    BY <1>0, <2>1, <2>2, BoundedInduction
  <2>4. \A i \in 0..n : after[i] \in Word
    BY <2>3 DEF W
  <2>5. QED  BY <1>8, <2>4
<1>11. QED  BY <1>1, <1>9, <1>10 DEF base, n

\* What is left is a set of exponents.
LEMMA ReduceType ==
  ASSUME NEW r \in SUBSET Int, NEW e \in Int  PROVE Reduce(r, e) \in SUBSET Int
<1>1. \A g \in Generator : e - 24 + g \in Int
  BY DEF Generator
<1>2. QED  BY <1>1 DEF Reduce, Xor

\* The steps of the division, one for each exponent.
LEMMA DivisionSteps ==
  ASSUME NEW poly \in SUBSET Int, NEW size \in Nat, size >= 3
  PROVE  \E left \in [0..(8 * (size - 3)) -> SUBSET Int] :
           /\ left[0] = poly
           /\ \A i \in 1..(8 * (size - 3)) : left[i] = Reduce(left[i - 1], 8 * size - i)
           /\ Remainder(poly, size) = left[8 * (size - 3)]
<1> DEFINE base == poly
           n == 8 * (size - 3)
           after[i \in 0..n] == IF i = 0 THEN base ELSE Reduce(after[i - 1], 8 * size - i)
           step == [x \in (1..n) \X (SUBSET Int) |-> Reduce(x[2], 8 * size - x[1])]
<1>0. n \in Nat
  OBVIOUS
<1>1. Remainder(poly, size) = after[n]
  BY DEF Remainder
<1>2. base \in (SUBSET Int)
  BY DEF Word
<1>3. step \in [(1..n) \X (SUBSET Int) -> (SUBSET Int)]
  BY ReduceType
<1> HIDE DEF n
<1>4. PICK f \in [0..n -> (SUBSET Int)] :
        f[0] = base /\ \A i \in 1..n : f[i] = step[<< i, f[i - 1] >>]
  <2> HIDE DEF base, step
  <2>1. Solvable(n, (SUBSET Int), base, step)
    BY <1>0, <1>2, <1>3, Recursion, Zenon
  <2>2. QED  BY <2>1 DEF Solvable, GoesOnBy
<1>5. ASSUME NEW i \in 0..n  PROVE f[i] = IF i = 0 THEN base ELSE Reduce(f[i - 1], 8 * size - i)
  <2>1. CASE i = 0
    BY <1>4, <2>1
  <2>2. CASE i # 0
    <3>1. i \in 1..n /\ i - 1 \in 0..n
      BY <1>0, <2>2
    <3>2. << i, f[i - 1] >> \in (1..n) \X (SUBSET Int)
      BY <3>1
    <3>3. step[<< i, f[i - 1] >>] = Reduce(f[i - 1], 8 * size - i)
      BY <3>2
    <3>4. QED  BY <1>4, <2>2, <3>1, <3>3
  <2>3. QED  BY <2>1, <2>2
<1> HIDE DEF base, step
<1>6. f = [i \in 0..n |-> f[i]]
  OBVIOUS
<1>7. f = [i \in 0..n |-> IF i = 0 THEN base ELSE Reduce(f[i - 1], 8 * size - i)]
  BY <1>5, <1>6
<1>8. after = [i \in 0..n |-> IF i = 0 THEN base ELSE Reduce(after[i - 1], 8 * size - i)]
  BY <1>7
<1> HIDE DEF after
<1>9. /\ after[0] = base
      /\ \A i \in 1..n : after[i] = Reduce(after[i - 1], 8 * size - i)
  BY <1>0, <1>8
<1>10. after \in [0..n -> (SUBSET Int)]
  <2> DEFINE W == { i \in 0..n : after[i] \in (SUBSET Int) }
  <2>1. 0 \in W
    BY <1>0, <1>2, <1>9
  <2>2. ASSUME NEW i \in 1..n, i - 1 \in W  PROVE i \in W
    <3>1. i \in 0..n /\ after[i - 1] \in (SUBSET Int)
      BY <1>0, <2>2
    <3>2. after[i] \in (SUBSET Int)
      BY <1>9, <3>1, ReduceType
    <3>3. QED  BY <3>1, <3>2
  <2> HIDE DEF W
  <2>3. \A i \in 0..n : i \in W
    BY <1>0, <2>1, <2>2, BoundedInduction
  <2>4. \A i \in 0..n : after[i] \in (SUBSET Int)
    BY <2>3 DEF W
  <2>5. QED  BY <1>8, <2>4
<1>11. QED  BY <1>1, <1>9, <1>10 DEF base, n

-----------------------------------------------------------------------------
(* Polynomials over bits *)

\* A polynomial times the o-th power.
Lift(a, o) == { k + o : k \in a }

LEMMA InLift ==
  ASSUME NEW a \in SUBSET Int, NEW o \in Int
  PROVE  /\ Lift(a, o) \in SUBSET Int
         /\ \A x \in Int : x \in Lift(a, o) <=> x - o \in a
<1>1. Lift(a, o) \in SUBSET Int
  BY DEF Lift
<1>2. ASSUME NEW x \in Int, x \in Lift(a, o)  PROVE x - o \in a
  <2>1. PICK k \in a : x = k + o
    BY <1>2 DEF Lift
  <2>2. x - o = k
    BY <2>1
  <2>3. QED  BY <2>2
<1>3. ASSUME NEW x \in Int, x - o \in a  PROVE x \in Lift(a, o)
  <2>1. x = (x - o) + o
    OBVIOUS
  <2>2. QED  BY <1>3, <2>1 DEF Lift
<1>4. QED  BY <1>1, <1>2, <1>3

LEMMA XorType ==
  ASSUME NEW a \in SUBSET Int, NEW b \in SUBSET Int  PROVE Xor(a, b) \in SUBSET Int
BY DEF Xor

\* In whatever order three are added.
LEMMA XorSwap ==
  ASSUME NEW a, NEW b, NEW c
  PROVE  /\ Xor(Xor(a, b), c) = Xor(Xor(a, c), b)
         /\ Xor(a, Xor(b, c)) = Xor(Xor(a, b), c)
BY Zenon DEF Xor

LEMMA LiftXor ==
  ASSUME NEW a \in SUBSET Int, NEW b \in SUBSET Int, NEW o \in Int
  PROVE  Lift(Xor(a, b), o) = Xor(Lift(a, o), Lift(b, o))
<1>1. /\ Lift(a, o) \in SUBSET Int /\ Lift(b, o) \in SUBSET Int
      /\ Xor(a, b) \in SUBSET Int /\ Lift(Xor(a, b), o) \in SUBSET Int
      /\ Xor(Lift(a, o), Lift(b, o)) \in SUBSET Int
  BY InLift, XorType
<1>2. ASSUME NEW x \in Int
      PROVE  x \in Lift(Xor(a, b), o) <=> x \in Xor(Lift(a, o), Lift(b, o))
  <2>1. /\ x \in Lift(Xor(a, b), o) <=> x - o \in Xor(a, b)
        /\ x \in Lift(a, o) <=> x - o \in a
        /\ x \in Lift(b, o) <=> x - o \in b
    BY <1>1, InLift
  <2>2. QED  BY <2>1, Zenon DEF Xor
<1>3. QED  BY <1>1, <1>2

LEMMA LiftTwice ==
  ASSUME NEW a \in SUBSET Int, NEW o \in Int, NEW q \in Int
  PROVE  Lift(Lift(a, o), q) = Lift(a, o + q)
<1>1. /\ Lift(a, o) \in SUBSET Int /\ Lift(Lift(a, o), q) \in SUBSET Int
      /\ Lift(a, o + q) \in SUBSET Int
  BY InLift
<1>2. ASSUME NEW x \in Int  PROVE x \in Lift(Lift(a, o), q) <=> x \in Lift(a, o + q)
  <2>1. /\ x \in Lift(Lift(a, o), q) <=> x - q \in Lift(a, o)
        /\ x - q \in Lift(a, o) <=> (x - q) - o \in a
        /\ x \in Lift(a, o + q) <=> x - (o + q) \in a
    BY <1>1, InLift
  <2>2. (x - q) - o = x - (o + q)
    OBVIOUS
  <2>3. QED  BY <2>1, <2>2
<1>3. QED  BY <1>1, <1>2

\* A shift of the register, its reduction included, is a step of the division, whatever
\* stands below the bit that is taken away (crc.cpp:21-23).
LEMMA ShiftDivides ==
  ASSUME NEW c \in Word, NEW o \in Int, NEW low \in SUBSET Int, o + 23 \notin low
  PROVE  Reduce(Xor(Lift(c, o), low), o + 23) = Xor(Lift(ShiftOne(c), o - 1), low)
<1> DEFINE up == Lift(c, 1)
<1>1. c \in SUBSET Int /\ Generator \in SUBSET Int
  BY DEF Word, Generator
<1>2. up \in SUBSET Int /\ Lift(c, o) = Lift(up, o - 1)
  <2>1. 1 + (o - 1) = o
    OBVIOUS
  <2>2. QED  BY <1>1, <2>1, InLift, LiftTwice
<1>3. o + 23 \in Xor(Lift(c, o), low) <=> 23 \in c
  <2>1. (o + 23) - o = 23
    OBVIOUS
  <2>2. o + 23 \in Lift(c, o) <=> 23 \in c
    BY <1>1, <2>1, InLift
  <2>3. QED  BY <2>2 DEF Xor
<1>4. { (o + 23) - 24 + g : g \in Generator } = Lift(Generator, o - 1)
  <2>1. \A g \in Generator : (o + 23) - 24 + g = g + (o - 1)
    BY <1>1
  <2>2. QED  BY <2>1 DEF Lift
<1>5. up \subseteq 1..24 /\ (24 \in up <=> 23 \in c)
  <2>1. 24 - 1 = 23
    OBVIOUS
  <2>2. QED  BY <1>1, <2>1, InLift DEF Lift, Word
<1>6. ShiftOne(c) = (IF 23 \in c THEN Xor(up, Generator) ELSE up) \cap 0..23
  BY DEF ShiftOne, Lift
<1> HIDE DEF up
<1>7. CASE 23 \in c
  <2>1. Generator \subseteq 0..24 /\ 24 \in Generator
    BY DEF Generator
  <2>2. ShiftOne(c) = Xor(up, Generator)
    <3>1. Xor(up, Generator) \subseteq 0..23
      BY <1>5, <1>7, <2>1 DEF Xor
    <3>2. QED  BY <1>6, <1>7, <3>1
  <2>3. Reduce(Xor(Lift(c, o), low), o + 23) = Xor(Xor(Lift(up, o - 1), low), Lift(Generator, o - 1))
    BY <1>2, <1>3, <1>4, <1>7 DEF Reduce
  <2>4. Lift(ShiftOne(c), o - 1) = Xor(Lift(up, o - 1), Lift(Generator, o - 1))
    BY <1>1, <1>2, <2>2, LiftXor
  <2>5. Xor(Xor(Lift(up, o - 1), low), Lift(Generator, o - 1))
        = Xor(Xor(Lift(up, o - 1), Lift(Generator, o - 1)), low)
    BY XorSwap
  <2>6. QED  BY <2>3, <2>4, <2>5, Zenon
<1>8. CASE 23 \notin c
  <2>1. up \subseteq 0..23
    BY <1>5, <1>8
  <2>2. ShiftOne(c) = up
    BY <1>6, <1>8, <2>1
  <2>3. QED  BY <1>2, <1>3, <1>8, <2>2 DEF Reduce
<1>9. QED  BY <1>7, <1>8

\* The bits of a byte.
LEMMA BitsType ==
  ASSUME NEW b  PROVE Bits(b) \subseteq 0..7
BY DEF Bits

\* Eight steps for a byte take away its exponents (crc.cpp:18-26).
LEMMA ByteDivides ==
  ASSUME NEW c \in Word, NEW b, NEW o \in Int,
         NEW low \in SUBSET Int, \A x \in low : x < o + 16,
         NEW left \in [0..8 -> SUBSET Int],
         left[0] = Xor(Lift(c, o), Xor(Lift(Bits(b), o + 16), low)),
         \A k \in 1..8 : left[k] = Reduce(left[k - 1], o + 24 - k)
  PROVE  left[8] = Xor(Lift(CrcByte(c, b), o - 8), low)
<1>1. PICK reg \in [0..8 -> Word] :
        /\ reg[0] = Xor(c, { k + 16 : k \in Bits(b) })
        /\ \A k \in 1..8 : reg[k] = ShiftOne(reg[k - 1])
        /\ CrcByte(c, b) = reg[8]
  BY CrcByteSteps
<1> DEFINE W == { k \in 0..8 : left[k] = Xor(Lift(reg[k], o - k), low) }
<1>2. 0 \in W
  <2>1. reg[0] = Xor(c, Lift(Bits(b), 16))
    BY <1>1 DEF Lift
  <2>2. c \in SUBSET Int /\ Bits(b) \in SUBSET Int
    BY BitsType DEF Word
  <2>3. Lift(Bits(b), 16) \in SUBSET Int /\ Lift(Lift(Bits(b), 16), o) = Lift(Bits(b), o + 16)
    <3>1. 16 + o = o + 16
      OBVIOUS
    <3>2. Lift(Lift(Bits(b), 16), o) = Lift(Bits(b), 16 + o)
      BY <2>2, LiftTwice
    <3>3. Lift(Bits(b), 16) \in SUBSET Int
      BY <2>2, InLift
    <3>4. QED  BY <3>1, <3>2, <3>3, Zenon
  <2>4. Lift(reg[0], o) = Xor(Lift(c, o), Lift(Bits(b), o + 16))
    BY <2>1, <2>2, <2>3, LiftXor
  <2>5. left[0] = Xor(Lift(reg[0], o), low)
    <3>1. Xor(Lift(c, o), Xor(Lift(Bits(b), o + 16), low))
          = Xor(Xor(Lift(c, o), Lift(Bits(b), o + 16)), low)
      BY XorSwap
    <3>2. QED  BY <2>4, <3>1, Zenon
  <2>6. o - 0 = o /\ 0 \in 0..8
    OBVIOUS
  <2>7. QED  BY <2>5, <2>6
<1>3. ASSUME NEW k \in 1..8, k - 1 \in W  PROVE k \in W
  <2> DEFINE q == o - (k - 1)
  <2>1. q \in Int /\ o + 24 - k = q + 23 /\ o - k = q - 1 /\ k - 1 \in 0..8 /\ k \in 0..8
    OBVIOUS
  <2>2. q + 23 \notin low
    <3>1. ~(q + 23 < o + 16)
      OBVIOUS
    <3>2. QED  BY <3>1
  <2>3. left[k - 1] = Xor(Lift(reg[k - 1], q), low)
    BY <1>3
  <2> HIDE DEF q
  <2>4. reg[k - 1] \in Word
    BY <2>1
  <2>5. left[k] = Reduce(Xor(Lift(reg[k - 1], q), low), q + 23)
    BY <2>1, <2>3
  <2>6. left[k] = Xor(Lift(ShiftOne(reg[k - 1]), q - 1), low)
    BY <2>1, <2>2, <2>4, <2>5, ShiftDivides
  <2>7. QED  BY <1>1, <2>1, <2>6
<1>4. 8 \in W
  <2> HIDE DEF W
  <2>1. \A k \in 0..8 : k \in W
    BY <1>2, <1>3, BoundedInduction
  <2>2. QED  BY <2>1
<1>5. QED  BY <1>1, <1>4

-----------------------------------------------------------------------------
(* A message *)

\* The polynomial of the bytes behind the first i, where they stand in the message.
Rest(p, i) == UNION { Lift(Bits(p[j]), 8 * (Len(p) - j)) : j \in (i + 1)..Len(p) }

LEMMA BitsLifted ==
  ASSUME NEW b, NEW o \in Int
  PROVE  /\ Lift(Bits(b), o) \in SUBSET Int
         /\ \A x \in Lift(Bits(b), o) : o <= x /\ x < o + 8
<1>1. Bits(b) \subseteq 0..7
  BY BitsType
<1>2. ASSUME NEW k \in Bits(b)  PROVE k + o \in Int /\ o <= k + o /\ k + o < o + 8
  BY <1>1
<1>3. QED  BY <1>2 DEF Lift

\* The next byte stands above the others.
LEMMA RestOfMessage ==
  ASSUME NEW p \in Seq(Octet), NEW i \in 0..Len(p)
  PROVE  /\ Rest(p, i) \in SUBSET Int
         /\ \A x \in Rest(p, i) : x < 8 * (Len(p) - i)
         /\ i < Len(p) => Rest(p, i) = Xor(Lift(Bits(p[i + 1]), 8 * (Len(p) - (i + 1))), Rest(p, i + 1))
<1> DEFINE n == Len(p)
           Block(j) == Lift(Bits(p[j]), 8 * (n - j))
<1>1. n \in Nat /\ i \in Nat
  OBVIOUS
<1>2. ASSUME NEW j \in (i + 1)..n, NEW x \in Block(j)
      PROVE  x \in Int /\ 8 * (n - j) <= x /\ x < 8 * (n - j) + 8
  <2>1. 8 * (n - j) \in Int
    BY <1>1
  <2>2. QED  BY <1>2, <2>1, BitsLifted
<1>3. Rest(p, i) = UNION { Block(j) : j \in (i + 1)..n }
  BY DEF Rest
<1>4. Rest(p, i) \in SUBSET Int
  BY <1>2, <1>3
<1>5. ASSUME NEW x \in Rest(p, i)  PROVE x < 8 * (n - i)
  <2>1. PICK j \in (i + 1)..n : x \in Block(j)
    BY <1>3
  <2>2. x \in Int /\ x < 8 * (n - j) + 8
    BY <1>2, <2>1
  <2>3. 8 * (n - j) + 8 <= 8 * (n - i)
    BY <1>1
  <2> HIDE DEF n, Block
  <2>4. QED  BY <1>1, <2>2, <2>3
<1>6. ASSUME i < n
      PROVE  Rest(p, i) = Xor(Block(i + 1), Rest(p, i + 1))
  <2>1. (i + 1)..n = {i + 1} \cup ((i + 1) + 1)..n
    BY <1>1, <1>6
  <2>2. Rest(p, i + 1) = UNION { Block(j) : j \in ((i + 1) + 1)..n }
    BY DEF Rest
  <2>3. Rest(p, i) = Block(i + 1) \cup Rest(p, i + 1)
    <3> HIDE DEF Block, n
    <3>1. QED  BY <1>3, <2>1, <2>2
  <2>4. ASSUME NEW x \in Block(i + 1), x \in Rest(p, i + 1)  PROVE FALSE
    <3>1. PICK j \in ((i + 1) + 1)..n : x \in Block(j)
      BY <2>2, <2>4
    <3>2. i + 1 \in (i + 1)..n /\ j \in (i + 1)..n
      BY <1>1, <1>6
    <3>3. x \in Int /\ 8 * (n - (i + 1)) <= x /\ x < 8 * (n - j) + 8
      BY <1>2, <2>4, <3>1, <3>2
    <3>4. 8 * (n - j) + 8 <= 8 * (n - (i + 1))
      BY <1>1
    <3> HIDE DEF n, Block
    <3>5. QED  BY <1>1, <3>3, <3>4
  <2>5. QED  BY <2>3, <2>4, Zenon DEF Xor
<1>7. QED  BY <1>4, <1>5, <1>6

\* A message as a polynomial is what is behind no byte, and its trailer what is behind all
\* but three.
LEMMA RestAtEnds ==
  ASSUME NEW p \in Seq(Octet)
  PROVE  /\ Polynomial(p) = Rest(p, 0)
         /\ Len(p) >= 3 => ReceivedCrc(p) = Rest(p, Len(p) - 3)
<1> DEFINE n == Len(p)
           Block(j) == Lift(Bits(p[j]), 8 * (n - j))
<1>1. n \in Nat /\ DOMAIN p = 1..n
  OBVIOUS
<1>2. ASSUME NEW j \in Int  PROVE { 8 * (n - j) + k : k \in Bits(p[j]) } = Block(j)
  <2>1. \A k \in Bits(p[j]) : 8 * (n - j) + k = k + 8 * (n - j)
    BY <1>1, BitsType
  <2>2. QED  BY <2>1 DEF Lift
<1>3. Polynomial(p) = UNION { Block(j) : j \in 1..n }
  <2> DEFINE Raw(j) == { 8 * (n - j) + k : k \in Bits(p[j]) }
  <2>1. Polynomial(p) = UNION { Raw(j) : j \in 1..n }
    BY <1>1 DEF Polynomial
  <2>2. \A j \in 1..n : j \in Int
    OBVIOUS
  <2>3. \A j \in 1..n : Raw(j) = Block(j)
    BY <1>2, <2>2, Zenon
  <2> HIDE DEF Block, Raw
  <2>4. QED  BY <2>1, <2>3
<1>4. Rest(p, 0) = UNION { Block(j) : j \in 1..n }
  BY DEF Rest
<1>5. ASSUME n >= 3  PROVE ReceivedCrc(p) = Rest(p, n - 3)
  <2>1. ((n - 3) + 1)..n = {n - 2, n - 1, n}
    BY <1>1
  <2>2. Rest(p, n - 3) = UNION { Block(j) : j \in ((n - 3) + 1)..n }
    BY DEF Rest
  <2>3. Rest(p, n - 3) = Block(n - 2) \cup Block(n - 1) \cup Block(n)
    <3> HIDE DEF Block
    <3>1. QED  BY <2>1, <2>2
  <2>4. /\ 8 * (n - (n - 2)) = 16 /\ 8 * (n - (n - 1)) = 8 /\ 8 * (n - n) = 0
    BY <1>1
  <2>5. /\ Block(n - 2) = { k + 16 : k \in Bits(p[n - 2]) }
        /\ Block(n - 1) = { k + 8 : k \in Bits(p[n - 1]) }
    BY <2>4, Zenon DEF Lift
  <2>6. Block(n) = Bits(p[n])
    <3>1. Block(n) = { k + 0 : k \in Bits(p[n]) }
      BY <2>4, Zenon DEF Lift
    <3>2. \A k \in Bits(p[n]) : k + 0 = k
      BY BitsType
    <3>3. QED  BY <3>1, <3>2
  <2>7. QED  BY <2>3, <2>5, <2>6 DEF ReceivedCrc
<1>6. QED  BY <1>3, <1>4, <1>5

\* After the bytes that the register took, the division has left the register, and the bytes
\* behind it.
LEMMA RegisterDivides ==
  ASSUME NEW p \in Seq(Octet), Len(p) >= 3
  PROVE  Remainder(Polynomial(p), Len(p))
         = Xor(crc24q(SubSeq(p, 1, Len(p) - 3)), ReceivedCrc(p))
<1> DEFINE n == Len(p)
           data == SubSeq(p, 1, n - 3)
<1>1. /\ n \in Nat /\ n >= 3
      /\ data \in Seq(Octet) /\ Len(data) = n - 3
      /\ \A i \in 1..(n - 3) : data[i] = p[i]
  <2>1. n \in Nat /\ n >= 3 /\ n - 3 \in Nat
    OBVIOUS
  <2>2. ASSUME NEW i \in 1..(n - 3)  PROVE p[i] \in Octet
    <3>1. i \in 1..Len(p)
      BY <2>1
    <3>2. QED  BY <3>1, ElementOfSeq
  <2>3. data \in Seq(Octet) /\ Len(data) = n - 3
    <3>1. 1 \in Int /\ n - 3 \in Int /\ (n - 3) - 1 + 1 = n - 3 /\ ~(1 <= n - 3) => n - 3 = 0
      BY <2>1
    <3>2. QED  BY <2>1, <2>2, <3>1, SubSeqProperties
  <2>4. \A i \in 1..(n - 3) : data[i] = p[i]
    OBVIOUS
  <2>5. QED  BY <2>1, <2>3, <2>4
<1> HIDE DEF n, data
<1>2. Polynomial(p) \in SUBSET Int
  <2>1. 0 \in 0..n
    BY <1>1
  <2>2. QED  BY <2>1, RestAtEnds, RestOfMessage DEF n
<1>3. PICK reg \in [0..(n - 3) -> Word] :
        /\ reg[0] = {}
        /\ \A i \in 1..(n - 3) : reg[i] = CrcByte(reg[i - 1], data[i])
        /\ crc24q(data) = reg[n - 3]
  BY <1>1, CrcSteps
<1>4. PICK left \in [0..(8 * (n - 3)) -> SUBSET Int] :
        /\ left[0] = Polynomial(p)
        /\ \A i \in 1..(8 * (n - 3)) : left[i] = Reduce(left[i - 1], 8 * n - i)
        /\ Remainder(Polynomial(p), n) = left[8 * (n - 3)]
  BY <1>1, <1>2, DivisionSteps
<1> DEFINE W == { i \in 0..(n - 3) : left[8 * i] = Xor(Lift(reg[i], 8 * (n - i) - 24), Rest(p, i)) }
<1>5. 0 \in W
  <2>1. Lift(reg[0], 8 * (n - 0) - 24) = {}
    BY <1>3 DEF Lift
  <2>2. Xor({}, Rest(p, 0)) = Rest(p, 0)
    BY Zenon DEF Xor
  <2>3. 0 \in 0..(n - 3) /\ 8 * 0 = 0
    BY <1>1
  <2>4. QED  BY <1>4, <2>1, <2>2, <2>3, RestAtEnds
<1>6. ASSUME NEW i \in 1..(n - 3), i - 1 \in W  PROVE i \in W
  <2> DEFINE o == 8 * (n - (i - 1)) - 24
             m == 8 * (i - 1)
             part == [k \in 0..8 |-> left[m + k]]
             c == reg[i - 1]
             low == Rest(p, i)
  <2>1. /\ i \in 0..n /\ i - 1 \in 0..n /\ i - 1 < n /\ (i - 1) + 1 = i
        /\ i \in 0..(n - 3) /\ i - 1 \in 0..(n - 3)
    BY <1>1
  <2>2. /\ o \in Int /\ o + 16 = 8 * (n - i) /\ o - 8 = 8 * (n - i) - 24
        /\ m \in Int /\ m + 0 = m /\ m + 8 = 8 * i
    BY <1>1
  <2>3. c \in Word
    BY <2>1
  <2>4. low \in SUBSET Int /\ \A x \in low : x < o + 16
    BY <2>1, <2>2, RestOfMessage DEF n
  <2>5. Rest(p, i - 1) = Xor(Lift(Bits(p[i]), o + 16), low)
    BY <2>1, <2>2, RestOfMessage DEF n
  <2>6. \A k \in 0..8 : m + k \in 0..(8 * (n - 3))
    BY <1>1
  <2>7. part \in [0..8 -> SUBSET Int]
    BY <2>6
  <2>8. part[0] = Xor(Lift(c, o), Xor(Lift(Bits(p[i]), o + 16), low))
    <3>1. left[m] = Xor(Lift(c, o), Rest(p, i - 1))
      BY <1>6
    <3> HIDE DEF o, m, c, low
    <3>2. QED  BY <2>2, <2>5, <3>1
  <2>9. ASSUME NEW k \in 1..8  PROVE part[k] = Reduce(part[k - 1], o + 24 - k)
    <3>1. /\ m + k \in 1..(8 * (n - 3)) /\ k - 1 \in 0..8 /\ k \in 0..8
          /\ (m + k) - 1 = m + (k - 1) /\ 8 * n - (m + k) = o + 24 - k
      BY <1>1
    <3>2. left[m + k] = Reduce(left[(m + k) - 1], 8 * n - (m + k))
      BY <1>4, <3>1
    <3> HIDE DEF o, m
    <3>3. QED  BY <3>1, <3>2
  <2>10. part[8] = Xor(Lift(CrcByte(c, p[i]), o - 8), low)
    <3> HIDE DEF o, m, c, low, part
    <3>1. o \in Int
      BY <2>2
    <3>2. QED  BY ONLY <2>3, <2>4, <2>7, <2>8, <2>9, <3>1, ByteDivides, ZenonT(40)
  <2>11. reg[i] = CrcByte(c, p[i])
    BY <1>1, <1>3
  <2>12. left[8 * i] = part[8]
    BY <2>2
  <2> HIDE DEF o, m, c, low, part
  <2>13. left[8 * i] = Xor(Lift(reg[i], 8 * (n - i) - 24), Rest(p, i))
    BY <2>2, <2>10, <2>11, <2>12 DEF low
  <2>14. QED  BY <2>1, <2>13
<1>7. n - 3 \in W
  <2> HIDE DEF W
  <2>1. n - 3 \in Nat /\ n - 3 \in 0..(n - 3)
    BY <1>1
  <2>2. \A i \in 0..(n - 3) : i \in W
    BY <1>5, <1>6, <2>1, BoundedInduction
  <2>3. QED  BY <2>1, <2>2
<1>8. Lift(reg[n - 3], 8 * (n - (n - 3)) - 24) = reg[n - 3]
  <2>1. 8 * (n - (n - 3)) - 24 = 0 /\ n - 3 \in 0..(n - 3)
    BY <1>1
  <2>2. reg[n - 3] \in SUBSET Int
    <3>1. reg[n - 3] \in Word
      BY <2>1
    <3>2. 0..23 \subseteq Int
      OBVIOUS
    <3>3. QED  BY <3>1, <3>2, Zenon DEF Word
  <2>3. \A k \in reg[n - 3] : k + 0 = k
    BY <2>2
  <2>4. QED  BY <2>1, <2>3 DEF Lift
<1>9. ReceivedCrc(p) = Rest(p, n - 3)
  BY <1>1, RestAtEnds DEF n
<1>10. Remainder(Polynomial(p), n) = Xor(crc24q(data), ReceivedCrc(p))
  BY <1>3, <1>4, <1>7, <1>8, <1>9
<1>11. QED  BY <1>10 DEF n, data

-----------------------------------------------------------------------------
(* Length, and the whole *)

\* A byte is known by its bits.
LEMMA BitsDetermine ==
  ASSUME NEW a \in Octet, NEW b \in Octet, Bits(a) = Bits(b)
  PROVE  a = b
<1> DEFINE Has(x, v) == (x \div v) % 2 = 1
<1>1. /\ Place[1] = 1 /\ Place[2] = 2 /\ Place[3] = 4 /\ Place[4] = 8
      /\ Place[5] = 16 /\ Place[6] = 32 /\ Place[7] = 64 /\ Place[8] = 128
  BY DEF Place
<1>2. \A k \in 0..7 : Has(a, Place[k + 1]) <=> Has(b, Place[k + 1])
  BY DEF Bits
<1> HIDE DEF Has
<1>3. /\ Has(a, Place[0 + 1]) <=> Has(b, Place[0 + 1])
      /\ Has(a, Place[1 + 1]) <=> Has(b, Place[1 + 1])
      /\ Has(a, Place[2 + 1]) <=> Has(b, Place[2 + 1])
      /\ Has(a, Place[3 + 1]) <=> Has(b, Place[3 + 1])
      /\ Has(a, Place[4 + 1]) <=> Has(b, Place[4 + 1])
      /\ Has(a, Place[5 + 1]) <=> Has(b, Place[5 + 1])
      /\ Has(a, Place[6 + 1]) <=> Has(b, Place[6 + 1])
      /\ Has(a, Place[7 + 1]) <=> Has(b, Place[7 + 1])
  <2>1. /\ 0 \in 0..7 /\ 1 \in 0..7 /\ 2 \in 0..7 /\ 3 \in 0..7
        /\ 4 \in 0..7 /\ 5 \in 0..7 /\ 6 \in 0..7 /\ 7 \in 0..7
    OBVIOUS
  <2>2. QED  BY <1>2, <2>1, Zenon
<1>4. /\ Place[0 + 1] = 1 /\ Place[1 + 1] = 2 /\ Place[2 + 1] = 4 /\ Place[3 + 1] = 8
      /\ Place[4 + 1] = 16 /\ Place[5 + 1] = 32 /\ Place[6 + 1] = 64 /\ Place[7 + 1] = 128
  BY <1>1
<1>5. /\ Has(a, 1) <=> Has(b, 1)
      /\ Has(a, 2) <=> Has(b, 2)
      /\ Has(a, 4) <=> Has(b, 4)
      /\ Has(a, 8) <=> Has(b, 8)
      /\ Has(a, 16) <=> Has(b, 16)
      /\ Has(a, 32) <=> Has(b, 32)
      /\ Has(a, 64) <=> Has(b, 64)
      /\ Has(a, 128) <=> Has(b, 128)
  BY ONLY <1>3, <1>4, Zenon
<1>6. /\ (a \div 1) % 2 = 1 <=> (b \div 1) % 2 = 1
      /\ (a \div 2) % 2 = 1 <=> (b \div 2) % 2 = 1
      /\ (a \div 4) % 2 = 1 <=> (b \div 4) % 2 = 1
      /\ (a \div 8) % 2 = 1 <=> (b \div 8) % 2 = 1
      /\ (a \div 16) % 2 = 1 <=> (b \div 16) % 2 = 1
      /\ (a \div 32) % 2 = 1 <=> (b \div 32) % 2 = 1
      /\ (a \div 64) % 2 = 1 <=> (b \div 64) % 2 = 1
      /\ (a \div 128) % 2 = 1 <=> (b \div 128) % 2 = 1
  BY <1>5, Zenon DEF Has
<1>7. a \in Nat /\ a <= 255 /\ b \in Nat /\ b <= 255
  BY DEF Octet
<1>8. QED  BY ONLY <1>6, <1>7, SMTT(40)

\* Two bits that are taken off a byte's others.
LEMMA LowBits ==
  ASSUME NEW b \in Octet
  PROVE  Bits(b) \cap {0, 1} = Bits(b % 4)
<1>1. /\ Place[1] = 1 /\ Place[2] = 2 /\ Place[3] = 4 /\ Place[4] = 8
      /\ Place[5] = 16 /\ Place[6] = 32 /\ Place[7] = 64 /\ Place[8] = 128
  BY DEF Place
<1>2. b \in Nat /\ b % 4 \in 0..3
  BY DEF Octet
<1>3. ASSUME NEW k \in 0..7, k >= 2  PROVE ((b % 4) \div Place[k + 1]) % 2 = 0
  <2>1. k \in {2, 3, 4, 5, 6, 7}
    BY <1>3
  <2>2. Place[k + 1] \in Nat /\ Place[k + 1] >= 4
    BY <1>1, <2>1
  <2>3. (b % 4) \div Place[k + 1] = 0
    BY <1>1, <1>2, <2>1
  <2>4. QED  BY <2>3
<1>4. /\ (b \div 1) % 2 = ((b % 4) \div 1) % 2
      /\ (b \div 2) % 2 = ((b % 4) \div 2) % 2
  BY <1>2
<1>5. /\ 0 \in Bits(b) <=> 0 \in Bits(b % 4)
      /\ 1 \in Bits(b) <=> 1 \in Bits(b % 4)
  BY <1>1, <1>4 DEF Bits
<1>6. \A k \in Bits(b % 4) : k \in {0, 1}
  BY <1>3 DEF Bits
<1>7. QED  BY <1>5, <1>6, BitsType

\* The ten bits of a length, and its two parts.
TopBits(hi) == hi % 4
TenBits(hi, lo) == TopBits(hi) * 256 + lo
HighPart(n) == n \div 256
LowPart(n) == n % 256

LEMMA TenBitsParts ==
  ASSUME NEW hi \in Octet, NEW lo \in Octet
  PROVE  /\ TopBits(hi) \in Octet
         /\ TenBits(hi, lo) \in Lengths
         /\ LowPart(TenBits(hi, lo)) = lo
         /\ HighPart(TenBits(hi, lo)) = TopBits(hi)
<1>1. TopBits(hi) \in 0..3 /\ lo \in Nat /\ lo <= 255
  BY DEF TopBits, Octet
<1>2. TopBits(hi) * 256 + lo \in Nat /\ TopBits(hi) * 256 + lo <= 1023
  BY ONLY <1>1
<1>3. /\ (TopBits(hi) * 256 + lo) % 256 = lo
      /\ (TopBits(hi) * 256 + lo) \div 256 = TopBits(hi)
  BY ONLY <1>1
<1>4. TopBits(hi) \in Octet
  BY ONLY <1>1 DEF Octet
<1>5. TenBits(hi, lo) \in Lengths
  BY ONLY <1>2 DEF TenBits, Lengths
<1>6. QED  BY <1>3, <1>4, <1>5 DEF TenBits, LowPart, HighPart

LEMMA PartsDetermine ==
  ASSUME NEW n \in Lengths, NEW m \in Lengths, LowPart(n) = LowPart(m), HighPart(n) = HighPart(m)
  PROVE  n = m
<1>1. n \in Int /\ m \in Int
  BY DEF Lengths
<1>2. n % 256 = m % 256 /\ n \div 256 = m \div 256
  BY DEF LowPart, HighPart
<1>3. QED  BY ONLY <1>1, <1>2

LEMMA PartsType ==
  ASSUME NEW n \in Lengths  PROVE LowPart(n) \in Octet /\ HighPart(n) \in Octet
<1>1. n \in Nat /\ n <= 1023
  BY DEF Lengths
<1>2. n % 256 \in Nat /\ n % 256 <= 255 /\ n \div 256 \in Nat /\ n \div 256 <= 255
  BY ONLY <1>1
<1>3. QED  BY ONLY <1>2 DEF LowPart, HighPart, Octet

\* The length as handle_rtcm computes it is the ten bits of the definition
\* (radio_bridge_node.cpp:535-537).
LEMMA LengthAgrees ==
  ASSUME NEW p \in Seq(Octet), Len(p) >= 6
  PROVE  Len(p) = expected_length(p) <=> \E n \in Lengths : Len(p) = n + 6 /\ SpeltIn(p, n)
<1> DEFINE hi == p[2]
           lo == p[3]
           high == TopBits(hi)
           size == TenBits(hi, lo)
<1>1. hi \in Octet /\ lo \in Octet
  <2>1. Len(p) \in Nat /\ 2 \in 1..Len(p) /\ 3 \in 1..Len(p)
    OBVIOUS
  <2>2. QED  BY <2>1, ElementOfSeq
<1>2. expected_length(p) = 3 + (hi % 4) * 256 + lo + 3
  BY DEF expected_length
<1> HIDE DEF hi, lo
<1>3. Bits(hi) \cap {0, 1} = Bits(high)
  BY <1>1, LowBits DEF TopBits
<1>4. /\ high \in Octet /\ size \in Lengths
      /\ LowPart(size) = lo /\ HighPart(size) = high
  BY <1>1, TenBitsParts, Zenon
<1>5. expected_length(p) = size + 6
  BY ONLY <1>1, <1>2 DEF TenBits, TopBits, Octet
<1> HIDE DEF high, size
<1>6. ASSUME NEW n \in Lengths
      PROVE  SpeltIn(p, n) <=> n = size
  <2>1. LowPart(n) \in Octet /\ HighPart(n) \in Octet
    BY PartsType, Zenon
  <2>2. SpeltIn(p, n) <=> Bits(LowPart(n)) = Bits(lo) /\ Bits(HighPart(n)) = Bits(high)
    BY <1>3 DEF SpeltIn, LowPart, HighPart, hi, lo
  <2>3. ASSUME SpeltIn(p, n)  PROVE n = size
    <3>1. LowPart(n) = lo
      BY <1>1, <2>1, <2>2, <2>3, BitsDetermine, Zenon
    <3>2. HighPart(n) = high
      BY <1>4, <2>1, <2>2, <2>3, BitsDetermine, Zenon
    <3>3. QED  BY <1>4, <3>1, <3>2, PartsDetermine, Zenon
  <2>4. ASSUME n = size  PROVE SpeltIn(p, n)
    BY <1>4, <2>2, <2>4, Zenon
  <2>5. QED  BY <2>3, <2>4
<1>7. QED  BY <1>4, <1>5, <1>6, Zenon

\* handle_rtcm publishes exactly the whole RTCM 3 messages.
LEMMA AcceptedIsWhole == Accepted = WholeMessages
<1>1. ASSUME NEW p \in Payloads, Len(p) >= 6
      PROVE  crc24q(SubSeq(p, 1, Len(p) - 3)) = ReceivedCrc(p) <=> Remainder(Polynomial(p), Len(p)) = {}
  <2>1. p \in Seq(Octet) /\ Len(p) >= 3
    BY <1>1, PayloadsAssumption
  <2>2. Remainder(Polynomial(p), Len(p)) = Xor(crc24q(SubSeq(p, 1, Len(p) - 3)), ReceivedCrc(p))
    BY <2>1, RegisterDivides
  <2>3. \A a, b : Xor(a, b) = {} <=> a = b
    BY Zenon DEF Xor
  <2>4. QED  BY <2>2, <2>3
<1>2. ASSUME NEW p \in Payloads, Len(p) >= 6
      PROVE  Len(p) = expected_length(p) <=> \E n \in Lengths : Len(p) = n + 6 /\ SpeltIn(p, n)
  <2>1. p \in Seq(Octet)
    BY PayloadsAssumption
  <2>2. QED  BY <1>2, <2>1, LengthAgrees, Zenon
<1>3. ASSUME NEW p \in Payloads  PROVE p \in Accepted <=> p \in WholeMessages
  <2> DEFINE sized == \E n \in Lengths : Len(p) = n + 6 /\ SpeltIn(p, n)
             checked == crc24q(SubSeq(p, 1, Len(p) - 3)) = ReceivedCrc(p)
             divided == Remainder(Polynomial(p), Len(p)) = {}
             long == Len(p) >= 6
  <2>1. p \in Accepted <=> long /\ p[1] = 211 /\ Len(p) = expected_length(p) /\ checked
    BY DEF Accepted
  <2>2. p \in WholeMessages <=> long /\ p[1] = 211 /\ sized /\ divided
    BY DEF WholeMessages
  <2>3. long => (checked <=> divided) /\ (Len(p) = expected_length(p) <=> sized)
    BY <1>1, <1>2
  <2> HIDE DEF sized, checked, divided, long
  <2>4. QED  BY <2>1, <2>2, <2>3
<1>4. Accepted \subseteq Payloads /\ WholeMessages \subseteq Payloads
  BY DEF Accepted, WholeMessages
<1>5. QED  BY <1>3, <1>4, Zenon

\* RelaysWholeMessages holds in every state: a correction is on /rtcm exactly when it is a whole
\* RTCM 3 message, of whatever length (radio_bridge_node.cpp:526-557, crc.cpp:16-27).
THEOREM MessagesRelayedWhole == Spec => []RelaysWholeMessages
<1>1. Init => RelaysWholeMessages
  BY DEF Init, RtcmInit, RelaysWholeMessages
<1>2. RelaysWholeMessages /\ [Next]_vars => RelaysWholeMessages'
  <2> SUFFICES ASSUME RelaysWholeMessages, [Next]_vars  PROVE RelaysWholeMessages'
    OBVIOUS
  <2>1. CASE HandleRtcm
    BY <2>1, AcceptedIsWhole DEF HandleRtcm, RelaysWholeMessages
  <2>2. CASE UNCHANGED rtcmVars
    BY <2>2 DEF rtcmVars, RelaysWholeMessages
  <2>3. QED
    BY <2>1, <2>2 DEF Next, ReadBytes, ReadRtcm, TimePasses, CheckLink, vars
<1>3. QED  BY <1>1, <1>2, PTL DEF Spec
=============================================================================
