--------------------------- MODULE OutboundProofs ---------------------------
(***************************************************************************)
(* Proofs about Outbound for every set of sources, queue capacity and      *)
(* number of samples and frames.                                           *)
(***************************************************************************)
EXTENDS Outbound, SequenceTheorems, TLAPS

\* What a frame of a queue says.
Payloads(type) == IF type = "autonomy_status" THEN Statuses ELSE {Sentence}

\* A source whose flag is set left a sample in the cache.
Seen == \A s \in received : cache[s] > 0

\* Where a frame may be, and with which number: numbers are given out once, a queue and
\* the slot hold only their own kind, a queue is in order, and what waits was built after
\* what is on the wire.
Order ==
  /\ \A c \in Classes : \A i \in DOMAIN queues[c] :
       /\ queues[c][i].type = c
       /\ Numbered => queues[c][i].sequence < tx_sequence
  /\ slot # NoFrame => /\ slot.type = "telemetry"
                       /\ Numbered => slot.sequence < tx_sequence
  /\ Numbered =>
       /\ \A i \in DOMAIN wire : wire[i].sequence < tx_sequence
       /\ \A c \in Classes : \A i, j \in DOMAIN queues[c] :
            i < j => queues[c][i].sequence < queues[c][j].sequence
       /\ \A c \in Classes : \A i \in DOMAIN wire, j \in DOMAIN queues[c] :
            wire[i].type = c => wire[i].sequence < queues[c][j].sequence
       /\ \A i \in DOMAIN wire :
            wire[i].type = "telemetry" /\ slot # NoFrame => wire[i].sequence < slot.sequence

IInv == TypeOK /\ Seen /\ NoSourceInvented /\ Order /\ WireInOrder

-----------------------------------------------------------------------------
(* Queues *)

\* The frames of a queue after a push: the old ones, short of the first when the queue
\* was full, and the new one at the end (radio_bridge_node.cpp:721-733).
LEMMA PushedProperties ==
  ASSUME NEW q \in Seq(Frames), NEW f \in Frames, Len(q) <= kQueueCapacity
  PROVE  /\ Pushed(q, f) \in Seq(Frames)
         /\ Len(Pushed(q, f)) \in 1..kQueueCapacity
         /\ Pushed(q, f)[Len(Pushed(q, f))] = f
         /\ \E d \in {0, 1} :
              /\ Len(Pushed(q, f)) = Len(q) + 1 - d
              /\ \A i \in 1..(Len(q) - d) : Pushed(q, f)[i] = q[i + d]
<1> DEFINE d == IF Len(q) >= kQueueCapacity THEN 1 ELSE 0
           r == IF Len(q) >= kQueueCapacity THEN Tail(q) ELSE q
<1>1. kQueueCapacity \in Nat \ {0} /\ Len(q) \in Nat
  BY OutboundAssumption, LenProperties
<1>2. Len(q) >= kQueueCapacity => q # << >>
  BY <1>1
<1>3. r \in Seq(Frames) /\ Len(r) = Len(q) - d /\ \A i \in 1..(Len(q) - d) : r[i] = q[i + d]
  BY <1>1, <1>2, HeadTailProperties
<1>4. Pushed(q, f) = Append(r, f)
  BY DEF Pushed
<1>5. d \in {0, 1} /\ Len(q) - d \in 0..(kQueueCapacity - 1)
  BY <1>1
<1> HIDE DEF d, r
<1>6. /\ Append(r, f) \in Seq(Frames)
      /\ Len(Append(r, f)) = Len(r) + 1
      /\ \A i \in 1..Len(r) : Append(r, f)[i] = r[i]
      /\ Append(r, f)[Len(r) + 1] = f
  BY <1>3, AppendProperties
<1>7. QED  BY <1>1, <1>3, <1>4, <1>5, <1>6

\* Numbers are given out one after the other (radio_bridge_node.cpp:716-719).
LEMMA NumberProperties ==
  ASSUME TypeOK, NEW type \in Classes \cup {"telemetry"}, Number(type)
  PROVE  /\ made' \in Seq(Classes \cup {"telemetry"})
         /\ tx_sequence \in Nat /\ tx_sequence' \in Nat
         /\ tx_sequence <= tx_sequence'
         /\ Numbered => tx_sequence' = tx_sequence + 1
<1>1. made \in Seq(Classes \cup {"telemetry"}) /\ Len(made) \in Nat
  BY LenProperties DEF TypeOK
<1>2. made' = made \/ (Numbered /\ made' = Append(made, type))
  BY DEF Number
<1>3. Append(made, type) \in Seq(Classes \cup {"telemetry"}) /\ Len(Append(made, type)) = Len(made) + 1
  BY <1>1, AppendProperties
<1>4. Numbered => made' = Append(made, type)
  BY DEF Number
<1>5. QED  BY <1>1, <1>2, <1>3, <1>4 DEF tx_sequence

-----------------------------------------------------------------------------
(* The invariant *)

\* The node starts with nothing received, built or queued.
LEMMA IInvInit == Init => IInv
<1> SUFFICES ASSUME Init  PROVE IInv
  OBVIOUS
<1>1. \A S : << >> \in Seq(S)
  OBVIOUS
<1>2. TypeOK
  BY <1>1, OutboundAssumption DEF Init, TypeOK, Frames, Fields
<1>3. Seen /\ Order /\ WireInOrder
  BY DEF Init, Seen, Order, WireInOrder, NoFrame
<1>4. NoSourceInvented
  BY DEF Init, NoSourceInvented, TelemetryFrames, ToSet, NoFrame
<1>5. QED  BY <1>2, <1>3, <1>4 DEF IInv

\* A frame put in a queue is the newest of its kind (radio_bridge_node.cpp:258-275, 696-712).
LEMMA EnqueueStep ==
  ASSUME IInv, NEW type \in Classes, NEW payload \in Payloads(type), Enqueue(type, payload)
  PROVE  IInv'
<1> DEFINE f == [type |-> type, sequence |-> tx_sequence, payload |-> payload]
           q == queues[type]
           r == Pushed(q, f)
<1>1. TypeOK /\ Seen /\ NoSourceInvented /\ Order /\ WireInOrder
  BY DEF IInv
<1>2. /\ made' \in Seq(Classes \cup {"telemetry"})
      /\ tx_sequence \in Nat /\ tx_sequence' \in Nat
      /\ tx_sequence <= tx_sequence'
      /\ Numbered => tx_sequence' = tx_sequence + 1
  BY <1>1, NumberProperties DEF Enqueue
<1>3. f \in Frames
  BY <1>2 DEF Frames, Payloads
<1>4. q \in Seq(Frames) /\ Len(q) <= kQueueCapacity /\ Len(q) \in Nat
  BY <1>1, LenProperties DEF TypeOK
<1>5. /\ r \in Seq(Frames)
      /\ Len(r) \in 1..kQueueCapacity
      /\ r[Len(r)] = f
      /\ \E d \in {0, 1} :
           Len(r) = Len(q) + 1 - d /\ \A i \in 1..(Len(q) - d) : r[i] = q[i + d]
  <2> HIDE DEF f, q
  <2>1. QED  BY <1>3, <1>4, PushedProperties
<1>6. PICK d \in {0, 1} : Len(r) = Len(q) + 1 - d /\ \A i \in 1..(Len(q) - d) : r[i] = q[i + d]
  <2> HIDE DEF f, q, r
  <2>1. QED  BY <1>5
<1>7. queues' = [queues EXCEPT ![type] = r]
  BY DEF Enqueue
<1>8. UNCHANGED << alive, received, cache, slot, taken, wire >>
  BY DEF Enqueue
<1>9. DOMAIN queues' = Classes /\ queues'[type] = r
  BY <1>1, <1>7 DEF TypeOK
<1>10. \A c \in Classes : c # type => queues'[c] = queues[c]
  BY <1>1, <1>7 DEF TypeOK
<1>11. f.type = type /\ f.sequence = tx_sequence
  OBVIOUS
<1> HIDE DEF f, r
<1>12. TypeOK'
  <2>1. \A c \in Classes : queues'[c] \in Seq(Frames) /\ Len(queues'[c]) <= kQueueCapacity
    <3> SUFFICES ASSUME NEW c \in Classes
                 PROVE  queues'[c] \in Seq(Frames) /\ Len(queues'[c]) <= kQueueCapacity
      OBVIOUS
    <3>1. CASE c = type
      BY <3>1, <1>5, <1>9, OutboundAssumption
    <3>2. CASE c # type
      BY <3>2, <1>1, <1>10 DEF TypeOK
    <3>3. QED  BY <3>1, <3>2
  <2>2. QED  BY <2>1, <1>1, <1>2, <1>8, <1>9 DEF TypeOK
<1>13. Seen'
  BY <1>1, <1>8 DEF Seen
<1>14. NoSourceInvented'
  BY <1>1, <1>8 DEF NoSourceInvented, TelemetryFrames
<1>15. WireInOrder'
  BY <1>1, <1>8 DEF WireInOrder
<1>16. DOMAIN r = 1..Len(r) /\ DOMAIN q = 1..Len(q)
  BY <1>4, <1>5, LenProperties
\* An element of the queue after the push is an element of before, or the new one.
<1>17. \A i \in DOMAIN r : \/ i = Len(r) /\ r[i] = f
                           \/ i < Len(r) /\ i + d \in DOMAIN q /\ r[i] = q[i + d]
  BY <1>4, <1>5, <1>6, <1>16
<1>18. \A i \in DOMAIN q : q[i].type = type /\ (Numbered => q[i].sequence < tx_sequence)
  BY <1>1 DEF Order
<1>19. \A i \in DOMAIN q : q[i].sequence \in Nat
  <2>1. \A g \in Frames : g.sequence \in Nat
    BY DEF Frames
  <2>2. QED  BY <2>1, <1>4, ElementOfSeq, <1>16
<1>20. Order'
  <2>1. \A c \in Classes : \A i \in DOMAIN queues'[c] :
           queues'[c][i].type = c /\ (Numbered => queues'[c][i].sequence < tx_sequence')
    <3> SUFFICES ASSUME NEW c \in Classes, NEW i \in DOMAIN queues'[c]
                 PROVE  queues'[c][i].type = c /\ (Numbered => queues'[c][i].sequence < tx_sequence')
      OBVIOUS
    <3>1. CASE c = type
      BY <3>1, <1>2, <1>9, <1>11, <1>17, <1>18, <1>19
    <3>2. CASE c # type
      <4>1. queues'[c] = queues[c] /\ queues[c] \in Seq(Frames)
        BY <3>2, <1>1, <1>10 DEF TypeOK
      <4>2. queues[c][i].sequence \in Nat
        BY <4>1, ElementOfSeq, LenProperties DEF Frames
      <4>3. QED  BY <4>1, <4>2, <1>1, <1>2 DEF Order
    <3>3. QED  BY <3>1, <3>2
  <2>2. slot' # NoFrame => slot'.type = "telemetry" /\ (Numbered => slot'.sequence < tx_sequence')
    <3>1. slot # NoFrame => slot.sequence \in Nat
      BY <1>1 DEF TypeOK, Frames
    <3>2. QED  BY <3>1, <1>1, <1>2, <1>8 DEF Order
  <2>3. ASSUME Numbered
        PROVE  \A i \in DOMAIN wire' : wire'[i].sequence < tx_sequence'
    <3>1. \A i \in DOMAIN wire : wire[i].sequence \in Nat
      BY <1>1, ElementOfSeq, LenProperties DEF TypeOK, Frames
    <3>2. QED  BY <2>3, <3>1, <1>1, <1>2, <1>8 DEF Order
  <2>4. ASSUME Numbered, NEW c \in Classes, NEW i \in DOMAIN queues'[c], NEW j \in DOMAIN queues'[c],
               i < j
        PROVE  queues'[c][i].sequence < queues'[c][j].sequence
    <3>1. CASE c = type
      <4>1. i \in DOMAIN r /\ j \in DOMAIN r /\ i \in Nat /\ j \in Nat
        BY <3>1, <1>9, <1>16
      <4>2. r[i] = q[i + d] /\ i + d \in DOMAIN q
        BY <4>1, <2>4, <1>5, <1>16, <1>17
      <4>3. CASE r[j] = f
        BY <4>2, <4>3, <2>4, <3>1, <1>9, <1>11, <1>18
      <4>4. CASE j + d \in DOMAIN q /\ r[j] = q[j + d]
        <5>1. i + d < j + d
          BY <4>1, <2>4
        <5>2. q[i + d].sequence < q[j + d].sequence
          BY <5>1, <4>2, <4>4, <2>4, <1>1 DEF Order
        <5>3. QED  BY <5>2, <4>2, <4>4, <3>1, <1>9
      <4>5. QED  BY <4>1, <4>3, <4>4, <1>17
    <3>2. CASE c # type
      BY <3>2, <2>4, <1>1, <1>10 DEF Order
    <3>3. QED  BY <3>1, <3>2
  <2>5. ASSUME Numbered, NEW c \in Classes, NEW i \in DOMAIN wire', NEW j \in DOMAIN queues'[c],
               wire'[i].type = c
        PROVE  wire'[i].sequence < queues'[c][j].sequence
    <3>1. CASE c = type
      <4>1. CASE queues'[c][j] = f
        BY <4>1, <2>5, <1>1, <1>8, <1>11 DEF Order
      <4>2. CASE j + d \in DOMAIN q /\ queues'[c][j] = q[j + d]
        BY <4>2, <3>1, <2>5, <1>1, <1>8 DEF Order
      <4>3. QED  BY <4>1, <4>2, <3>1, <1>9, <1>17
    <3>2. CASE c # type
      BY <3>2, <2>5, <1>1, <1>8, <1>10 DEF Order
    <3>3. QED  BY <3>1, <3>2
  <2>6. ASSUME Numbered, NEW i \in DOMAIN wire', wire'[i].type = "telemetry", slot' # NoFrame
        PROVE  wire'[i].sequence < slot'.sequence
    BY <2>6, <1>1, <1>8 DEF Order
  <2>7. QED  BY <2>1, <2>2, <2>3, <2>4, <2>5, <2>6 DEF Order
<1>21. QED  BY <1>12, <1>13, <1>14, <1>15, <1>20 DEF IInv

\* New telemetry replaces what waits in the slot (radio_bridge_node.cpp:285-342).
LEMMA TelemetryStep ==
  ASSUME IInv, OnTelemetryTimer
  PROVE  IInv'
<1> DEFINE f == [type |-> "telemetry", sequence |-> tx_sequence, samples |-> cache]
<1>1. TypeOK /\ Seen /\ NoSourceInvented /\ Order /\ WireInOrder
  BY DEF IInv
<1>2. /\ made' \in Seq(Classes \cup {"telemetry"})
      /\ tx_sequence \in Nat /\ tx_sequence' \in Nat
      /\ tx_sequence <= tx_sequence'
      /\ Numbered => tx_sequence' = tx_sequence + 1
  BY <1>1, NumberProperties DEF OnTelemetryTimer
<1>3. received = Sources /\ slot' = f /\ UNCHANGED << alive, received, cache, queues, taken, wire >>
  BY DEF OnTelemetryTimer, Ready
<1>4. f \in Frames /\ f.type = "telemetry" /\ f.sequence = tx_sequence /\ f.samples = cache
  BY <1>1, <1>2 DEF TypeOK, Frames
<1> HIDE DEF f
<1>5. TypeOK'
  BY <1>1, <1>2, <1>3, <1>4 DEF TypeOK
<1>6. Seen'
  BY <1>1, <1>3 DEF Seen
<1>7. NoSourceInvented'
  BY <1>1, <1>3, <1>4 DEF NoSourceInvented, TelemetryFrames, Seen
<1>8. WireInOrder'
  BY <1>1, <1>3 DEF WireInOrder
<1>9. \A i \in DOMAIN wire : wire[i].sequence \in Nat
  BY <1>1, ElementOfSeq, LenProperties DEF TypeOK, Frames
<1>10. \A c \in Classes : \A i \in DOMAIN queues[c] : queues[c][i].sequence \in Nat
  BY <1>1, ElementOfSeq, LenProperties DEF TypeOK, Frames
<1>11. Order'
  <2>1. \A c \in Classes : \A i \in DOMAIN queues[c] :
           queues[c][i].type = c /\ (Numbered => queues[c][i].sequence < tx_sequence')
    BY <1>1, <1>2, <1>10 DEF Order
  <2>2. Numbered => \A i \in DOMAIN wire : wire[i].sequence < tx_sequence'
    BY <1>1, <1>2, <1>9 DEF Order
  <2>3. Numbered => \A i \in DOMAIN wire : wire[i].sequence < slot'.sequence
    BY <1>1, <1>3, <1>4 DEF Order
  <2>4. slot'.type = "telemetry" /\ (Numbered => slot'.sequence < tx_sequence')
    BY <1>2, <1>3, <1>4
  <2>5. QED  BY <2>1, <2>2, <2>3, <2>4, <1>1, <1>3 DEF Order
<1>12. QED  BY <1>5, <1>6, <1>7, <1>8, <1>11 DEF IInv

\* Appending a frame that is later than the frames of its kind keeps the wire in order.
LEMMA WireGrows ==
  ASSUME TypeOK, NEW f \in Frames, wire' = Append(wire, f), WireInOrder,
         Numbered => \A i \in DOMAIN wire : wire[i].type = f.type => wire[i].sequence < f.sequence
  PROVE  WireInOrder'
<1>1. wire \in Seq(Frames)
  BY DEF TypeOK
<1>2. /\ wire' \in Seq(Frames) /\ Len(wire') = Len(wire) + 1 /\ Len(wire) \in Nat
      /\ \A i \in 1..Len(wire) : wire'[i] = wire[i]
      /\ wire'[Len(wire) + 1] = f
  BY <1>1, AppendProperties, LenProperties
<1>3. DOMAIN wire = 1..Len(wire) /\ DOMAIN wire' = 1..(Len(wire) + 1)
  BY <1>1, <1>2, LenProperties
<1>4. SUFFICES ASSUME Numbered, NEW i \in DOMAIN wire', NEW j \in DOMAIN wire', i < j,
                      wire'[i].type = wire'[j].type
               PROVE  wire'[i].sequence < wire'[j].sequence
  BY DEF WireInOrder
<1>5. i \in DOMAIN wire /\ wire'[i] = wire[i]
  BY <1>2, <1>3, <1>4
<1>6. CASE j \in DOMAIN wire
  BY <1>2, <1>3, <1>4, <1>5, <1>6 DEF WireInOrder
<1>7. CASE j = Len(wire) + 1
  BY <1>2, <1>4, <1>5, <1>7
<1>8. QED  BY <1>2, <1>3, <1>6, <1>7

\* What the TX timer may do with the wire, given a frame that comes after its kind.
LEMMA TakenStep ==
  ASSUME IInv, NEW f \in Frames, NEW ok \in BOOLEAN,
         wire' = IF ~ok THEN wire ELSE IF Numbered THEN Append(wire, f) ELSE << f >>,
         Numbered => \A i \in DOMAIN wire : wire[i].type = f.type => wire[i].sequence < f.sequence
  PROVE  /\ wire' \in Seq(Frames)
         /\ WireInOrder'
         /\ \A i \in DOMAIN wire' : wire'[i] = f \/ \E k \in DOMAIN wire : wire'[i] = wire[k]
<1>1. TypeOK /\ WireInOrder /\ wire \in Seq(Frames)
  BY DEF IInv, TypeOK
<1>2. CASE wire' = wire
  BY <1>1, <1>2 DEF WireInOrder
<1>3. CASE wire' = Append(wire, f)
  <2>1. WireInOrder'
    BY <1>1, <1>3, WireGrows
  <2>2. /\ Append(wire, f) \in Seq(Frames)
        /\ Len(Append(wire, f)) = Len(wire) + 1 /\ Len(wire) \in Nat
        /\ \A i \in 1..Len(wire) : Append(wire, f)[i] = wire[i]
        /\ Append(wire, f)[Len(wire) + 1] = f
    BY <1>1, AppendProperties, LenProperties
  <2>3. DOMAIN wire = 1..Len(wire) /\ DOMAIN Append(wire, f) = 1..(Len(wire) + 1)
    BY <1>1, <2>2, LenProperties
  <2>4. QED  BY <1>3, <2>1, <2>2, <2>3
<1>4. CASE wire' = << f >> /\ ~Numbered
  <2>1. WireInOrder'
    BY <1>4 DEF WireInOrder
  <2>2. << f >> \in Seq(Frames) /\ \A i \in DOMAIN << f >> : << f >>[i] = f
    OBVIOUS
  <2>3. QED  BY <1>4, <2>1, <2>2, Zenon
<1>5. QED  BY <1>2, <1>3, <1>4

\* What a tick may take is a frame (radio_bridge_node.cpp:349-381).
LEMMA OutgoingAreFrames ==
  ASSUME TypeOK, NEW f \in Outgoing
  PROVE  f \in Frames
<1>1. \A c \in Classes : queues[c] # << >> => Head(queues[c]) \in Frames
  BY HeadTailProperties DEF TypeOK
<1>2. QED  BY <1>1 DEF Outgoing, TypeOK

\* A tick takes the oldest frame of one queue (radio_bridge_node.cpp:349-372).
LEMMA FromQueueStep ==
  ASSUME IInv, NEW f, NEW ok \in BOOLEAN, FromQueue(f), taken' = f.type,
         wire' = IF ~ok THEN wire ELSE IF Numbered THEN Append(wire, f) ELSE << f >>,
         UNCHANGED << alive, received, cache, made >>
  PROVE  IInv'
<1>1. TypeOK /\ Seen /\ NoSourceInvented /\ Order /\ WireInOrder
  BY DEF IInv
<1>2. PICK n \in Waiting : f = Head(queues[Priority[n]])
                           /\ queues' = [queues EXCEPT ![Priority[n]] = Tail(@)]
                           /\ slot' = slot
  BY DEF FromQueue
<1> DEFINE c == Priority[n]
           q == queues[c]
<1>3. c \in Classes /\ q # << >>
  BY DEF Waiting, Priority, Classes
<1> HIDE DEF c
<1>4. f = Head(q) /\ queues' = [queues EXCEPT ![c] = Tail(q)]
  BY <1>2 DEF c
<1>5. q \in Seq(Frames) /\ Len(q) \in Nat /\ Len(q) <= kQueueCapacity /\ DOMAIN q = 1..Len(q)
  BY <1>1, <1>3, LenProperties DEF TypeOK
<1>6. /\ Tail(q) \in Seq(Frames)
      /\ Len(Tail(q)) = Len(q) - 1
      /\ \A i \in 1..(Len(q) - 1) : Tail(q)[i] = q[i + 1]
      /\ Len(q) >= 1
      /\ f = q[1] /\ f \in Frames
  BY <1>3, <1>4, <1>5, HeadTailProperties, EmptySeq
<1>7. DOMAIN Tail(q) = 1..(Len(q) - 1)
  BY <1>6, LenProperties
<1>8. DOMAIN queues' = Classes /\ queues'[c] = Tail(q)
      /\ \A b \in Classes : b # c => queues'[b] = queues[b]
  BY <1>1, <1>3, <1>4 DEF TypeOK
<1> HIDE DEF q
<1>9. f.type = c /\ c # "telemetry"
      /\ (Numbered => f.sequence < tx_sequence)
      /\ (Numbered => \A i \in DOMAIN wire : wire[i].type = c => wire[i].sequence < f.sequence)
  BY <1>1, <1>3, <1>5, <1>6 DEF Order, Classes, q
<1>10. /\ wire' \in Seq(Frames)
       /\ WireInOrder'
       /\ \A i \in DOMAIN wire' : wire'[i] = f \/ \E k \in DOMAIN wire : wire'[i] = wire[k]
  BY <1>6, <1>9, TakenStep
<1>11. TypeOK'
  <2>1. \A b \in Classes : queues'[b] \in Seq(Frames) /\ Len(queues'[b]) <= kQueueCapacity
    <3>1. Tail(q) \in Seq(Frames) /\ Len(Tail(q)) <= kQueueCapacity
      BY <1>5, <1>6, OutboundAssumption
    <3>2. QED  BY <3>1, <1>1, <1>8 DEF TypeOK
  <2>2. taken' \in Classes \cup {"none", "telemetry"}
    BY <1>3, <1>9
  <2>3. QED  BY <2>1, <2>2, <1>1, <1>2, <1>8, <1>10 DEF TypeOK
<1>12. Seen'
  BY <1>1 DEF Seen
<1>13. NoSourceInvented'
  <2> SUFFICES ASSUME NEW g \in ToSet(wire') \cup {slot'}, g.type = "telemetry", NEW s \in Sources
               PROVE  g.samples[s] > 0
    BY DEF NoSourceInvented, TelemetryFrames
  <2>1. g # f
    BY <1>9
  <2>2. g \in ToSet(wire) \cup {slot}
    BY <2>1, <1>2, <1>10 DEF ToSet
  <2>3. QED  BY <2>2, <1>1 DEF NoSourceInvented, TelemetryFrames
<1>14. Order'
  <2>1. tx_sequence' = tx_sequence
    BY DEF tx_sequence
  <2>2. \A b \in Classes : \A i \in DOMAIN queues'[b] :
          queues'[b][i].type = b /\ (Numbered => queues'[b][i].sequence < tx_sequence)
    <3> SUFFICES ASSUME NEW b \in Classes, NEW i \in DOMAIN queues'[b]
                 PROVE  queues'[b][i].type = b /\ (Numbered => queues'[b][i].sequence < tx_sequence)
      OBVIOUS
    <3>1. CASE b = c
      <4>1. queues'[b][i] = q[i + 1] /\ i + 1 \in DOMAIN q
        BY <3>1, <1>5, <1>6, <1>7, <1>8
      <4>2. QED  BY <3>1, <4>1, <1>1 DEF Order, q
    <3>2. CASE b # c
      BY <3>2, <1>1, <1>8 DEF Order
    <3>3. QED  BY <3>1, <3>2
  <2>3. ASSUME Numbered, NEW b \in Classes, NEW i \in DOMAIN queues'[b], NEW j \in DOMAIN queues'[b], i < j
        PROVE  queues'[b][i].sequence < queues'[b][j].sequence
    <3>1. CASE b = c
      <4>1. /\ queues'[b][i] = q[i + 1] /\ i + 1 \in DOMAIN q
            /\ queues'[b][j] = q[j + 1] /\ j + 1 \in DOMAIN q
            /\ i + 1 < j + 1
        BY <2>3, <3>1, <1>5, <1>6, <1>7, <1>8
      <4>2. QED  BY <2>3, <3>1, <4>1, <1>1 DEF Order, q
    <3>2. CASE b # c
      BY <2>3, <3>2, <1>1, <1>8 DEF Order
    <3>3. QED  BY <3>1, <3>2
  <2>4. ASSUME Numbered, NEW b \in Classes, NEW i \in DOMAIN wire', NEW j \in DOMAIN queues'[b],
               wire'[i].type = b
        PROVE  wire'[i].sequence < queues'[b][j].sequence
    <3>1. CASE b = c
      <4>1. queues'[b][j] = q[j + 1] /\ j + 1 \in DOMAIN q /\ 1 \in DOMAIN q /\ 1 < j + 1
        BY <3>1, <1>5, <1>6, <1>7, <1>8
      <4>2. CASE wire'[i] = f
        BY <2>4, <3>1, <4>1, <4>2, <1>1, <1>6 DEF Order, q
      <4>3. CASE \E k \in DOMAIN wire : wire'[i] = wire[k]
        BY <2>4, <3>1, <4>1, <4>3, <1>1 DEF Order, q
      <4>4. QED  BY <4>2, <4>3, <1>10
    <3>2. CASE b # c
      <4>1. \E k \in DOMAIN wire : wire'[i] = wire[k]
        BY <2>4, <3>2, <1>9, <1>10
      <4>2. QED  BY <2>4, <3>2, <4>1, <1>1, <1>8 DEF Order
    <3>3. QED  BY <3>1, <3>2
  <2>5. Numbered => \A i \in DOMAIN wire' : wire'[i].sequence < tx_sequence
    BY <1>1, <1>9, <1>10 DEF Order
  <2>6. ASSUME Numbered, NEW i \in DOMAIN wire', wire'[i].type = "telemetry", slot # NoFrame
        PROVE  wire'[i].sequence < slot.sequence
    <3>1. \E k \in DOMAIN wire : wire'[i] = wire[k]
      BY <2>6, <1>9, <1>10
    <3>2. QED  BY <2>6, <3>1, <1>1 DEF Order
  <2>7. QED  BY <2>1, <2>2, <2>3, <2>4, <2>5, <2>6, <1>1, <1>2 DEF Order
<1>15. QED  BY <1>10, <1>11, <1>12, <1>13, <1>14 DEF IInv

\* A tick takes the telemetry when no queue holds anything (radio_bridge_node.cpp:374-381).
LEMMA FromSlotStep ==
  ASSUME IInv, NEW f, NEW ok \in BOOLEAN, FromSlot(f), taken' = f.type,
         wire' = IF ~ok THEN wire ELSE IF Numbered THEN Append(wire, f) ELSE << f >>,
         UNCHANGED << alive, received, cache, made >>
  PROVE  IInv'
<1>1. TypeOK /\ Seen /\ NoSourceInvented /\ Order /\ WireInOrder
  BY DEF IInv
<1>2. f = slot /\ slot # NoFrame /\ slot' = NoFrame /\ queues' = queues
  BY DEF FromSlot
<1>3. f \in Frames /\ f.type = "telemetry" /\ f.type \notin Classes
  BY <1>1, <1>2 DEF TypeOK, Order, Classes
<1>4. Numbered => /\ f.sequence < tx_sequence
                  /\ \A i \in DOMAIN wire : wire[i].type = f.type => wire[i].sequence < f.sequence
  BY <1>1, <1>2, <1>3 DEF Order
<1>5. /\ wire' \in Seq(Frames)
      /\ WireInOrder'
      /\ \A i \in DOMAIN wire' : wire'[i] = f \/ \E k \in DOMAIN wire : wire'[i] = wire[k]
  BY <1>3, <1>4, TakenStep
<1>6. TypeOK'
  BY <1>1, <1>2, <1>3, <1>5 DEF TypeOK
<1>7. Seen'
  BY <1>1 DEF Seen
<1>8. NoSourceInvented'
  <2> SUFFICES ASSUME NEW g \in ToSet(wire') \cup {slot'}, g.type = "telemetry", NEW s \in Sources
               PROVE  g.samples[s] > 0
    BY DEF NoSourceInvented, TelemetryFrames
  <2>1. g # NoFrame
    BY DEF NoFrame
  <2>2. g \in ToSet(wire) \cup {slot}
    BY <2>1, <1>2, <1>5 DEF ToSet
  <2>3. QED  BY <2>2, <1>1 DEF NoSourceInvented, TelemetryFrames
<1>9. Order'
  <2>1. tx_sequence' = tx_sequence
    BY DEF tx_sequence
  <2>2. Numbered => \A i \in DOMAIN wire' : wire'[i].sequence < tx_sequence
    BY <1>1, <1>4, <1>5 DEF Order
  <2>3. ASSUME Numbered, NEW c \in Classes, NEW i \in DOMAIN wire', NEW j \in DOMAIN queues[c],
               wire'[i].type = c
        PROVE  wire'[i].sequence < queues[c][j].sequence
    <3>1. \E k \in DOMAIN wire : wire'[i] = wire[k]
      BY <2>3, <1>3, <1>5
    <3>2. QED  BY <2>3, <3>1, <1>1 DEF Order
  <2>4. QED  BY <2>1, <2>2, <2>3, <1>1, <1>2 DEF Order
<1>10. QED  BY <1>5, <1>6, <1>7, <1>8, <1>9 DEF IInv

\* Every callback of the executor preserves the invariant.
LEMMA IInvStep == IInv /\ [Next]_vars => IInv'
<1> SUFFICES ASSUME IInv, [Next]_vars  PROVE IInv'
  OBVIOUS
<1>1. TypeOK /\ Seen /\ NoSourceInvented /\ Order /\ WireInOrder
  BY DEF IInv
<1>2. ASSUME NEW s \in Sources, OnSource(s)  PROVE IInv'
  <2>1. cache[s] \in 0..MaxSample /\ cache[s] + 1 \in 0..MaxSample /\ s \in Fields
    BY <1>1, <1>2, OutboundAssumption DEF TypeOK, OnSource, Fields
  <2>2. TypeOK'
    BY <1>1, <1>2, <2>1 DEF TypeOK, OnSource
  <2>3. Seen'
    BY <1>1, <1>2, <2>1 DEF Seen, OnSource, TypeOK, Fields
  <2>4. NoSourceInvented' /\ WireInOrder'
    BY <1>1, <1>2 DEF NoSourceInvented, WireInOrder, TelemetryFrames, OnSource
  <2>5. Order'
    BY <1>1, <1>2 DEF Order, OnSource, tx_sequence
  <2>6. QED  BY <2>2, <2>3, <2>4, <2>5 DEF IInv
<1>3. CASE OnControlMode
  <2>1. TypeOK'
    BY <1>1, <1>3, OutboundAssumption DEF TypeOK, OnControlMode, Fields
  <2>2. Seen'
    BY <1>1, <1>3, OutboundAssumption DEF Seen, OnControlMode, TypeOK, Fields
  <2>3. NoSourceInvented' /\ WireInOrder'
    BY <1>1, <1>3 DEF NoSourceInvented, WireInOrder, TelemetryFrames, OnControlMode
  <2>4. Order'
    BY <1>1, <1>3 DEF Order, OnControlMode, tx_sequence
  <2>5. QED  BY <2>1, <2>2, <2>3, <2>4 DEF IInv
<1>4. ASSUME NEW s \in Sources, SourceStops(s)  PROVE IInv'
  <2>1. TypeOK' /\ Seen'
    BY <1>1, <1>4 DEF TypeOK, Seen, SourceStops
  <2>2. NoSourceInvented' /\ WireInOrder'
    BY <1>1, <1>4 DEF NoSourceInvented, WireInOrder, TelemetryFrames, SourceStops
  <2>3. Order'
    BY <1>1, <1>4 DEF Order, SourceStops, tx_sequence
  <2>4. QED  BY <2>1, <2>2, <2>3 DEF IInv
<1>5. CASE OnNmea
  BY <1>5, EnqueueStep DEF OnNmea, Classes, Payloads
<1>6. ASSUME NEW status \in Statuses, OnSetControlModeResponse(status)  PROVE IInv'
  BY <1>6, EnqueueStep DEF OnSetControlModeResponse, Classes, Payloads
<1>7. CASE OnTelemetryTimer
  BY <1>7, TelemetryStep
<1>8. CASE OnTxTimer
  BY <1>8, FromQueueStep, FromSlotStep DEF OnTxTimer, Send
<1>9. CASE UNCHANGED vars
  <2>1. TypeOK' /\ Seen'
    BY <1>1, <1>9 DEF TypeOK, Seen, vars
  <2>2. NoSourceInvented' /\ WireInOrder'
    BY <1>1, <1>9 DEF NoSourceInvented, WireInOrder, TelemetryFrames, vars
  <2>3. Order'
    BY <1>1, <1>9 DEF Order, vars, tx_sequence
  <2>4. QED  BY <2>1, <2>2, <2>3 DEF IInv
<1>10. QED  BY <1>2, <1>3, <1>4, <1>5, <1>6, <1>7, <1>8, <1>9 DEF Next

-----------------------------------------------------------------------------
(* What follows for every behaviour *)

\* Every reachable state satisfies the invariant.
THEOREM Invariance == Spec => []IInv
<1>1. QED  BY IInvInit, IInvStep, PTL DEF Spec

\* The types of Outbound; no queue outgrows kQueueCapacity (radio_bridge_node.cpp:721-733).
THEOREM TypeCorrect == Spec => []TypeOK
<1>1. IInv => TypeOK
  BY DEF IInv
<1>2. QED  BY <1>1, Invariance, PTL

\* Whatever the sources and the order they start in, no telemetry is built before each has
\* delivered (radio_bridge_node.cpp:296-336).
THEOREM TelemetryFromRealSamples == Spec => []NoSourceInvented
<1>1. IInv => NoSourceInvented
  BY DEF IInv
<1>2. QED  BY <1>1, Invariance, PTL

\* Each kind of frame reaches the wire in the order it was built and at most once, however
\* many are dropped (radio_bridge_node.cpp:344-391 and 716-733).
THEOREM WireKeepsOrder == Spec => []WireInOrder
<1>1. IInv => WireInOrder
  BY DEF IInv
<1>2. QED  BY <1>1, Invariance, PTL

-----------------------------------------------------------------------------
(* The newest waits *)

\* A queue keeps its newest frames: after a push, and after the first was taken, the frames
\* that stay are still without a gap (radio_bridge_node.cpp:721-733).
LEMMA NoGapAfterShift ==
  ASSUME NEW q \in Seq(Frames), NEW r \in Seq(Frames), NEW d \in {0, 1},
         \A i, j \in DOMAIN q : i < j => q[i].sequence < q[j].sequence,
         Len(q) - d <= Len(r),
         \A i \in 1..(Len(q) - d) : r[i] = q[i + d],
         NEW i \in DOMAIN r, i <= Len(q) - d,
         NEW n \in Nat, r[i].sequence < n,
         \E j \in DOMAIN q : q[j].sequence = n - 1
  PROVE  \E j \in DOMAIN r : r[j].sequence = n - 1
<1>1. DOMAIN q = 1..Len(q) /\ DOMAIN r = 1..Len(r) /\ Len(q) \in Nat /\ Len(r) \in Nat
  BY LenProperties
<1>2. PICK j \in DOMAIN q : q[j].sequence = n - 1
  OBVIOUS
<1>3. i \in Nat /\ j \in Nat /\ i + d \in DOMAIN q /\ r[i] = q[i + d]
  BY <1>1
<1>4. q[i + d].sequence \in Nat
  <2>1. q[i + d] \in Frames
    BY <1>3, ElementOfSeq, <1>1
  <2>2. QED  BY <2>1 DEF Frames
<1>5. i + d <= j
  <2>1. ~(j < i + d)
    BY <1>2, <1>3, <1>4
  <2>2. QED  BY <2>1, <1>3
<1>6. j - d \in 1..(Len(q) - d)
  BY <1>1, <1>3, <1>5
<1>7. j - d \in DOMAIN r /\ r[j - d] = q[j]
  BY <1>1, <1>3, <1>6
<1>8. QED  BY <1>2, <1>7

\* The number after the last is the new frame's.
LEMMA MadeGrows ==
  ASSUME TypeOK, NEW type \in Classes \cup {"telemetry"}, Numbered, Number(type)
  PROVE  /\ DOMAIN made = 1..tx_sequence /\ DOMAIN made' = 1..(tx_sequence + 1) /\ tx_sequence \in Nat
         /\ \A n \in 1..tx_sequence : made'[n] = made[n]
         /\ made'[tx_sequence + 1] = type
<1>1. made \in Seq(Classes \cup {"telemetry"}) /\ Len(made) \in Nat
  BY LenProperties DEF TypeOK
<1>2. made' = Append(made, type)
  BY DEF Number
<1>3. Append(made, type) \in Seq(Classes \cup {"telemetry"}) /\ Len(Append(made, type)) = Len(made) + 1
      /\ (\A i \in 1..Len(made) : Append(made, type)[i] = made[i])
      /\ Append(made, type)[Len(made) + 1] = type
  BY <1>1, AppendProperties
<1>4. QED  BY <1>1, <1>2, <1>3, LenProperties DEF tx_sequence

\* A push keeps the newest (radio_bridge_node.cpp:721-733).
LEMMA EnqueueKeepsNewest ==
  ASSUME IInv, NewestWaits, NEW type \in Classes, NEW payload \in Payloads(type),
         Enqueue(type, payload)
  PROVE  NewestWaits'
<1> DEFINE f == [type |-> type, sequence |-> tx_sequence, payload |-> payload]
           q == queues[type]
           r == Pushed(q, f)
<1> SUFFICES ASSUME Numbered  PROVE NewestWaits'
  BY DEF NewestWaits
<1>1. TypeOK /\ Order /\ Order'
  BY EnqueueStep DEF IInv
<1>2. /\ DOMAIN made = 1..tx_sequence /\ DOMAIN made' = 1..(tx_sequence + 1) /\ tx_sequence \in Nat
      /\ \A n \in 1..tx_sequence : made'[n] = made[n]
      /\ made'[tx_sequence + 1] = type
  BY <1>1, MadeGrows DEF Enqueue
<1>3. f \in Frames /\ f.sequence = tx_sequence
  BY <1>2 DEF Frames, Payloads
<1>4. q \in Seq(Frames) /\ Len(q) <= kQueueCapacity
  BY <1>1 DEF TypeOK
<1>5. queues' = [queues EXCEPT ![type] = r] /\ slot' = slot
  BY DEF Enqueue
<1>6. queues'[type] = r /\ \A c \in Classes : c # type => queues'[c] = queues[c]
  BY <1>1, <1>5 DEF TypeOK
<1> HIDE DEF f, q, r
<1>7. /\ r \in Seq(Frames) /\ Len(r) \in 1..kQueueCapacity /\ r[Len(r)] = f
      /\ \E d \in {0, 1} : Len(r) = Len(q) + 1 - d /\ \A i \in 1..(Len(q) - d) : r[i] = q[i + d]
  BY <1>3, <1>4, PushedProperties DEF r
<1>8. PICK d \in {0, 1} : Len(r) = Len(q) + 1 - d /\ \A i \in 1..(Len(q) - d) : r[i] = q[i + d]
  BY <1>7
<1>9. DOMAIN r = 1..Len(r) /\ Len(q) \in Nat /\ Len(r) \in Nat
  BY <1>4, <1>7, LenProperties
<1>10. ASSUME NEW c \in Classes, NEW i \in DOMAIN queues'[c], NEW n \in DOMAIN made',
              queues'[c][i].sequence < n, made'[n] = c
       PROVE  \E j \in DOMAIN queues'[c] : queues'[c][j].sequence = n - 1
  <2>1. CASE c # type
    <3>1. n \in DOMAIN made /\ made[n] = c
      BY <1>2, <1>10, <2>1
    <3>2. QED  BY <1>6, <1>10, <2>1, <3>1 DEF NewestWaits
  <2>2. CASE c = type /\ n = tx_sequence + 1
    <3>1. Len(r) \in DOMAIN r /\ r[Len(r)].sequence = n - 1
      BY <1>2, <1>3, <1>7, <1>9, <2>2
    <3>2. QED  BY <3>1, <1>6, <2>2
  <2>3. CASE c = type /\ n # tx_sequence + 1
    <3>1. n \in DOMAIN made /\ made[n] = c /\ n \in Nat /\ n <= tx_sequence
      BY <1>2, <1>10, <2>3
    <3>2. i \in DOMAIN r /\ r[i].sequence < n
      BY <1>6, <1>10, <2>3
    <3>3. i # Len(r)
      BY <1>2, <1>3, <1>7, <3>1, <3>2
    <3>4. i <= Len(q) - d /\ i + d \in DOMAIN q /\ r[i] = q[i + d]
      BY <1>4, <1>8, <1>9, <3>2, <3>3, LenProperties
    <3>5. \E j \in DOMAIN q : q[j].sequence = n - 1
      BY <2>3, <3>1, <3>2, <3>4 DEF NewestWaits, q
    <3>6. \A k, l \in DOMAIN q : k < l => q[k].sequence < q[l].sequence
      BY DEF NewestWaits, q
    <3>7. Len(q) - d <= Len(r)
      BY <1>8, <1>9
    <3>8. \E j \in DOMAIN r : r[j].sequence = n - 1
      BY <1>4, <1>7, <1>8, <3>1, <3>2, <3>4, <3>5, <3>6, <3>7, NoGapAfterShift
    <3>9. QED  BY <3>8, <1>6, <2>3
  <2>4. QED  BY <2>1, <2>2, <2>3
<1>11. \A n \in DOMAIN made' : made'[n] = "telemetry" /\ slot' # NoFrame => n - 1 <= slot'.sequence
  BY <1>2, <1>5 DEF NewestWaits, Classes
<1>12. QED  BY <1>1, <1>10, <1>11 DEF NewestWaits, Order

\* What a tick takes leaves no gap (radio_bridge_node.cpp:349-372).
LEMMA FromQueueKeepsNewest ==
  ASSUME IInv, IInv', NewestWaits, NEW f, FromQueue(f), made' = made
  PROVE  NewestWaits'
<1> SUFFICES ASSUME Numbered  PROVE NewestWaits'
  BY DEF NewestWaits
<1>1. TypeOK /\ Order /\ Order'
  BY DEF IInv
<1>2. PICK m \in Waiting : queues' = [queues EXCEPT ![Priority[m]] = Tail(@)] /\ slot' = slot
  BY DEF FromQueue
<1> DEFINE b == Priority[m]
           q == queues[b]
<1>3. b \in Classes /\ q # << >>
  BY DEF Waiting, Priority, Classes
<1>4. queues'[b] = Tail(q) /\ \A c \in Classes : c # b => queues'[c] = queues[c]
  BY <1>1, <1>2, <1>3 DEF TypeOK
<1> HIDE DEF b
<1>5. q \in Seq(Frames) /\ Len(q) \in Nat /\ DOMAIN q = 1..Len(q)
  BY <1>1, <1>3, LenProperties DEF TypeOK
<1>6. \A k, l \in DOMAIN q : k < l => q[k].sequence < q[l].sequence
  BY <1>3 DEF NewestWaits
<1>7. Tail(q) \in Seq(Frames) /\ Len(Tail(q)) = Len(q) - 1 /\ \A i \in 1..(Len(q) - 1) : Tail(q)[i] = q[i + 1]
  BY <1>3, <1>5, HeadTailProperties
<1>8. DOMAIN Tail(q) = 1..(Len(q) - 1)
  BY <1>7, LenProperties
<1>9. DOMAIN made = 1..Len(made) /\ Len(made) \in Nat
  BY <1>1, LenProperties DEF TypeOK
<1>10. ASSUME NEW c \in Classes, NEW i \in DOMAIN queues'[c], NEW n \in DOMAIN made,
              queues'[c][i].sequence < n, made[n] = c
       PROVE  \E j \in DOMAIN queues'[c] : queues'[c][j].sequence = n - 1
  <2>1. CASE c # b
    BY <1>4, <1>10, <2>1 DEF NewestWaits
  <2>2. CASE c = b
    <3>1. i \in DOMAIN Tail(q) /\ i + 1 \in DOMAIN q /\ Tail(q)[i] = q[i + 1] /\ n \in Nat
      <4>1. n \in Nat
        BY <1>9
      <4> HIDE DEF q
      <4>2. queues'[c] = Tail(q)
        BY <1>4, <2>2
      <4>3. i \in DOMAIN Tail(q)
        BY <4>2
      <4>4. QED  BY <4>1, <4>3, <1>5, <1>7, <1>8
    <3>2. \E j \in DOMAIN q : q[j].sequence = n - 1
      BY <1>3, <1>4, <1>10, <2>2, <3>1 DEF NewestWaits
    <3> HIDE DEF q
    <3>3. i <= Len(q) - 1 /\ Len(q) - 1 <= Len(Tail(q)) /\ Tail(q)[i].sequence < n
      BY <1>4, <1>5, <1>7, <1>8, <1>10, <2>2, <3>1
    <3>4. \E j \in DOMAIN Tail(q) : Tail(q)[j].sequence = n - 1
      BY <1>5, <1>6, <1>7, <3>1, <3>2, <3>3, NoGapAfterShift
    <3>5. QED  BY <3>4, <1>4, <2>2
  <2>3. QED  BY <2>1, <2>2
<1>11. QED  BY <1>1, <1>2, <1>10 DEF NewestWaits, Order

\* Every callback of the executor leaves the newest waiting.
LEMMA NewestStep ==
  ASSUME IInv, IInv', NewestWaits, [Next]_vars
  PROVE  NewestWaits'
<1>1. TypeOK /\ Order
  BY DEF IInv
<1>2. CASE UNCHANGED << slot, queues, made >>
  BY <1>2 DEF NewestWaits
<1>3. CASE OnNmea
  BY <1>3, EnqueueKeepsNewest DEF OnNmea, Classes, Payloads
<1>4. ASSUME NEW status \in Statuses, OnSetControlModeResponse(status)  PROVE NewestWaits'
  BY <1>4, EnqueueKeepsNewest DEF OnSetControlModeResponse, Classes, Payloads
<1>5. CASE OnTelemetryTimer
  <2> SUFFICES ASSUME Numbered  PROVE NewestWaits'
    BY DEF NewestWaits
  <2>1. slot'.sequence = tx_sequence /\ queues' = queues
    BY <1>5 DEF OnTelemetryTimer
  <2>2. /\ DOMAIN made = 1..tx_sequence /\ DOMAIN made' = 1..(tx_sequence + 1) /\ tx_sequence \in Nat
        /\ \A n \in 1..tx_sequence : made'[n] = made[n]
        /\ made'[tx_sequence + 1] = "telemetry"
    BY <1>1, <1>5, MadeGrows DEF OnTelemetryTimer
  <2>3. \A n \in DOMAIN made', c \in Classes : made'[n] = c => n \in DOMAIN made /\ made[n] = c
    BY <2>2 DEF Classes
  <2>4. QED  BY <2>1, <2>2, <2>3 DEF NewestWaits
<1>6. CASE OnTxTimer
  <2>1. PICK f \in Outgoing, ok \in BOOLEAN : Send(f, ok)
    BY <1>6 DEF OnTxTimer
  <2>2. CASE FromQueue(f)
    BY <2>1, <2>2, FromQueueKeepsNewest DEF Send
  <2>3. CASE FromSlot(f)
    BY <2>1, <2>3 DEF Send, FromSlot, NewestWaits
  <2>4. QED  BY <2>1, <2>2, <2>3 DEF Send
<1>7. QED
  BY <1>2, <1>3, <1>4, <1>5, <1>6 DEF Next, vars, OnSource, SourceStops, OnControlMode

\* What waits is the newest there is, for every capacity and however many frames are built
\* (radio_bridge_node.cpp:338-341 and 721-733).
THEOREM NewestKept == Spec => []NewestWaits
<1>1. Init => NewestWaits
  BY DEF Init, NewestWaits
<1>2. IInv /\ IInv' /\ NewestWaits /\ [Next]_vars => NewestWaits'
  BY NewestStep
<1>3. QED  BY <1>1, <1>2, Invariance, PTL DEF Spec

-----------------------------------------------------------------------------
(* Acknowledgements and telemetry *)

\* Once telemetry went out after an acknowledgement, what is in the slot is later than that
\* acknowledgement.
SlotIsLater ==
  Numbered =>
    \A i, j \in DOMAIN wire :
      /\ i < j /\ wire[i].type = "autonomy_status" /\ wire[j].type = "telemetry"
      /\ slot # NoFrame
      => slot.sequence > wire[i].sequence

\* Every callback of the executor preserves both.
LEMMA StaleStep ==
  ASSUME IInv, OneStaleTelemetry, SlotIsLater, [Next]_vars
  PROVE  OneStaleTelemetry' /\ SlotIsLater'
<1>1. TypeOK /\ Order
  BY DEF IInv
<1> SUFFICES ASSUME Numbered  PROVE OneStaleTelemetry' /\ SlotIsLater'
  BY DEF OneStaleTelemetry, SlotIsLater
<1>2. wire \in Seq(Frames) /\ Len(wire) \in Nat /\ DOMAIN wire = 1..Len(wire)
  BY <1>1, LenProperties DEF TypeOK
<1>3. CASE UNCHANGED << slot, wire >>
  BY <1>3 DEF OneStaleTelemetry, SlotIsLater
<1>4. CASE OnTelemetryTimer
  <2>1. wire' = wire /\ slot'.sequence = tx_sequence
    BY <1>4 DEF OnTelemetryTimer
  <2>2. \A i \in DOMAIN wire : wire[i].sequence < slot'.sequence
    BY <1>1, <2>1 DEF Order
  <2>3. \A i \in DOMAIN wire : wire[i].sequence \in Nat
    BY <1>2, ElementOfSeq DEF Frames
  <2>4. tx_sequence \in Nat
    BY <1>1, LenProperties DEF TypeOK, tx_sequence
  <2>5. QED  BY <2>1, <2>2, <2>3, <2>4 DEF OneStaleTelemetry, SlotIsLater
<1>5. CASE OnTxTimer
  <2>1. PICK f \in Outgoing, ok \in BOOLEAN : Send(f, ok)
    BY <1>5 DEF OnTxTimer
  <2>2. wire' = wire \/ wire' = Append(wire, f)
    BY <2>1 DEF Send
  <2>3. \A i \in DOMAIN wire' : \/ i \in DOMAIN wire /\ wire'[i] = wire[i]
                                \/ i = Len(wire) + 1 /\ wire'[i] = f
    <3>1. f \in Frames
      BY <1>1, OutgoingAreFrames
    <3>2. Append(wire, f) \in Seq(Frames) /\ Len(Append(wire, f)) = Len(wire) + 1
          /\ (\A i \in 1..Len(wire) : Append(wire, f)[i] = wire[i])
          /\ Append(wire, f)[Len(wire) + 1] = f
      BY <1>2, <3>1, AppendProperties
    <3>3. DOMAIN Append(wire, f) = 1..(Len(wire) + 1)
      BY <3>2, LenProperties
    <3>4. QED  BY <1>2, <2>2, <3>2, <3>3
  <2>4. \A i, j \in DOMAIN wire' : i < j => i \in DOMAIN wire /\ wire'[i] = wire[i]
    <3>1. DOMAIN wire' \subseteq 1..(Len(wire) + 1)
      BY <1>2, <2>3
    <3>2. QED  BY <1>2, <2>3, <3>1
  <2>5. CASE FromQueue(f)
    <3>1. f.type # "telemetry" /\ slot' = slot
      <4>1. PICK n \in Waiting : f = Head(queues[Priority[n]]) /\ slot' = slot
        BY <2>5 DEF FromQueue
      <4>2. Priority[n] \in Classes /\ queues[Priority[n]] # << >>
        BY DEF Waiting, Priority, Classes
      <4> DEFINE c == Priority[n]
      <4> HIDE DEF c
      <4>3. queues[c] \in Seq(Frames) /\ c \in Classes /\ queues[c] # << >> /\ f = Head(queues[c])
        BY <1>1, <4>1, <4>2 DEF TypeOK, c
      <4>4. 1 \in DOMAIN queues[c] /\ f = queues[c][1]
        BY <4>3, HeadTailProperties, EmptySeq, LenProperties
      <4>5. f.type = c
        BY <1>1, <4>3, <4>4 DEF Order
      <4>6. QED  BY <4>1, <4>3, <4>5 DEF Classes
    <3>2. \A j \in DOMAIN wire' : wire'[j].type = "telemetry" => j \in DOMAIN wire /\ wire'[j] = wire[j]
      BY <2>3, <3>1
    <3>3. QED  BY <2>4, <3>1, <3>2 DEF OneStaleTelemetry, SlotIsLater
  <2>6. CASE FromSlot(f)
    <3>1. f = slot /\ slot # NoFrame /\ slot' = NoFrame
      BY <2>6 DEF FromSlot
    <3>2. SlotIsLater'
      BY <3>1 DEF SlotIsLater
    <3>3. OneStaleTelemetry'
      <4> SUFFICES ASSUME NEW i \in DOMAIN wire', NEW j \in DOMAIN wire', NEW k \in DOMAIN wire',
                          i < j, j < k, wire'[i].type = "autonomy_status",
                          wire'[j].type = "telemetry", wire'[k].type = "telemetry"
                   PROVE  wire'[k].sequence > wire'[i].sequence
        BY DEF OneStaleTelemetry
      <4>1. i \in DOMAIN wire /\ j \in DOMAIN wire /\ wire'[i] = wire[i] /\ wire'[j] = wire[j]
        BY <2>4
      <4>2. CASE k \in DOMAIN wire /\ wire'[k] = wire[k]
        BY <4>1, <4>2 DEF OneStaleTelemetry
      <4>3. CASE wire'[k] = slot
        BY <3>1, <4>1, <4>3 DEF SlotIsLater
      <4>4. QED  BY <2>3, <3>1, <4>2, <4>3
    <3>4. QED  BY <3>2, <3>3
  <2>7. QED  BY <2>1, <2>5, <2>6 DEF Send
<1>6. QED
  BY <1>3, <1>4, <1>5 DEF Next, vars, OnSource, SourceStops, OnControlMode, OnNmea,
     OnSetControlModeResponse, Enqueue

\* After an acknowledgement at most one telemetry frame is older than it
\* (radio_bridge_node.cpp:338-381 and 696-712).
THEOREM AtMostOneStale == Spec => []OneStaleTelemetry
<1>1. Init => OneStaleTelemetry /\ SlotIsLater
  BY DEF Init, OneStaleTelemetry, SlotIsLater
<1>2. IInv /\ OneStaleTelemetry /\ SlotIsLater /\ [Next]_vars => OneStaleTelemetry' /\ SlotIsLater'
  BY StaleStep
<1>3. QED  BY <1>1, <1>2, Invariance, PTL DEF Spec
=============================================================================
