--------------------------- MODULE AutonomyProofs ---------------------------
(***************************************************************************)
(* Proofs about Autonomy for every number of requests and every queue      *)
(* capacity, with Outbound's invariant.                                    *)
(***************************************************************************)
EXTENDS Autonomy, OutboundProofs

\* The requests on their way, the answers and the acknowledgements come in the order of the
\* requests, and an answer is to its own request.
InOrder ==
  /\ \A i \in DOMAIN requests :
       /\ requests[i] \in DOMAIN asked
       /\ \A j \in DOMAIN requests : i < j => requests[i] < requests[j]
  /\ \A i \in DOMAIN responses :
       /\ responses[i].request \in DOMAIN asked
       /\ responses[i].mode = RequestedMode(asked[responses[i].request])
       /\ \A j \in DOMAIN responses : i < j => responses[i].request < responses[j].request
       /\ \A j \in DOMAIN requests : responses[i].request < requests[j]
  /\ \A i \in DOMAIN acks :
       /\ \A j \in DOMAIN requests : acks[i].request < requests[j]
       /\ \A j \in DOMAIN responses : acks[i].request < responses[j].request

\* While the mux has the mode of its last answer it is there, and the last answer on its way
\* tells that mode, or the last acknowledgement does.
LastTells ==
  settled =>
    /\ service_is_ready
    /\ responses # << >> => responses[Len(responses)].mode = mode
    /\ responses = << >> => LastAck = Nothing \/ LastAck = StatusOf(mode)

AInv == IInv /\ AutonomyTypeOK /\ InOrder /\ AckTellsOutcome /\ LastTells

-----------------------------------------------------------------------------
(* Autonomy implements Outbound *)

\* What an acknowledgement says is one of Statuses (radio_bridge_node.cpp:701-703).
LEMMA StatusProperties ==
  ASSUME NEW r \in Responses
  PROVE  Status(r) = StatusOf(r.mode) /\ Status(r) \in {1} \X {0, 1} /\ Status(r) \in Statuses
<1>1. r.success = TRUE
  BY DEF Responses
<1>2. Status(r) = StatusOf(r.mode)
  BY <1>1 DEF Status, StatusOf
<1>3. StatusOf(r.mode) \in {1} \X {0, 1}
  BY DEF StatusOf
<1>4. QED  BY <1>2, <1>3, AutonomyAssumption

\* The request asks for what the ground meant, and an acknowledgement of it tells the ground so
\* (radio_bridge_node.cpp:671 and 702-703).
LEMMA RequestedModeProperties ==
  ASSUME NEW p \in Decodable
  PROVE  RequestedMode(p) \in Modes /\ StatusOf(RequestedMode(p)) = Granted(p)
<1>1. p \in { << 0 >>, << 1 >>, << 2 >> }
  BY DEF Decodable, Commands, Decodes
<1>2. QED  BY <1>1 DEF RequestedMode, Modes, StatusOf, Granted

\* A sequence with an element more.
LEMMA Longer ==
  ASSUME NEW S, NEW s \in Seq(S), NEW e \in S
  PROVE  /\ Append(s, e) \in Seq(S) /\ Len(s) \in Nat /\ Len(Append(s, e)) = Len(s) + 1
         /\ DOMAIN s = 1..Len(s) /\ DOMAIN Append(s, e) = 1..(Len(s) + 1)
         /\ \A i \in 1..Len(s) : Append(s, e)[i] = s[i]
         /\ Append(s, e)[Len(s) + 1] = e
<1>1. Append(s, e) \in Seq(S)
  BY AppendProperties
<1>2. QED  BY <1>1, AppendProperties, LenProperties

\* A sequence without its first element.
LEMMA Shorter ==
  ASSUME NEW S, NEW s \in Seq(S), s # << >>
  PROVE  /\ Head(s) = s[1] /\ Head(s) \in S
         /\ Tail(s) \in Seq(S) /\ Len(s) \in Nat \ {0} /\ Len(Tail(s)) = Len(s) - 1
         /\ DOMAIN s = 1..Len(s) /\ DOMAIN Tail(s) = 1..(Len(s) - 1)
         /\ \A i \in 1..(Len(s) - 1) : Tail(s)[i] = s[i + 1]
<1>1. Tail(s) \in Seq(S) /\ Len(Tail(s)) = Len(s) - 1 /\ Head(s) \in S
      /\ \A i \in 1..Len(Tail(s)) : Tail(s)[i] = s[i + 1]
  BY HeadTailProperties
<1>2. Len(s) \in Nat \ {0} /\ DOMAIN s = 1..Len(s) /\ DOMAIN Tail(s) = 1..Len(Tail(s))
  BY <1>1, EmptySeq, LenProperties
<1>3. Head(s) = s[1]
  OBVIOUS
<1>4. QED  BY <1>1, <1>2, <1>3

\* The answer that is handled next.
LEMMA AnswerProperties ==
  ASSUME AutonomyTypeOK, NEW r \in Answers
  PROVE  responses \in Seq(Responses) /\ responses # << >> /\ r = Head(responses) /\ r \in Responses
<1>1. responses \in Seq(Responses) /\ responses # << >> /\ r = Head(responses)
  BY DEF AutonomyTypeOK, Answers
<1>2. QED  BY <1>1, Shorter

\* Every step of the composition is one of Outbound or changes nothing of it.
LEMMA OutboundStep ==
  ASSUME AutonomyTypeOK, [AutonomyNext]_autonomyVars
  PROVE  [Next]_vars
<1>1. CASE AnswerArrives
  BY <1>1, AnswerProperties, StatusProperties DEF AnswerArrives, Next
<1>2. CASE GgaArrives
  BY <1>2 DEF GgaArrives, Next
<1>3. CASE TxTimer
  BY <1>3 DEF TxTimer, OnTxTimer, Next
<1>4. CASE UNCHANGED vars
  BY <1>4
<1>5. QED
  BY <1>1, <1>2, <1>3, <1>4 DEF AutonomyNext, autonomyVars, HandleAutonomyCommand, SendRequest,
     ServiceAnswers, GamepadChangesMode, ServiceDies, ServiceStarts

-----------------------------------------------------------------------------
(* Types *)

\* What a request's turn at the mux changes.
LEMMA ServiceAnswersProperties ==
  ASSUME AutonomyTypeOK, InOrder, ServiceAnswers
  PROVE  LET a == [request |-> requests[1], success |-> TRUE, mode |-> RequestedMode(asked[requests[1]])]
         IN  /\ requests # << >> /\ 1 \in DOMAIN requests
             /\ requests \in Seq(Nat) /\ responses \in Seq(Responses)
             /\ requests[1] \in DOMAIN asked /\ asked[requests[1]] \in Decodable
             /\ mode' = RequestedMode(asked[requests[1]]) /\ mode' \in Modes
             /\ requests' = Tail(requests)
             /\ responses' = Append(responses, a) /\ a \in Responses
<1>1. requests # << >> /\ requests \in Seq(Nat) /\ responses \in Seq(Responses) /\ asked \in Seq(Decodable)
  BY DEF ServiceAnswers, AutonomyTypeOK
<1>2. Head(requests) = requests[1] /\ 1 \in DOMAIN requests /\ requests[1] \in Nat
  BY <1>1, Shorter
<1>3. requests[1] \in DOMAIN asked
  BY <1>2 DEF InOrder
<1>4. asked[requests[1]] \in Decodable
  BY <1>1, <1>3, ElementOfSeq, LenProperties
<1>5. QED  BY <1>1, <1>2, <1>3, <1>4, RequestedModeProperties DEF ServiceAnswers, Responses

\* The beginning of the answers' sequence that outlives the mux.
LEMMA ServiceDiesProperties ==
  ASSUME AutonomyTypeOK, ServiceDies
  PROVE  /\ responses' \in Seq(Responses)
         /\ DOMAIN responses' \subseteq DOMAIN responses
         /\ \A i \in DOMAIN responses' : responses'[i] = responses[i]
<1>1. responses \in Seq(Responses) /\ Len(responses) \in Nat /\ DOMAIN responses = 1..Len(responses)
  BY LenProperties DEF AutonomyTypeOK
<1>2. PICK n \in 0..Len(responses) : responses' = SubSeq(responses, 1, n)
  BY DEF ServiceDies
<1>3. n \in Int /\ \A i \in 1..n : responses[i] \in Responses
  BY <1>1, ElementOfSeq
<1>4. /\ SubSeq(responses, 1, n) \in Seq(Responses)
      /\ Len(SubSeq(responses, 1, n)) = IF 1 <= n THEN n - 1 + 1 ELSE 0
      /\ \A i \in 1..(n - 1 + 1) : SubSeq(responses, 1, n)[i] = responses[1 + i - 1]
  BY <1>3, SubSeqProperties
<1>5. DOMAIN SubSeq(responses, 1, n) = 1..n
  BY <1>1, <1>2, <1>4, LenProperties
<1>6. QED  BY <1>1, <1>2, <1>4, <1>5

\* Every step keeps the types.
LEMMA AutonomyTypeStep ==
  ASSUME IInv, AutonomyTypeOK, InOrder, [AutonomyNext]_autonomyVars
  PROVE  AutonomyTypeOK'
<1>1. /\ asked \in Seq(Decodable) /\ Len(asked) \in Nat
      /\ requests \in Seq(Nat) /\ responses \in Seq(Responses) /\ acks \in Seq(Acks)
  BY LenProperties DEF AutonomyTypeOK
<1>2. CASE HandleAutonomyCommand
  BY <1>2 DEF HandleAutonomyCommand, AutonomyTypeOK, Decodable, muxVars
<1>3. CASE SendRequest
  <2>1. command \in Decodable /\ command' = NoCommand /\ asked' = Append(asked, command)
        /\ UNCHANGED << responses, acks, told, service_is_ready, mode, settled >>
    BY <1>3 DEF SendRequest, AutonomyTypeOK, muxVars
  <2>2. asked' \in Seq(Decodable)
    BY <1>1, <2>1, AppendProperties
  <2>3. requests' \in Seq(Nat)
    <3>1. Append(requests, Len(asked) + 1) \in Seq(Nat)
      BY <1>1, AppendProperties
    <3>2. QED  BY <1>1, <1>3, <3>1 DEF SendRequest
  <2>4. QED  BY <2>1, <2>2, <2>3 DEF AutonomyTypeOK
<1>4. CASE ServiceAnswers
  <2> DEFINE a == [request |-> requests[1], success |-> TRUE, mode |-> RequestedMode(asked[requests[1]])]
  <2>1. /\ requests # << >> /\ mode' \in Modes /\ requests' = Tail(requests)
        /\ responses' = Append(responses, a) /\ a \in Responses
    BY <1>4, ServiceAnswersProperties
  <2> HIDE DEF a
  <2>2. requests' \in Seq(Nat) /\ responses' \in Seq(Responses)
    BY <1>1, <2>1, AppendProperties, HeadTailProperties
  <2>3. settled' = TRUE /\ UNCHANGED << service_is_ready, command, asked, acks, told >>
    BY <1>4 DEF ServiceAnswers
  <2>4. QED  BY <2>1, <2>2, <2>3 DEF AutonomyTypeOK
<1>5. CASE GamepadChangesMode
  BY <1>5 DEF GamepadChangesMode, AutonomyTypeOK, clientVars
<1>6. CASE ServiceDies
  <2>1. responses' \in Seq(Responses)
    BY <1>6, ServiceDiesProperties
  <2>2. << >> \in Seq(Nat)
    OBVIOUS
  <2>3. QED  BY <1>6, <2>1, <2>2 DEF ServiceDies, AutonomyTypeOK
<1>7. CASE ServiceStarts
  BY <1>7 DEF ServiceStarts, AutonomyTypeOK, clientVars
<1>8. CASE AnswerArrives
  <2>1. PICK r \in Answers : /\ responses' = Tail(responses)
                             /\ acks' = Append(acks, [request |-> r.request, status |-> Status(r)])
                             /\ UNCHANGED << muxVars, command, requests, asked, told >>
    BY <1>8 DEF AnswerArrives
  <2>2. responses # << >> /\ r \in Responses /\ Status(r) \in {1} \X {0, 1}
    BY AnswerProperties, StatusProperties
  <2>3. [request |-> r.request, status |-> Status(r)] \in Acks
    BY <2>2 DEF Acks, Responses
  <2>4. acks' \in Seq(Acks) /\ responses' \in Seq(Responses)
    BY <1>1, <2>1, <2>2, <2>3, AppendProperties, HeadTailProperties
  <2>5. QED  BY <2>1, <2>4 DEF AutonomyTypeOK, muxVars
<1>9. CASE GgaArrives
  BY <1>9 DEF GgaArrives, AutonomyTypeOK, muxVars, clientVars
<1>10. CASE TxTimer
  <2>1. PICK f \in Outgoing, ok \in BOOLEAN :
          /\ told' = IF f.type # "autonomy_status" THEN told ELSE IF ok THEN f.payload ELSE Nothing
          /\ UNCHANGED << muxVars, clientVars >>
    BY <1>10 DEF TxTimer
  <2>2. f \in Frames
    BY OutgoingAreFrames DEF IInv
  <2>3. f.type = "autonomy_status" => f.payload \in Statuses
    BY <2>2 DEF Frames
  <2>4. QED  BY <2>1, <2>3 DEF AutonomyTypeOK, muxVars, clientVars
<1>11. CASE UNCHANGED autonomyVars
  BY <1>11 DEF AutonomyTypeOK, autonomyVars, muxVars, clientVars
<1>12. QED
  BY <1>2, <1>3, <1>4, <1>5, <1>6, <1>7, <1>8, <1>9, <1>10, <1>11 DEF AutonomyNext

-----------------------------------------------------------------------------
(* The order of requests, answers and acknowledgements *)

\* A request is the last of its kind (radio_bridge_node.cpp:689-693).
LEMMA SendRequestKeepsOrder ==
  ASSUME AutonomyTypeOK, InOrder, AckTellsOutcome, SendRequest
  PROVE  InOrder' /\ AckTellsOutcome'
<1>1. asked \in Seq(Decodable) /\ requests \in Seq(Nat) /\ command \in Decodable
  BY DEF AutonomyTypeOK, SendRequest
<1> DEFINE n == Len(asked) + 1
<1>2. /\ Len(asked) \in Nat /\ DOMAIN asked = 1..Len(asked) /\ n \in Nat
      /\ asked' = Append(asked, command)
      /\ DOMAIN asked' = 1..n /\ \A i \in 1..Len(asked) : asked'[i] = asked[i]
  <2>1. asked' = Append(asked, command)
    BY DEF SendRequest
  <2>2. QED  BY <1>1, <2>1, Longer
<1>3. requests' = requests \/ requests' = Append(requests, n)
  BY DEF SendRequest
<1>4. UNCHANGED << responses, acks >>
  BY DEF SendRequest
<1>5. Len(requests) \in Nat /\ DOMAIN requests = 1..Len(requests)
      /\ DOMAIN Append(requests, n) = 1..(Len(requests) + 1)
      /\ (\A i \in 1..Len(requests) : Append(requests, n)[i] = requests[i])
      /\ Append(requests, n)[Len(requests) + 1] = n
  BY <1>1, <1>2, Longer
<1>6. \A i \in DOMAIN requests' : \/ i \in DOMAIN requests /\ requests'[i] = requests[i]
                                  \/ i = Len(requests) + 1 /\ requests'[i] = n
  BY <1>3, <1>5
<1>7. \A i, j \in DOMAIN requests' : i < j => i \in DOMAIN requests /\ requests'[i] = requests[i]
  BY <1>3, <1>5, <1>6
<1>8. \A i \in DOMAIN asked : i < n /\ i \in DOMAIN asked' /\ asked'[i] = asked[i]
  BY <1>2
<1>9. n \in DOMAIN asked'
  BY <1>2
<1> HIDE DEF n
<1>10. AckTellsOutcome'
  BY <1>4, <1>8 DEF AckTellsOutcome
<1>11. \A i \in DOMAIN requests' :
         /\ requests'[i] \in DOMAIN asked'
         /\ \A j \in DOMAIN requests' : i < j => requests'[i] < requests'[j]
  BY <1>6, <1>7, <1>8, <1>9 DEF InOrder
<1>12. \A i \in DOMAIN responses :
         /\ responses[i].request \in DOMAIN asked'
         /\ responses[i].mode = RequestedMode(asked'[responses[i].request])
         /\ \A j \in DOMAIN responses : i < j => responses[i].request < responses[j].request
         /\ \A j \in DOMAIN requests' : responses[i].request < requests'[j]
  BY <1>6, <1>8 DEF InOrder
<1>13. \A i \in DOMAIN acks :
         /\ \A j \in DOMAIN requests' : acks[i].request < requests'[j]
         /\ \A j \in DOMAIN responses : acks[i].request < responses[j].request
  BY <1>6, <1>8 DEF InOrder, AckTellsOutcome
<1>14. QED  BY <1>4, <1>10, <1>11, <1>12, <1>13 DEF InOrder

\* The mux answers the first request.
LEMMA ServiceAnswersKeepsOrder ==
  ASSUME AutonomyTypeOK, InOrder, AckTellsOutcome, ServiceAnswers
  PROVE  InOrder' /\ AckTellsOutcome'
<1> DEFINE a == [request |-> requests[1], success |-> TRUE, mode |-> RequestedMode(asked[requests[1]])]
<1>1. /\ requests # << >> /\ 1 \in DOMAIN requests
      /\ requests \in Seq(Nat) /\ responses \in Seq(Responses)
      /\ requests[1] \in DOMAIN asked /\ requests' = Tail(requests)
      /\ responses' = Append(responses, a) /\ a \in Responses
  BY ServiceAnswersProperties
<1>2. a.request = requests[1] /\ a.mode = RequestedMode(asked[requests[1]])
  OBVIOUS
<1> HIDE DEF a
<1>3. UNCHANGED << asked, acks >>
  BY DEF ServiceAnswers
<1>4. \A i \in DOMAIN requests' : /\ i + 1 \in DOMAIN requests /\ requests'[i] = requests[i + 1]
                                  /\ 1 < i + 1 /\ i \in Nat
  BY <1>1, Shorter
<1>5. Len(responses) \in Nat /\ DOMAIN responses = 1..Len(responses)
      /\ DOMAIN responses' = 1..(Len(responses) + 1)
      /\ (\A i \in 1..Len(responses) : responses'[i] = responses[i])
      /\ responses'[Len(responses) + 1] = a
  BY <1>1, Longer
<1>6. \A i \in DOMAIN responses' : \/ i \in DOMAIN responses /\ responses'[i] = responses[i]
                                   \/ i = Len(responses) + 1 /\ responses'[i] = a
  BY <1>5
<1>7. \A i, j \in DOMAIN responses' : i < j => i \in DOMAIN responses /\ responses'[i] = responses[i]
  BY <1>5
<1>8. AckTellsOutcome'
  BY <1>3 DEF AckTellsOutcome
<1>9. \A i \in DOMAIN requests' :
        /\ requests'[i] \in DOMAIN asked
        /\ requests[1] < requests'[i]
  BY <1>1, <1>4 DEF InOrder
<1>10. \A i, j \in DOMAIN requests' : i < j => requests'[i] < requests'[j]
  <2> SUFFICES ASSUME NEW i \in DOMAIN requests', NEW j \in DOMAIN requests', i < j
               PROVE  requests'[i] < requests'[j]
    OBVIOUS
  <2>1. i + 1 < j + 1
    BY <1>4
  <2>2. QED  BY <1>4, <2>1 DEF InOrder
<1>11. \A i \in DOMAIN responses' :
         /\ responses'[i].request \in DOMAIN asked
         /\ responses'[i].mode = RequestedMode(asked[responses'[i].request])
         /\ \A j \in DOMAIN requests' : responses'[i].request < requests'[j]
  BY <1>1, <1>2, <1>4, <1>6, <1>9 DEF InOrder
<1>12. \A i, j \in DOMAIN responses' : i < j => responses'[i].request < responses'[j].request
  BY <1>1, <1>2, <1>6, <1>7 DEF InOrder
<1>13. \A i \in DOMAIN acks :
         /\ \A j \in DOMAIN requests' : acks[i].request < requests'[j]
         /\ \A j \in DOMAIN responses' : acks[i].request < responses'[j].request
  BY <1>1, <1>2, <1>4, <1>6 DEF InOrder
<1>14. QED  BY <1>3, <1>8, <1>9, <1>10, <1>11, <1>12, <1>13 DEF InOrder

\* The callback acknowledges the first answer (radio_bridge_node.cpp:696-707).
LEMMA AnswerArrivesKeepsOrder ==
  ASSUME AutonomyTypeOK, InOrder, AckTellsOutcome, AnswerArrives
  PROVE  InOrder' /\ AckTellsOutcome'
<1>1. PICK r \in Answers : /\ responses' = Tail(responses)
                           /\ acks' = Append(acks, [request |-> r.request, status |-> Status(r)])
                           /\ UNCHANGED << requests, asked >>
  BY DEF AnswerArrives
<1> DEFINE a == [request |-> r.request, status |-> Status(r)]
<1>2. /\ responses \in Seq(Responses) /\ responses # << >> /\ r = Head(responses) /\ r \in Responses
      /\ Status(r) = StatusOf(r.mode) /\ Status(r) \in {1} \X {0, 1}
  BY AnswerProperties, StatusProperties
<1>3. acks \in Seq(Acks) /\ a \in Acks
  BY <1>2 DEF AutonomyTypeOK, Acks, Responses
<1>4. a.request = r.request /\ a.status = StatusOf(r.mode)
  BY <1>2
<1>5. acks' = Append(acks, a)
  BY <1>1
<1> HIDE DEF a
<1>6. r = responses[1] /\ 1 \in DOMAIN responses
      /\ \A i \in DOMAIN responses' : /\ i + 1 \in DOMAIN responses /\ responses'[i] = responses[i + 1]
                                      /\ 1 < i + 1 /\ i \in Nat
  BY <1>1, <1>2, Shorter
<1>7. Len(acks) \in Nat /\ DOMAIN acks = 1..Len(acks) /\ DOMAIN acks' = 1..(Len(acks) + 1)
      /\ (\A i \in 1..Len(acks) : acks'[i] = acks[i])
      /\ acks'[Len(acks) + 1] = a
  BY <1>3, <1>5, Longer
<1>8. \A i \in DOMAIN acks' : \/ i \in DOMAIN acks /\ acks'[i] = acks[i]
                              \/ i = Len(acks) + 1 /\ acks'[i] = a
  BY <1>7
<1>9. \A i, j \in DOMAIN acks' : i < j => i \in DOMAIN acks /\ acks'[i] = acks[i]
  BY <1>7
<1>10. r.request \in DOMAIN asked /\ r.mode = RequestedMode(asked[r.request])
       /\ (\A j \in DOMAIN responses' : r.request < responses'[j].request)
       /\ (\A j \in DOMAIN requests : r.request < requests[j])
       /\ (\A i \in DOMAIN acks : acks[i].request < r.request)
  BY <1>6 DEF InOrder
<1>11. AckTellsOutcome'
  <2>1. asked[r.request] \in Decodable
    BY <1>10, ElementOfSeq, LenProperties DEF AutonomyTypeOK
  <2>2. a.status = Granted(asked[r.request])
    BY <1>4, <1>10, <2>1, RequestedModeProperties
  <2>3. QED  BY <1>1, <1>4, <1>8, <1>9, <1>10, <2>2 DEF AckTellsOutcome
<1>12. \A i, j \in DOMAIN responses' : i < j => responses'[i].request < responses'[j].request
  <2> SUFFICES ASSUME NEW i \in DOMAIN responses', NEW j \in DOMAIN responses', i < j
               PROVE  responses'[i].request < responses'[j].request
    OBVIOUS
  <2>1. i + 1 < j + 1
    BY <1>6
  <2>2. QED  BY <1>6, <2>1 DEF InOrder
<1>13. \A i \in DOMAIN responses' :
         /\ responses'[i].request \in DOMAIN asked
         /\ responses'[i].mode = RequestedMode(asked[responses'[i].request])
         /\ \A j \in DOMAIN requests : responses'[i].request < requests[j]
  BY <1>6 DEF InOrder
<1>14. \A i \in DOMAIN acks' :
         /\ \A j \in DOMAIN requests : acks'[i].request < requests[j]
         /\ \A j \in DOMAIN responses' : acks'[i].request < responses'[j].request
  BY <1>4, <1>6, <1>8, <1>10 DEF InOrder
<1>15. QED  BY <1>1, <1>11, <1>12, <1>13, <1>14 DEF InOrder

\* A mux that dies takes requests and answers with it, and leaves the rest in order.
LEMMA ServiceDiesKeepsOrder ==
  ASSUME AutonomyTypeOK, InOrder, AckTellsOutcome, ServiceDies
  PROVE  InOrder' /\ AckTellsOutcome'
<1>1. DOMAIN responses' \subseteq DOMAIN responses /\ \A i \in DOMAIN responses' : responses'[i] = responses[i]
  BY ServiceDiesProperties
<1>2. requests' = << >> /\ UNCHANGED << asked, acks >>
  BY DEF ServiceDies
<1>3. DOMAIN requests' = {}
  BY <1>2
<1>4. QED  BY <1>1, <1>2, <1>3 DEF InOrder, AckTellsOutcome

\* Every step keeps the order.
LEMMA OrderStep ==
  ASSUME AutonomyTypeOK, InOrder, AckTellsOutcome, [AutonomyNext]_autonomyVars
  PROVE  InOrder' /\ AckTellsOutcome'
<1>1. CASE UNCHANGED << requests, responses, asked, acks >>
  BY <1>1 DEF InOrder, AckTellsOutcome
<1>2. QED
  BY <1>1, SendRequestKeepsOrder, ServiceAnswersKeepsOrder, AnswerArrivesKeepsOrder,
     ServiceDiesKeepsOrder
     DEF AutonomyNext, autonomyVars, clientVars, HandleAutonomyCommand, GamepadChangesMode,
         ServiceStarts, GgaArrives, TxTimer

-----------------------------------------------------------------------------
(* What the ground learns *)

\* After a push the new acknowledgement is the one that goes last, full queue or not
\* (radio_bridge_node.cpp:721-733).
LEMMA PushedGoesLast ==
  ASSUME IInv, NEW status \in Statuses, OnSetControlModeResponse(status)
  PROVE  LastAck' = status
<1> DEFINE f == [type |-> "autonomy_status", sequence |-> tx_sequence, payload |-> status]
           q == queues["autonomy_status"]
           r == Pushed(q, f)
<1>1. TypeOK
  BY DEF IInv
<1>2. "autonomy_status" \in Classes /\ DOMAIN queues = Classes /\ q \in Seq(Frames) /\ Len(q) <= kQueueCapacity
  BY <1>1 DEF TypeOK, Classes
<1>3. queues'["autonomy_status"] = r
  BY <1>2 DEF OnSetControlModeResponse, Enqueue
<1>4. f \in Frames /\ f.payload = status
  <2>1. tx_sequence \in Nat
    BY <1>1, LenProperties DEF TypeOK, tx_sequence
  <2>2. QED  BY <2>1 DEF Frames
<1> HIDE DEF f, q
<1>5. r[Len(r)] = f /\ Len(r) \in 1..kQueueCapacity /\ r \in Seq(Frames)
  BY <1>2, <1>4, PushedProperties
<1>6. r # << >>
  BY <1>5, OutboundAssumption
<1>7. QED  BY <1>3, <1>4, <1>5, <1>6 DEF LastAck

\* A tick leaves the acknowledgement that goes last, or its write fails
\* (radio_bridge_node.cpp:353-356 and 387-390).
LEMMA TxTimerKeepsLast ==
  ASSUME IInv, TxTimer
  PROVE  LastAck' = LastAck \/ LastAck' = Nothing
<1>1. PICK f \in Outgoing, ok \in BOOLEAN :
        /\ Send(f, ok)
        /\ told' = IF f.type # "autonomy_status" THEN told ELSE IF ok THEN f.payload ELSE Nothing
  BY DEF TxTimer
<1>2. TypeOK /\ Order
  BY DEF IInv
<1> DEFINE q == queues["autonomy_status"]
<1>3. CASE FromSlot(f)
  <2>1. f.type = "telemetry" /\ queues' = queues
    BY <1>2, <1>3 DEF FromSlot, Order
  <2>2. QED  BY <1>1, <2>1 DEF LastAck
<1>4. CASE FromQueue(f)
  <2>1. PICK n \in Waiting : f = Head(queues[Priority[n]])
                             /\ queues' = [queues EXCEPT ![Priority[n]] = Tail(@)]
    BY <1>4 DEF FromQueue
  <2> DEFINE c == Priority[n]
  <2>2. c \in Classes /\ queues[c] # << >> /\ "autonomy_status" \in Classes
    BY DEF Waiting, Priority, Classes
  <2> HIDE DEF c
  <2>3. queues[c] \in Seq(Frames) /\ DOMAIN queues = Classes
    BY <1>2, <2>2 DEF TypeOK
  <2>4. f = queues[c][1] /\ 1 \in DOMAIN queues[c]
    BY <2>1, <2>2, <2>3, Shorter DEF c
  <2>5. f.type = c
    BY <1>2, <2>2, <2>4 DEF Order
  <2>6. CASE c # "autonomy_status"
    <3>1. queues'["autonomy_status"] = queues["autonomy_status"]
      BY <2>1, <2>2, <2>3, <2>6 DEF c
    <3>2. QED  BY <1>1, <2>5, <2>6, <3>1 DEF LastAck
  <2>7. CASE c = "autonomy_status"
    <3>1. queues'["autonomy_status"] = Tail(q)
      <4>1. queues' = [queues EXCEPT !["autonomy_status"] = Tail(queues["autonomy_status"])]
        BY <2>1, <2>7 DEF c
      <4>2. QED  BY <2>2, <2>3, <4>1
    <3>2. q \in Seq(Frames) /\ q # << >> /\ f = q[1]
      BY <2>2, <2>3, <2>4, <2>7
    <3>3. told' = f.payload \/ told' = Nothing
      BY <1>1, <2>5, <2>7
    <3>4. LastAck = q[Len(q)].payload
      BY <3>2 DEF LastAck
    <3> HIDE DEF q
    <3>5. Len(q) \in Nat \ {0} /\ Len(Tail(q)) = Len(q) - 1 /\ Tail(q) \in Seq(Frames)
          /\ \A i \in 1..(Len(q) - 1) : Tail(q)[i] = q[i + 1]
      BY <3>2, Shorter
    <3>6. CASE Tail(q) = << >>
      <4>1. Len(q) = 1
        <5>1. Len(Tail(q)) = 0
          BY <3>6, EmptySeq
        <5>2. Len(q) - 1 = 0
          BY <3>5, <5>1, Zenon
        <5>3. Len(q) \in Nat
          BY <3>2, LenProperties
        <5>4. QED  BY <5>2, <5>3
      <4>2. LastAck' = told'
        BY <3>1, <3>6 DEF LastAck
      <4>3. QED  BY <3>2, <3>3, <3>4, <4>1, <4>2
    <3>7. CASE Tail(q) # << >>
      <4>1. Len(Tail(q)) \in Nat \ {0}
        BY <3>5, <3>7, EmptySeq
      <4>2. Tail(q)[Len(Tail(q))] = q[Len(q)]
        BY <3>5, <4>1
      <4>3. LastAck' = Tail(q)[Len(Tail(q))].payload
        BY <3>1, <3>7 DEF LastAck
      <4>4. QED  BY <3>4, <4>2, <4>3
    <3>8. QED  BY <3>6, <3>7
  <2>8. QED  BY <2>6, <2>7
<1>5. QED  BY <1>1, <1>3, <1>4 DEF Send

\* Every step keeps what the ground will learn last.
LEMMA LastTellsStep ==
  ASSUME IInv, AutonomyTypeOK, InOrder, LastTells, [AutonomyNext]_autonomyVars
  PROVE  LastTells'
<1>1. CASE UNCHANGED << queues, told, responses, mode, settled, service_is_ready >>
  <2>1. LastAck' = LastAck
    BY <1>1 DEF LastAck
  <2>2. QED  BY <1>1, <2>1 DEF LastTells
<1>2. CASE settled' = FALSE
  BY <1>2 DEF LastTells
<1>3. CASE ServiceAnswers
  <2> DEFINE a == [request |-> requests[1], success |-> TRUE, mode |-> RequestedMode(asked[requests[1]])]
  <2>1. /\ responses \in Seq(Responses) /\ mode' = RequestedMode(asked[requests[1]])
        /\ responses' = Append(responses, a) /\ a \in Responses
    BY <1>3, ServiceAnswersProperties
  <2>2. a.mode = mode'
    BY <2>1
  <2> HIDE DEF a
  <2>3. responses' # << >> /\ Len(responses') = Len(responses) + 1 /\ responses'[Len(responses) + 1] = a
    BY <2>1, AppendProperties
  <2>4. service_is_ready'
    BY <1>3 DEF ServiceAnswers
  <2>5. QED  BY <2>2, <2>3, <2>4 DEF LastTells
<1>4. CASE ServiceStarts
  BY <1>4 DEF ServiceStarts, LastTells
<1>5. CASE AnswerArrives
  <2>1. PICK r \in Answers : /\ responses' = Tail(responses)
                             /\ OnSetControlModeResponse(Status(r))
                             /\ UNCHANGED << service_is_ready, mode, settled >>
    BY <1>5 DEF AnswerArrives, muxVars
  <2>2. /\ responses \in Seq(Responses) /\ responses # << >> /\ r = Head(responses)
        /\ Status(r) = StatusOf(r.mode) /\ Status(r) \in Statuses
    BY AnswerProperties, StatusProperties
  <2>3. LastAck' = StatusOf(r.mode)
    BY <2>1, <2>2, PushedGoesLast
  <2>4. /\ r = responses[1] /\ Len(responses) \in Nat \ {0} /\ responses' \in Seq(Responses)
        /\ Len(responses') = Len(responses) - 1
        /\ \A i \in 1..(Len(responses) - 1) : responses'[i] = responses[i + 1]
    BY <2>1, <2>2, Shorter
  <2>5. responses' = << >> => Len(responses) = 1
    BY <2>4
  <2>6. responses' # << >> => responses'[Len(responses')] = responses[Len(responses)]
    <3>1. responses' # << >> => Len(responses') \in Nat \ {0}
      BY <2>4, EmptySeq
    <3>2. QED  BY <2>4, <3>1
  <2>7. QED  BY <2>1, <2>2, <2>3, <2>4, <2>5, <2>6 DEF LastTells
<1>6. CASE GgaArrives
  <2>1. queues'["autonomy_status"] = queues["autonomy_status"] /\ UNCHANGED << told, responses, muxVars >>
    <3>1. "autonomy_status" \in DOMAIN queues
      BY DEF IInv, TypeOK, Classes
    <3>2. QED  BY <1>6, <3>1 DEF GgaArrives, OnNmea, Enqueue, clientVars
  <2>2. LastAck' = LastAck
    BY <2>1 DEF LastAck
  <2>3. QED  BY <2>1, <2>2 DEF LastTells, muxVars
<1>7. CASE TxTimer
  <2>1. LastAck' = LastAck \/ LastAck' = Nothing
    BY <1>7, TxTimerKeepsLast
  <2>2. UNCHANGED << responses, muxVars >>
    BY <1>7 DEF TxTimer, clientVars
  <2>3. QED  BY <2>1, <2>2 DEF LastTells, muxVars
<1>8. QED
  BY <1>1, <1>2, <1>3, <1>4, <1>5, <1>6, <1>7
     DEF AutonomyNext, autonomyVars, vars, muxVars, clientVars, HandleAutonomyCommand, SendRequest,
         GamepadChangesMode, ServiceDies

-----------------------------------------------------------------------------
(* What follows for every behaviour *)

\* The composition starts in order.
LEMMA AInvInit == AutonomyInit => AInv
<1> SUFFICES ASSUME AutonomyInit  PROVE AInv
  OBVIOUS
<1>1. IInv
  BY IInvInit DEF AutonomyInit
<1>2. \A S : << >> \in Seq(S)
  OBVIOUS
<1>3. AutonomyTypeOK
  BY <1>2 DEF AutonomyInit, AutonomyTypeOK
<1>4. InOrder /\ AckTellsOutcome /\ LastTells
  BY DEF AutonomyInit, InOrder, AckTellsOutcome, LastTells
<1>5. QED  BY <1>1, <1>3, <1>4 DEF AInv

\* Every step keeps the invariant.
LEMMA AInvStep == AInv /\ [AutonomyNext]_autonomyVars => AInv'
<1> SUFFICES ASSUME AInv, [AutonomyNext]_autonomyVars  PROVE AInv'
  OBVIOUS
<1>1. IInv /\ AutonomyTypeOK /\ InOrder /\ AckTellsOutcome /\ LastTells
  BY DEF AInv
<1>2. IInv'
  BY <1>1, OutboundStep, IInvStep
<1>3. QED  BY <1>1, <1>2, AutonomyTypeStep, OrderStep, LastTellsStep DEF AInv

\* Every reachable state satisfies the invariant.
LEMMA AutonomyInvariance == AutonomySpec => []AInv
<1>1. QED  BY AInvInit, AInvStep, PTL DEF AutonomySpec

\* The composition implements Outbound: nothing the service does makes the queues behave
\* otherwise (radio_bridge_node.cpp:344-391 and 696-733).
THEOREM AutonomyImplementsOutbound == AutonomySpec => Spec
<1>1. AutonomyInit => Init
  BY DEF AutonomyInit
<1>2. AInv /\ [AutonomyNext]_autonomyVars => [Next]_vars
  BY OutboundStep DEF AInv
<1>3. QED  BY <1>1, <1>2, AutonomyInvariance, PTL DEF AutonomySpec, Spec

\* Each acknowledgement tells the outcome of its own request, each request has at most one,
\* for every number of requests and deaths of the service (radio_bridge_node.cpp:662-712).
THEOREM OutcomesTold == AutonomySpec => []AckTellsOutcome
<1>1. AInv => AckTellsOutcome
  BY DEF AInv
<1>2. QED  BY <1>1, AutonomyInvariance, PTL

\* The acknowledgement that goes last tells the mux's mode, for every queue capacity
\* (radio_bridge_node.cpp:696-733).
THEOREM GroundLearns == AutonomySpec => []GroundLearnsMode
<1>1. AInv => GroundLearnsMode
  BY DEF AInv, LastTells, GroundLearnsMode
<1>2. QED  BY <1>1, AutonomyInvariance, PTL

\* The last request on its way is the last that was sent, and a mux that has answered all of
\* them, and lost nothing since, has the mode of the last.
LastOnTheWay ==
  /\ settled \/ requests # << >> => service_is_ready /\ asked # << >>
  /\ requests # << >> => requests[Len(requests)] = Len(asked)
  /\ settled /\ requests = << >> => mode = RequestedMode(asked[Len(asked)])

LEMMA LastOnTheWayStep ==
  AutonomyTypeOK /\ LastOnTheWay /\ [AutonomyNext]_autonomyVars => LastOnTheWay'
<1> SUFFICES ASSUME AutonomyTypeOK, LastOnTheWay, [AutonomyNext]_autonomyVars
             PROVE  LastOnTheWay'
  OBVIOUS
<1>1. requests \in Seq(Nat) /\ asked \in Seq(Decodable)
  BY DEF AutonomyTypeOK
<1>2. CASE SendRequest
  <2>1. /\ UNCHANGED << service_is_ready, mode, settled >>
        /\ requests' = IF service_is_ready THEN Append(requests, Len(asked) + 1) ELSE requests
        /\ asked' = Append(asked, command) /\ command \in Decodable
    BY <1>2 DEF SendRequest, muxVars, AutonomyTypeOK
  <2>2. Len(asked') = Len(asked) + 1 /\ Len(asked) + 1 \in Nat
    BY <1>1, <2>1
  <2>3. CASE service_is_ready
    <3>1. requests' = Append(requests, Len(asked) + 1)
      BY <2>1, <2>3
    <3>2. requests' # << >> /\ requests'[Len(requests')] = Len(asked) + 1
      BY <1>1, <2>2, <3>1
    <3>3. QED  BY <2>1, <2>2, <2>3, <3>2 DEF LastOnTheWay
  <2>4. CASE ~service_is_ready
    BY <2>1, <2>4 DEF LastOnTheWay
  <2>5. QED  BY <2>3, <2>4
<1>3. CASE ServiceAnswers
  <2>1. /\ service_is_ready' /\ asked' = asked /\ requests # << >>
        /\ requests' = Tail(requests) /\ mode' = RequestedMode(asked[Head(requests)])
    BY <1>3 DEF ServiceAnswers, LastOnTheWay
  <2>2. CASE requests' = << >>
    <3>1. Head(requests) = requests[Len(requests)]
      <4>1. Len(requests) = 1
        <5>1. Len(requests) \in Nat /\ Len(requests') = Len(requests) - 1
          BY <1>1, <2>1
        <5>2. Len(requests') = 0
          BY <2>2
        <5>3. QED  BY <5>1, <5>2
      <4>2. QED  BY <1>1, <2>1, <4>1
    <3>2. QED  BY <2>1, <2>2, <3>1 DEF LastOnTheWay
  <2>3. CASE requests' # << >>
    <3>1. requests'[Len(requests')] = requests[Len(requests)]
      BY <1>1, <2>1, <2>3
    <3>2. QED  BY <2>1, <2>3, <3>1 DEF LastOnTheWay
  <2>4. QED  BY <2>2, <2>3
<1>4. CASE GamepadChangesMode \/ ServiceDies \/ ServiceStarts
  BY <1>4 DEF GamepadChangesMode, ServiceDies, ServiceStarts, LastOnTheWay, clientVars
<1>5. CASE \/ HandleAutonomyCommand \/ AnswerArrives \/ GgaArrives \/ TxTimer
           \/ UNCHANGED autonomyVars
  <2>1. UNCHANGED << service_is_ready, mode, settled, requests, asked >>
    BY <1>5 DEF HandleAutonomyCommand, AnswerArrives, GgaArrives, TxTimer, autonomyVars, muxVars,
                clientVars
  <2>2. QED  BY <2>1 DEF LastOnTheWay
<1>6. QED  BY <1>2, <1>3, <1>4, <1>5 DEF AutonomyNext

\* The ground's last word is the answer to its last request, for every number of requests and
\* every queue capacity (radio_bridge_node.cpp:662-733).
THEOREM LastIsAnswered == AutonomySpec => []LastRequestAnswered
<1>1. AutonomyInit => LastOnTheWay
  BY DEF AutonomyInit, LastOnTheWay
<1>2. AInv /\ LastOnTheWay => LastRequestAnswered
  <2> SUFFICES ASSUME AInv, LastOnTheWay, settled, requests = << >>, responses = << >>, LastAck # Nothing
               PROVE  LastAck = Granted(asked[Len(asked)])
    BY DEF LastRequestAnswered
  <2>1. LastAck = StatusOf(RequestedMode(asked[Len(asked)]))
    BY DEF AInv, LastTells, LastOnTheWay
  <2>2. asked \in Seq(Decodable) /\ asked # << >>
    BY DEF AInv, AutonomyTypeOK, LastOnTheWay
  <2>3. Len(asked) \in 1..Len(asked)
    BY <2>2, EmptySeq, LenProperties
  <2>4. asked[Len(asked)] \in Decodable
    BY <2>2, <2>3, ElementOfSeq
  <2>5. QED  BY <2>1, <2>4, RequestedModeProperties
<1>3. AInv => AutonomyTypeOK
  BY DEF AInv
<1>4. QED
  BY <1>1, <1>2, <1>3, LastOnTheWayStep, AutonomyInvariance, PTL DEF AutonomySpec
=============================================================================
