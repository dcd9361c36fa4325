------------------------------ MODULE Autonomy ------------------------------
(***************************************************************************)
(* A request to change the control mode, from the AUTONOMY_COMMAND frame   *)
(* to the acknowledgement on the air: the reader thread's handler, the     *)
(* service client, the response callback on the executor, and the TX       *)
(* queues of Outbound, where GGA sentences compete with acknowledgements.  *)
(* Telemetry is left out here: the TX timer looks at it last.              *)
(*                                                                         *)
(* External: the ground; mode_mux_node, which owns the mode, answers the   *)
(* requests in order, changes the mode on the gamepad's buttons, and may   *)
(* die and come back; and the client's queues, which keep the order.       *)
(*                                                                         *)
(* Not in the code: asked, the ground's payloads that became requests, by  *)
(* request; acks, the acknowledgements built so far with their requests;   *)
(* told, the last acknowledgement on the air; settled, that the mux still  *)
(* has the mode of its last answer and has lost nothing since.             *)
(***************************************************************************)
EXTENDS Outbound

CONSTANT MaxRequests   \* bound on the requests sent to the service

ASSUME AutonomyAssumption ==
  /\ MaxRequests \in Nat
  /\ {1} \X {0, 1} \subseteq Statuses

VARIABLES
  service_is_ready,
  mode,        \* mode_mux_node's
  command,     \* the payload handle_autonomy_command is at, or NoCommand
  requests,    \* on their way to the service
  responses,   \* on their way back
  asked,
  acks,
  told,
  settled

muxVars      == << service_is_ready, mode, settled >>
clientVars   == << command, requests, responses, asked, acks >>
autonomyVars == << vars, muxVars, clientVars, told >>

Modes == {"AUTO", "MANUAL"}
NoCommand == << >>

\* Nothing was acknowledged, or the last acknowledgement's write failed.
Nothing == << "nothing" >>

AutonomyInit ==
  /\ Init
  /\ service_is_ready \in BOOLEAN
  /\ mode \in Modes
  /\ command = NoCommand
  /\ requests = << >> /\ responses = << >>
  /\ asked = << >> /\ acks = << >>
  /\ told = Nothing
  /\ settled = FALSE

-----------------------------------------------------------------------------
(* The reader thread *)

\* The payloads that arrive, two of them of another version of the protocol.
Commands == { << 0 >>, << 1 >>, << 2 >>, << >> }

\* decode_autonomy_command.
Decodes(payload) == Len(payload) = 1

\* Variant: the two modes are swapped.
RequestedModeSwapped(payload) == IF payload[1] # 0 THEN "MANUAL" ELSE "AUTO"

\* The mode the handler puts into the request.
RequestedMode(payload) == IF payload[1] # 0 THEN "AUTO" ELSE "MANUAL"

\* handle_autonomy_command up to the look at the service.  A payload of another size, or a
\* service that is away: the command is dropped, which changes nothing.
HandleAutonomyCommand ==
  /\ command = NoCommand
  /\ Len(asked) < MaxRequests
  /\ \E payload \in Commands :
       /\ Decodes(payload) /\ service_is_ready
       /\ command' = payload
  /\ UNCHANGED << vars, muxVars, requests, responses, asked, acks, told >>

\* async_send_request.  The service may have gone since: then the request stays pending.
SendRequest ==
  /\ command # NoCommand
  /\ command' = NoCommand
  /\ asked' = Append(asked, command)
  /\ requests' = IF service_is_ready THEN Append(requests, Len(asked) + 1) ELSE requests
  /\ UNCHANGED << vars, muxVars, responses, acks, told >>

-----------------------------------------------------------------------------
(* mode_mux_node *)

\* It takes the mode of a request and answers with the mode it has now.
ServiceAnswers ==
  /\ service_is_ready /\ requests # << >>
  /\ mode' = RequestedMode(asked[Head(requests)])
  /\ requests' = Tail(requests)
  /\ responses' = Append(responses, [request |-> Head(requests), success |-> TRUE, mode |-> mode'])
  /\ settled' = TRUE
  /\ UNCHANGED << vars, service_is_ready, command, asked, acks, told >>

GamepadChangesMode ==
  /\ service_is_ready
  /\ mode' \in Modes \ {mode}
  /\ settled' = FALSE
  /\ UNCHANGED << vars, service_is_ready, clientVars, told >>

\* Requests are lost, and answers that are still on the way may be.
ServiceDies ==
  /\ service_is_ready
  /\ service_is_ready' = FALSE
  /\ settled' = FALSE
  /\ requests' = << >>
  /\ \E n \in 0..Len(responses) : responses' = SubSeq(responses, 1, n)
  /\ UNCHANGED << vars, mode, command, asked, acks, told >>

ServiceStarts ==
  /\ ~service_is_ready
  /\ service_is_ready' = TRUE
  /\ mode' \in Modes
  /\ UNCHANGED << vars, settled, clientVars, told >>

-----------------------------------------------------------------------------
(* The executor *)

\* Variant: the acknowledgement tells the mode last asked for.
StatusAsAsked(response) ==
  << 1, IF RequestedMode(asked[Len(asked)]) = "AUTO" THEN 1 ELSE 0 >>

\* What an acknowledgement says: accepted, resulting_mode.
Status(response) ==
  << IF response.success THEN 1 ELSE 0, IF response.mode = "AUTO" THEN 1 ELSE 0 >>

\* The answer the executor gets next.
Answers == IF responses = << >> THEN {} ELSE { Head(responses) }

\* Variant: an acknowledgement like the one before is held for superfluous.
AnswerArrivesOnce ==
  \E r \in Answers :
    /\ responses' = Tail(responses)
    /\ IF acks # << >> /\ acks[Len(acks)].status = Status(r) THEN UNCHANGED << vars, acks >>
       ELSE /\ acks' = Append(acks, [request |-> r.request, status |-> Status(r)])
            /\ OnSetControlModeResponse(Status(r))
    /\ UNCHANGED << muxVars, command, requests, asked, told >>

\* The response callback.
AnswerArrives ==
  \E r \in Answers :
    /\ responses' = Tail(responses)
    /\ acks' = Append(acks, [request |-> r.request, status |-> Status(r)])
    /\ OnSetControlModeResponse(Status(r))
    /\ UNCHANGED << muxVars, command, requests, asked, told >>

GgaArrives == OnNmea /\ UNCHANGED << muxVars, clientVars, told >>

\* on_tx_timer, with what the ground gets to know.
TxTimer ==
  \E f \in Outgoing, ok \in BOOLEAN :
    /\ Send(f, ok)
    /\ told' = IF f.type # "autonomy_status" THEN told ELSE IF ok THEN f.payload ELSE Nothing
    /\ UNCHANGED << muxVars, clientVars >>

AutonomyNext ==
  \/ HandleAutonomyCommand \/ SendRequest
  \/ ServiceAnswers \/ GamepadChangesMode \/ ServiceDies \/ ServiceStarts
  \/ AnswerArrives \/ GgaArrives \/ TxTimer

AutonomySpec == AutonomyInit /\ [][AutonomyNext]_autonomyVars

\* The reader thread finishes the handler it is in; the executor runs the callback and the
\* timer; the mux answers while it is there.
AutonomyFairSpec ==
  /\ AutonomySpec
  /\ WF_autonomyVars(SendRequest)
  /\ WF_autonomyVars(ServiceAnswers)
  /\ WF_autonomyVars(AnswerArrives)
  /\ WF_autonomyVars(TxTimer)

-----------------------------------------------------------------------------
(* Properties *)

Decodable == { payload \in Commands : Decodes(payload) }
Responses == [request : Nat, success : {TRUE}, mode : Modes]
Acks      == [request : Nat, status : {1} \X {0, 1}]

AutonomyTypeOK ==
  /\ service_is_ready \in BOOLEAN /\ settled \in BOOLEAN
  /\ mode \in Modes
  /\ command \in Decodable \cup {NoCommand}
  /\ asked \in Seq(Decodable)
  /\ requests \in Seq(Nat)
  /\ responses \in Seq(Responses)
  /\ acks \in Seq(Acks)
  /\ told \in Statuses \cup {Nothing}

StatusOf(m) == << 1, IF m = "AUTO" THEN 1 ELSE 0 >>

\* The acknowledgement that grants a payload: requested_mode and resulting_mode have the same
\* two meanings, 0 for MANUAL and 1 for AUTO (protocol.hpp:129 and 140).
Granted(payload) == << 1, IF payload = << 0 >> THEN 0 ELSE 1 >>

\* An acknowledgement tells what became of its own request, however many are under way, and
\* a request is acknowledged at most once and not before an earlier one
\* (radio_bridge_node.cpp:662-712).
AckTellsOutcome ==
  \A i \in DOMAIN acks :
    /\ acks[i].request \in DOMAIN asked
    /\ acks[i].status = Granted(asked[acks[i].request])
    /\ \A j \in DOMAIN acks : i < j => acks[i].request < acks[j].request

\* The acknowledgement that goes last.
LastAck ==
  LET waiting == queues["autonomy_status"]
  IN  IF waiting # << >> THEN waiting[Len(waiting)].payload ELSE told

\* The acknowledgement that goes last, on the air or in the queue, tells the mode the mux
\* has, unless the mux's state changed by other means, an answer is still to come, or the
\* write failed: a full queue never leaves the ground with the older mode
\* (radio_bridge_node.cpp:696-733).
GroundLearnsMode ==
  settled /\ responses = << >> /\ LastAck # Nothing => LastAck = StatusOf(mode)

\* When nothing is on its way any more, the ground is left with the answer to the last mode it
\* asked for, unless the mode was lost or changed since, or the write failed: neither requests
\* that were sent close together nor a full queue leave it with the answer to an earlier one
\* (radio_bridge_node.cpp:662-733).
LastRequestAnswered ==
  settled /\ requests = << >> /\ responses = << >> /\ LastAck # Nothing =>
    LastAck = Granted(asked[Len(asked)])

\* Each request the service has is acknowledged, whatever was acknowledged before it, unless
\* the service dies first (radio_bridge_node.cpp:689-712).
RequestAcknowledged ==
  \A n \in 1..MaxRequests :
    (\E i \in DOMAIN requests : requests[i] = n)
      ~> (\E i \in DOMAIN acks : acks[i].request = n) \/ ~service_is_ready
=============================================================================
