------------------------------ MODULE Outbound ------------------------------
(***************************************************************************)
(* What the node sends to the ground: the cache of the telemetry sources,  *)
(* the telemetry slot, the TX queues and the TX timer that drains them.    *)
(* Every action is one callback of the executor, which is single-threaded, *)
(* so a callback's critical sections need no steps of their own.           *)
(*                                                                         *)
(* A frame is its type, its sequence number and, for TELEMETRY, the sample *)
(* of each source it was built from, for AUTONOMY_STATUS what it says.     *)
(* What a GGA sentence says is left out.                                   *)
(* made, taken, wire and alive are not in the code: the types of the       *)
(* frames built so far by sequence number (so tx_sequence_ is its length), *)
(* the type on_tx_timer took last, what was written to the port, and the   *)
(* sources that still publish.                                             *)
(***************************************************************************)
EXTENDS Integers, Sequences, SequencesExt

CONSTANTS
  Sources,         \* the sources the telemetry gate requires
  Statuses,        \* the payloads of AUTONOMY_STATUS frames
  kQueueCapacity,  \* 16 in the code
  MaxSample,       \* bound on the messages of a source
  MaxFrames,       \* bound on the frames built, when they are numbered
  Numbered         \* FALSE: frames are not told apart and any number is built

ASSUME OutboundAssumption ==
  /\ kQueueCapacity \in Nat \ {0}
  /\ MaxSample \in Nat \ {0}
  /\ MaxFrames \in Nat
  /\ Numbered \in BOOLEAN
  /\ "control_mode" \notin Sources

VARIABLES
  alive,
  received,   \* the *_received_ flags
  cache,      \* the cache_* fields: a source's last sample, 0 for the initial value
  slot,       \* telemetry_slot_, or NoFrame when telemetry_slot_valid_ is false
  queues,     \* the five queues
  made,
  taken,
  wire

vars == << alive, received, cache, slot, queues, made, taken, wire >>

Fields == Sources \cup {"control_mode"}

\* Variant: GGA is looked at before the acknowledgements.
GgaFirst == << "killswitch", "gga", "autonomy_status", "control", "rtcm" >>

\* The queues in the order on_tx_timer looks at them.  Only two are ever pushed to.
Priority == << "killswitch", "autonomy_status", "control", "rtcm", "gga" >>

Classes == { "killswitch", "autonomy_status", "control", "rtcm", "gga" }

NoFrame == [type |-> "none"]

\* The payload that is left out.
Sentence == << >>

\* next_sequence() for a frame of a type.
Number(type) ==
  /\ Numbered => Len(made) < MaxFrames
  /\ made' = IF Numbered THEN Append(made, type) ELSE made

tx_sequence == Len(made)

Init ==
  /\ alive = Sources
  /\ received = {}
  /\ cache = [f \in Fields |-> 0]
  /\ slot = NoFrame
  /\ queues = [c \in Classes |-> << >>]
  /\ made = << >>
  /\ taken = "none"
  /\ wire = << >>

-----------------------------------------------------------------------------
(* Subscriptions *)

\* on_position, on_euler, on_velocity, on_imu, on_gnss, on_battery; of the IMU only the
\* fact that it delivered counts.
OnSource(s) ==
  /\ s \in alive
  /\ cache[s] < MaxSample
  /\ cache' = [cache EXCEPT ![s] = @ + 1]
  /\ received' = received \cup {s}
  /\ UNCHANGED << alive, slot, queues, made, taken, wire >>

\* on_control_mode: no flag goes with it.
OnControlMode ==
  /\ cache["control_mode"] < MaxSample
  /\ cache' = [cache EXCEPT !["control_mode"] = @ + 1]
  /\ UNCHANGED << alive, received, slot, queues, made, taken, wire >>

\* A source stops publishing.  No callback runs, nothing in the node changes.
SourceStops(s) ==
  /\ s \in alive
  /\ alive' = alive \ {s}
  /\ UNCHANGED << received, cache, slot, queues, made, taken, wire >>

-----------------------------------------------------------------------------
(* Frames for the queues *)

\* Variants of Pushed: the newest frame is dropped; the queue has no bound.
DropNewest(q, f) == IF Len(q) >= kQueueCapacity THEN q ELSE Append(q, f)
Unbounded(q, f) == Append(q, f)

\* enqueue_bounded: a full queue loses its oldest frame.
Pushed(q, f) == Append(IF Len(q) >= kQueueCapacity THEN Tail(q) ELSE q, f)

Enqueue(type, payload) ==
  /\ Number(type)
  /\ queues' = [queues EXCEPT ![type] =
                   Pushed(@, [type |-> type, sequence |-> tx_sequence, payload |-> payload])]
  /\ UNCHANGED << alive, received, cache, slot, taken, wire >>

\* on_nmea with a GGA sentence; any other sentence changes nothing.
OnNmea == Enqueue("gga", Sentence)

\* on_set_control_mode_response, with what the acknowledgement says.
OnSetControlModeResponse(status) == Enqueue("autonomy_status", status)

-----------------------------------------------------------------------------
(* Timers *)

\* Variant: the gate is open as soon as any source has delivered.
AnySource == received # {}

\* The gate of on_telemetry_timer.
Ready == received = Sources

\* on_telemetry_timer: a frame is built from the cache and replaces the slot's.
OnTelemetryTimer ==
  /\ Ready
  /\ Number("telemetry")
  /\ slot' = [type |-> "telemetry", sequence |-> tx_sequence, samples |-> cache]
  /\ UNCHANGED << alive, received, cache, queues, taken, wire >>

Waiting == { i \in DOMAIN Priority : queues[Priority[i]] # << >> }

\* Variant: the slot stays valid after it was sent.
FromSlotKept(f) ==
  /\ Waiting = {}
  /\ slot # NoFrame
  /\ f = slot
  /\ UNCHANGED << slot, queues >>

\* The first frame of the first queue that is not empty.
FromQueue(f) ==
  \E i \in Waiting :
    /\ \A j \in Waiting : i <= j
    /\ f = Head(queues[Priority[i]])
    /\ queues' = [queues EXCEPT ![Priority[i]] = Tail(@)]
    /\ UNCHANGED slot

\* Telemetry, when nothing is queued.
FromSlot(f) ==
  /\ Waiting = {}
  /\ slot # NoFrame
  /\ f = slot
  /\ slot' = NoFrame
  /\ UNCHANGED queues

Outgoing == { Head(queues[c]) : c \in { d \in Classes : queues[d] # << >> } } \cup ({slot} \ {NoFrame})

\* A frame is taken, and gone whether or not write_frame() succeeds.
Send(f, ok) ==
  /\ FromQueue(f) \/ FromSlot(f)
  /\ taken' = f.type
  /\ wire' = IF ~ok THEN wire ELSE IF Numbered THEN Append(wire, f) ELSE << f >>
  /\ UNCHANGED << alive, received, cache, made >>

\* on_tx_timer
OnTxTimer == \E f \in Outgoing, ok \in BOOLEAN : Send(f, ok)

-----------------------------------------------------------------------------
Next ==
  \/ \E s \in Sources : OnSource(s) \/ SourceStops(s)
  \/ OnControlMode
  \/ OnNmea
  \/ \E status \in Statuses : OnSetControlModeResponse(status)
  \/ OnTelemetryTimer
  \/ OnTxTimer

Spec == Init /\ [][Next]_vars

\* The executor spins: both timers fire again and again.
FairSpec == Spec /\ WF_vars(OnTxTimer) /\ WF_vars(OnTelemetryTimer)

-----------------------------------------------------------------------------
(* Properties *)

Frames ==
  [type : {"autonomy_status"}, sequence : Nat, payload : Statuses]
    \cup [type : Classes \ {"autonomy_status"}, sequence : Nat, payload : {Sentence}]
    \cup [type : {"telemetry"}, sequence : Nat, samples : [Fields -> 0..MaxSample]]

\* Types; no queue grows beyond kQueueCapacity (radio_bridge_node.cpp:721-733).
TypeOK ==
  /\ alive \subseteq Sources /\ received \subseteq Sources
  /\ cache \in [Fields -> 0..MaxSample]
  /\ slot \in Frames \cup {NoFrame}
  /\ DOMAIN queues = Classes
  /\ \A c \in Classes : queues[c] \in Seq(Frames) /\ Len(queues[c]) <= kQueueCapacity
  /\ made \in Seq(Classes \cup {"telemetry"})
  /\ taken \in Classes \cup {"none", "telemetry"}
  /\ wire \in Seq(Frames)

\* A telemetry frame, in the slot or on the wire.
TelemetryFrames == { f \in ToSet(wire) \cup {slot} : f.type = "telemetry" }

\* No telemetry is built from a required source that never delivered
\* (radio_bridge_node.hpp:132-137, radio_bridge_node.cpp:296-336).
NoSourceInvented ==
  \A f \in TelemetryFrames : \A s \in Sources : f.samples[s] > 0

\* The comment's words, for every field that is sent: "never send a telemetry frame
\* built from fields that were never actually populated" (radio_bridge_node.hpp:132-134).
NoFieldInvented ==
  \A f \in TelemetryFrames : \A s \in Fields : f.samples[s] > 0

\* What waits is the newest there is: each queue holds frames of its kind in order, and
\* behind its first frame none that was built is missing; the slot holds the last telemetry
\* frame (radio_bridge_node.cpp:338-341 and 721-733, radio_bridge_node.hpp:162-166).
NewestWaits ==
  Numbered =>
    /\ \A c \in Classes : \A i, j \in DOMAIN queues[c] :
         i < j => queues[c][i].sequence < queues[c][j].sequence
    /\ \A c \in Classes : \A i \in DOMAIN queues[c], n \in DOMAIN made :
         queues[c][i].sequence < n /\ made[n] = c =>
           \E j \in DOMAIN queues[c] : queues[c][j].sequence = n - 1
    /\ \A n \in DOMAIN made : made[n] = "telemetry" /\ slot # NoFrame => n - 1 <= slot.sequence

\* On the wire each kind of frame comes in the order it was built and each frame at most
\* once; the numbers of a kind need not follow each other, as all kinds share one counter
\* (radio_bridge_node.cpp:344-391 and 716-719).
WireInOrder ==
  Numbered =>
    \A i, j \in DOMAIN wire :
      i < j /\ wire[i].type = wire[j].type => wire[i].sequence < wire[j].sequence

\* An acknowledgement overtakes at most one telemetry frame that was built before it: the next
\* is built after it.  That one tells the mode in the cache, which may still be the old one
\* until gnc/control_mode is heard; of that nothing is said here
\* (radio_bridge_node.cpp:338-381 and 696-712).
OneStaleTelemetry ==
  Numbered =>
    \A i, j, k \in DOMAIN wire :
      /\ i < j /\ j < k
      /\ wire[i].type = "autonomy_status" /\ wire[j].type = "telemetry" /\ wire[k].type = "telemetry"
      => wire[k].sequence > wire[i].sequence

\* An acknowledgement of a mode change gets its turn, whatever else the node has to say
\* (radio_bridge_node.cpp:349-372).
AckGetsItsTurn == queues["autonomy_status"] # << >> ~> taken = "autonomy_status"

\* The comment on telemetry_slot_ (radio_bridge_node.hpp:162-166): it is never left
\* populated with stale data if the required sources stop arriving.
StaleSlotStaysEmpty == \A s \in Sources : s \notin alive ~> [](slot = NoFrame)
=============================================================================
