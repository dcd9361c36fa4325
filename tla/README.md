# Verification of usv_radio_bridge

`usv_radio_bridge` is a ROS 2 node (C++17) on an unmanned surface vehicle. It joins the
vehicle's ROS graph to the ground station over a telemetry radio on a serial port: upwards it
sends telemetry, GGA sentences and acknowledgements, downwards it receives RTCM corrections,
stick and button input, the kill switch and requests to change the control mode. This
directory holds TLA+ models of the node, the TLC configurations that check them on small
instances, and TLAPS proofs of the main safety results for every value of the constants.

Paths below are relative to `src/usv_radio_bridge/`; `node.cpp` and `node.hpp` stand for
`src/radio_bridge_node.cpp` and `include/usv_radio_bridge/radio_bridge_node.hpp`.

## The system

Two threads run (node.cpp:17-73, 420-487):

- the **executor thread** (`main`, single-threaded `rclcpp::spin`) runs subscriptions, the
  three timers and the service responses, one callback at a time, writes all frames to the
  port and, after `spin` returned, runs the destructor;
- the **reader thread** opens, reads and closes the port, feeds the parser and runs the
  handler of every received frame.

They share `fd_` (atomic) and `write_mutex_` in `SerialTransport`, the flag `running_`, the
time stamp `last_rx_steady_ns_`, and `joy_state_` under `joy_mutex_` (only the reader thread
touches it).

| component | state | operations | hard behaviour |
|---|---|---|---|
| frame envelope (`protocol.hpp`, `protocol.cpp`) | none | `encode_frame`, payload encoders and decoders | agreement of writer and reader on every byte |
| frame parser (`frame_parser.*`) | `buffer_`, `bad_frames_` | `feed`, `reset` | frames cut into chunks anywhere, damage, lost bytes, resync, the cap |
| serial transport (`serial_transport.*`) | `fd_`, `write_mutex_` | `open`, `close`, `is_open`, `read`, `write_frame` | close under a write, stale descriptors, error paths, unplugging |
| reader thread (node.cpp:420-487) | `running_`, `parser_`, `last_rx_steady_ns_` | open/retry, read/feed/dispatch, close after an error, join | reopening after an outage, sessions, shutdown from any point |
| telemetry cache and gate (node.cpp:197-256, 277-342) | `cache_*`, `*_received_`, `telemetry_slot_` | six source callbacks, `on_control_mode`, `on_telemetry_timer` | sources that start in any order or stop |
| TX queues and timer (node.cpp:258-275, 344-391, 716-733) | five queues, `tx_sequence_` | `enqueue_bounded`, `next_sequence`, `on_tx_timer` | full queues, priority, failed writes |
| remote control (node.cpp:489-660) | `joy_state_` | CONTROL, KILLSWITCH, GAMEPAD_BUTTON handlers | a deadman held over a lossy link, outages, the kill switch against late input |
| autonomy (node.cpp:662-712) | pending service requests | `handle_autonomy_command`, response callback | a service that is away or dies, acknowledgements that overtake telemetry |
| RTCM relay (node.cpp:526-557, `crc.cpp`) | none | `handle_rtcm` | length and CRC24Q checks |
| link monitor (node.cpp:393-416) | `link_was_down_` | `on_link_check_timer` | noise taken for life, the zero time stamp |
| parameters (node.cpp:77-127) | constants | validation at start | index checks |

What makes each correct:

- *parser*: every frame that is not part of a delivered one is delivered, once and in order,
  however the bytes are cut; nothing else is delivered; memory is bounded; every call returns;
- *transport and reader*: no call on a dead descriptor, no frame split over two ports, no
  descriptor lost, no bytes of two sessions joined, the port reopened when it can be, a
  shutdown that ends;
- *telemetry and queues*: nothing invented, the newest kept, order and at-most-once per kind,
  acknowledgements never starved;
- *remote control*: after a kill the deadman is released until someone presses it again; a
  released deadman does not stay pressed; with remote control off nothing reaches the joystick
  topic;
- *autonomy*: one acknowledgement per answered request, with the mode that resulted; the ground
  is left with the mode the mux has, however full the queue was; a request never decides the
  mode by itself;
- *RTCM relay*: a correction is passed on exactly when it is a whole RTCM 3 message;
- *link monitor*: silence is reported in time, from the start on, and a recovery only after
  bytes came.

## Modules

| module | models | checked by |
|---|---|---|
| `FrameFormat` | the envelope: field readers, checks and `EncodeFrame` | the two below, `FrameFormatProofs` |
| `FrameScan` | abstract specification: what a receiver of frames promises | the runs and proofs of `FrameParser` |
| `FrameParser` | `feed`, `reset` | `MCFrameParser` (streams), `FrameParserProofs` |
| `FrameLink` | both ends of the radio: `encode_frame` and `write_frame` at one, `FrameParser` at the other | `MCFrameParser`, `FrameParserProofs` |
| `SerialTransport` | transport, reader loop, TX writes, destructor, adapter | its own cfgs, `SerialTransportProofs` |
| `Outbound` | cache, gate, slot, queues, TX timer | its own cfgs, `OutboundProofs` |
| `RemoteControl` | operator, link, the three handlers, `joy_state_`, the topics, `rc_teleop_node` | `MCRemoteControl`, `RemoteControlProofs` |
| `LinkMonitor` | `last_rx_steady_ns_`, `on_link_check_timer` | through `Receive` |
| `RtcmRelay` | `handle_rtcm`, `crc24q`, and RTCM 3 by its definition | through `Receive` |
| `Induction` | nothing: induction and recursion over bounded numbers, for the proof modules | its own proofs |
| `Receive` | the two above, composed over the reads of the reader thread | `MCReceive`, `ReceiveProofs` |
| `Autonomy` | mode requests on top of `Outbound`: handler, service client, `mode_mux_node`, response callback | `MCAutonomy`, `AutonomyProofs` |

### FrameFormat, FrameScan, FrameParser, FrameLink

Bytes are numbers 0..255; header and CRC have their real sizes and the magic, version and byte
order are the code's. `Crc32` is a constant operator: the proofs hold for every function, TLC
uses a small checksum in which every byte and its place count (`MCCrc32`).

`buffer` is `buffer_`. `Feed(n)` appends a chunk and trims to the cap (frame_parser.cpp:25-28);
each iteration of the `while` loop is one action, named for how it ends: `TooShort` (the loop
condition), `NoMagic`, `AwaitBytes`, `RejectFrame`, `AcceptFrame`. `Reset` starts a session
with any stream. Three variables are not in the code: `stream`, the bytes of the session
(those to come included), `fed`, how many of them were read, and `delivered`, what `feed()`
returned so far and where it stood.

`FrameScan` knows nothing of chunks or buffers: a cursor moves over the stream, a frame it
comes to is delivered and jumped over, and only bytes at which no frame starts are stepped
over. `ImplementsScan` maps its cursor to `fed - Len(buffer)`. Whether a frame starts at a
byte depends on bytes that may not have arrived; the refinement shows that the parser never
decides too early.

`FrameLink` puts the encoder in front of the parser. `Line(sent)` is what `encode_frame` and
`write_frame` put on the wire for a sequence of frames; `CleanLinkDelivers` says what the other end
makes of it when nothing is added or lost, `DamageOnlyDelays` what it makes of a frame that stands
(`Stands`) whole among noise, damaged frames and frames that a failed write cut. The frames are of
the constant `Sent`; `Sendable` is what a sequence number of 32 bits, a length of 16 and
`kMaxPayload` allow.

### SerialTransport

The reader's program counter names its next call; a `try`/`catch` is the action taken when the
call fails. `executor` does the same for `write_frame` and the destructor. The mutex is
`WriteMutexFree`: `close()` waits for it, `open()` publishes `fd_` and `read()` loads it
without it, as in the code. `files` is the kernel's descriptor table and holds the plugging-in
(`plug`) each descriptor is open on, so a descriptor of an adapter that came back is still
dead. `held` says of which sessions the parser holds bytes.

External behaviour assumed: `open` fails when the adapter is absent or no descriptor is left;
configuring a port fails only when its device vanished or the baud rate is not listed; a write
may fail at any time and always does on a dead descriptor; a read may fail at any time, and what
it reports of a device that is gone is the constant `GoneReads`. `write_frame` on a closed port returns false and
changes nothing, so it has no action.

### Outbound

One action per callback of the executor, which runs them one at a time. A frame is its type,
its number and, for telemetry, the sample of each source it was built from (0: never heard), for
an acknowledgement what it says (`Statuses`); what a GGA sentence says is left out.
A write succeeds or fails freely, and the frame is gone either way (node.cpp:387). With
`Numbered` TRUE frames carry their sequence numbers and their count is bounded by `MaxFrames`;
with FALSE they are not told apart and the run is endless, which the liveness properties need.

### RemoteControl

One action per way a frame handed to `dispatch_frame` can go: `HandleControl`,
`HandleKillswitch`, `HandleGamepadButton`, or `DropFrame` for a payload of the wrong size, an
index out of range, remote control switched off, or a type that is ignored. A handler changes
`joy_state_` (`axes`, `buttons`) and publishes it in one critical section, so a handler is one
step and `driving`, which is `rc_teleop_node`'s, follows in it. A stick is an integer and 1.0F is
`FullStick`; `NaN` passes `std::clamp` as the code lets it.

External: the operator (`ChangeButton`, `SendOther`, `RepeatControl`, which repeats the last
CONTROL as the ground does), the link, which keeps the order and loses frames, and
`rc_teleop_node`, which drives while the last Joy holds its deadman and stops after 0.5 s
without one (`TeleopTimeout`). A closed port is a time of lost frames: `joy_state_` outlives it.
A handler whose `publish()` throws is not modelled. `lost`, `sent` and `handled` are history:
the buttons whose last frame was lost, and the frames sent and handled. `JoyFromInputs` and
`TopicsFromInputs` define what the topics must say from `handled` alone, so they relate the
state to everything that came before it.

### LinkMonitor, RtcmRelay, Receive

Time goes in ticks. `silence` is the age of the time stamp, `heard` says that it is not 0,
`since_check` how long ago the timer's callback ran; the executor may be late by up to `MaxLate`.
`unheard` and `in_time` are history.
`RtcmRelay` computes `crc24q` bit by bit over words that are sets of bits, and next to it the
definition of an RTCM 3 message by division of polynomials; `RelaysWholeMessages` compares them.
Both are recursive functions over the steps of a loop (`after`), which the proofs can unfold.
In `Receive` a read that returns bytes stamps the time, and completes an RTCM frame or does not.

### Autonomy

`Autonomy` EXTENDS `Outbound`, so an acknowledgement goes through the very queues of that module
and competes with GGA sentences there. `handle_autonomy_command` is two actions, because the
service may go between `service_is_ready()` and `async_send_request()` (node.cpp:666-689). The
client's queues and `mode_mux_node` are external: it answers in order, changes the mode on
gamepad buttons, dies with its requests and part of its answers, and comes back. `asked`,
`acks`, `told` and `settled` are history; `asked` holds the ground's payloads, so what the node
makes of them (`RequestedMode`) and of the answer (`Status`) is compared with what the protocol
says of both (`Granted`). Telemetry is left out: the TX timer looks at it last,
so it takes no turn from an acknowledgement.

## Runs

| run | shows |
|---|---|
| `parser` | types and cap, `BufferIsWindow`, `HeldBytesBounded`, `DeliveredFramesReencode`, `CapNeverDrops`, the refinement `DeliversEveryFrame`; `CleanLinkDelivers` and `DamageOnlyDelays` for what the encoder wrote; that every iteration shortens the buffer (`LoopAdvances`) and every call returns (`FeedReturns`) |
| `parser_held` | **violation** of `NoCompleteFrameHeld`: see finding 1 |
| `transport` | `CallsHitAnOpenPort`, `NoDescriptorLost`, `OneSessionInParser`, `FrameStaysOnOnePort`, `Reconnects`, `ShutdownAdvances` (no step leads back once the node stops), `ShutdownCompletes` |
| `transport_leak` | **violation** of `DescriptorsAccountedFor`: finding 2 |
| `transport_eof` | **violation** of `Reconnects`: finding 3 |
| `outbound` | `NoSourceInvented`, `NewestWaits`, `WireInOrder`, `OneStaleTelemetry` |
| `outbound_stale` | **violation** of `StaleSlotStaysEmpty`: finding 4 |
| `outbound_mode` | **violation** of `NoFieldInvented`: finding 5 |
| `remote` | `JoyFromInputs`, `TopicsFromInputs`, `DriveNeedsHand`, `HandsOffStops`: the topics are what the handled inputs decide, and the boat is driven only by a hand on the deadman or one whose release is on its way or was lost |
| `remote_loss` | **violation** of `DeadmanApplies`: finding 6 |
| `receive` | `RelaysWholeMessages`, `SilenceNoticed`, `RecoveredInTime`, `RecoveredByBytes` |
| `autonomy` | `AckTellsOutcome`, `GroundLearnsMode`, `LastRequestAnswered`, `AckGetsItsTurn`, `RequestAcknowledged` |

Every property of a passing run is broken by a plausible slip in the code: the operators
marked "Variant" in the modules are those slips (`PROJECT.json`, "mutants").

### Bounds and why they are enough

- *Parser*: `MaxPayload` 15 is the least that lets a payload hold a whole KILLSWITCH frame
  (15 bytes). Streams are clean lines of two frames (`MCSent`), one of them with a magic in its
  payload and one with a frame for its payload; and a whole, damaged, cut or nested frame followed
  by whole ones, with noise or a frame of too long a payload between: 31 to 71 bytes. Damage is
  one byte at every field (`DamagedAt`). Reads of 1 to 6 bytes cut every field at every place,
  `CapSlack` 6 keeps the code's relation that a read is no longer than the slack. Only the stream
  in `parser_held` uses a larger payload.
- *Transport*: two descriptors (the code needs one; the second makes a leak visible before
  open fails), three pluggings (a dead descriptor, its successor, and once more), frames in up
  to two pieces.
- *Outbound*: two sources (a gate that misses one is visible), queues of two, five frames: one
  queue overflows while the other and the slot are in use.
- *RemoteControl*: two buttons (the deadman and another), three axes (the two sticks' and one
  that must rest), a link of two frames (a release can be overtaken by nothing but stands behind
  another frame), four frames sent: press, stick, kill or release, and one more. Sticks lie
  below, inside and beyond their range, or are NaN. Remote control is on or off.
- *Receive*: a timeout of four ticks, a check every two, at most one late, so a check may fall
  before, at and after the timeout. Payloads: whole messages, one without data, one with the
  reserved bits set, one with another first byte, every single bit of one inverted, some pairs,
  every cut, and one byte too many. Messages of 255 bytes and more, whose length needs the second
  byte, are beyond TLC here; the proof covers them.
- *Autonomy*: three requests and queues of two, so an acknowledgement can be dropped while one
  waits and one is under way; GGA sentences without end.

`CHECK_DEADLOCK FALSE` is set only in `MCOutbound.cfg`, `MCRemoteControl.cfg` and
`RemoteControlLoss.cfg`, where `MaxFrames` and `MaxSent` stop the run.

### Fairness

- `FrameParser`: weak fairness of the loop; it is straight code of a running thread.
- `SerialTransport`: weak fairness of the reader thread and of what the executor does once
  begun: both threads are scheduled, and reads (VTIME), writes and `tcdrain` return; a
  `::write` that takes nothing or is interrupted, which is tried again, does so not for ever. Strong
  fairness of `CloseAfterError`: the reader waits for `write_mutex_` there while the TX timer
  takes it again and again, but leaves it free between ticks. Nothing is assumed of the adapter,
  of `Shutdown`, or of when a frame is written.
- `Outbound`: weak fairness of the two timers, which the spinning executor fires again and
  again. Nothing is assumed of sources, sentences or responses.
- `RemoteControl`: weak fairness of `DispatchFrame` (the reader thread goes on reading) and of
  `TeleopTimeout` while the link is silent. While frames come the timeout need not run out, so
  `HandsOffStops` rests on the handlers. Nothing is assumed of the operator or of what arrives.
- `Autonomy`: the reader thread finishes its handler, the executor runs the response callback
  and the TX timer, and the mux answers while it is there. Nothing is assumed of its life.

## Proofs

The proof modules hold for every value of the constants under the named assumptions of the
modules: `MaxPayload \in Nat`; a read no longer than the slack of the cap; frames to send that are
`Sendable`; payloads that are strings of bytes; at least one plugging and one piece; a queue
capacity of at least one; joystick parameters as `declare_and_read_parameters()` checks them; a
period of at least one tick. Nothing is assumed of `Crc32`, but for what the encoder's frames become
(`FourByteCrc`: it returns four bytes). The sets of descriptors, sources, stick values, streams and
payloads need not be finite.

- **Induction**. The provers cannot instantiate the library's induction theorems, which take the
  statement as an operator. `LeastNumber` gets minima of sets of numbers from the library's
  well-founded orders; `BoundedInduction` is induction for a *set* of numbers, which a proof can
  name; `Recursion` says that a recursive function of `0..n` exists, without which nothing is known
  of one that TLA+ defines by `CHOOSE`. With them the loops of the model are unfolded: the line of
  `FrameLink`, the bits, bytes and divisions of `RtcmRelay`.
- **FrameFormatProofs**. Numbers and their bytes (`TwoBytes`, `FourBytes`): what was read as a
  number is written as the same bytes. From it `AcceptedFrameReencodes`, for what a receiver
  accepts, and `EncodedFrameAccepted`, for what the encoder writes: with a payload within
  `kMaxPayload` and the length field the frame is as long as its header says, accepted, and read
  back as it was given, whatever follows it on the wire.
- **FrameParserProofs**. The inductive invariant is `TypeOK /\ BufferIsWindow /\
  HeldBytesBounded`: the cap never drops a byte only because the rest between calls is shorter
  than a maximal frame, and the buffer is a window only because the cap never drops in its
  middle, so the three are needed together. Each action drops a prefix of the buffer
  (`ScanDrops`), and a drop moves a window's start (`DropFromWindow`). From it: `TypeCorrect`,
  `WindowCorrect`, `HeldBytesCorrect`, `CapNeverReached`, and `ParserImplementsScan`, the
  refinement. Its heart is `FrameAtAligned`: whether a frame starts at the head of the aligned
  buffer is the same question for the buffer and for the whole rest of the stream, once the
  header is there and, if it is good, the announced length. `ReencodeCorrect` needs one more
  invariant, `DeliveredWereFound`: each delivery is what a receiver reads where it was found. The
  refinement gives its step, `AcceptedFrameReencodes` the rest. `LoopShortens` is the measure that
  makes `feed()` end.
  The frames of `FrameLink` are proved about `FrameScan`'s cursor, through the refinement.
  `CleanLink`: on a clean line (`OnLine`) the cursor is always at the end of the first k frames and
  k are delivered; at the next frame stands a frame (`EncodedFrameAccepted`), so the cursor can
  neither skip nor leave it (`LineScan`), and with its last byte the rest in the buffer starts with
  a whole frame, for which the loop does not end (`NextInBuffer`). `DamageDelays`: wherever a frame
  starts that the cursor has passed, a delivery covers it (`NonePassedOver`), and between calls the
  cursor is less than one maximal frame behind the last byte read (`HeldBytesBounded`).
- **SerialTransportProofs**. `Holding` says which descriptor each thread may use at each point
  of its program, `OldBytes` that old bytes are in the parser only before the reset. The key
  points are that a reader in `read()` still uses the descriptor in `fd_`, and that the final
  close comes after the reader's exit. From it: `TypeCorrect`, `CallsCorrect`,
  `SessionsKeptApart`, `FrameOnOnePort`; `DescriptorsCorrect` adds its own step.
  `ShutdownBounded`: with `InDestructor`, that the executor begins nothing once `running_` is false,
  each step of a thread lowers `StepsLeft`. What is left to liveness is that none blocks for ever.
- **OutboundProofs**. `Seen` says that a source whose flag is set left a sample in the cache.
  `Order` says where a frame with a number may be: a queue holds its own kind in order, and
  what waits is later than what is on the wire; without it `WireInOrder` is not inductive. From
  it: `TypeCorrect`, `TelemetryFromRealSamples`, `WireKeepsOrder`; with invariants of their own
  on top of it `NewestKept` (what was pushed last of a kind is still there, and nothing behind a
  queue's first frame is missing) and `AtMostOneStale` (once telemetry went out after an
  acknowledgement, what is in the slot is later than that acknowledgement).
- **AutonomyProofs** extends OutboundProofs. `AutonomyImplementsOutbound`: every step is one of
  `Outbound` or leaves its variables alone, so its invariants hold here too. `InOrder` says that
  requests, answers and acknowledgements on their way are in the order of the requests,
  `LastTells` that while the mux is settled the last answer on its way, or else the last
  acknowledgement, tells its mode. From them: `OutcomesTold`, `GroundLearns`. `LastOnTheWay` adds
  that the last request on its way is the last that was sent: `LastIsAnswered`.
- **ReceiveProofs**. `ReceiveImplementsMonitor`: next to the handlers the monitor behaves as it
  does alone. `HeardInTime` bounds the silence of a link that is not reported down by the last
  check, `UnheardIsQuiet` says that a link nobody heard still looks down, `LateSinceCheck` that a
  link reported down has not had bytes in time since before the last check. From them:
  `MonitorTypeCorrect`, `SilenceIsNoticed`, `RecoveryIsInTime`, `RecoveryByBytes`.
  `MessagesRelayedWhole` is about the functions alone, and holds for messages of every length.
  A shift of the register is a step of the division, whatever lies below the bit it takes away
  (`ShiftDivides`); eight take away a byte (`ByteDivides`); after i bytes the division has left the
  register, moved up to where it stands, and the bytes behind it (`RegisterDivides`), so what
  remains in the end is the register against the trailer. The masked length is the ten bits of the
  definition because a byte is known by its bits (`BitsDetermine`, `LengthAgrees`).
- **RemoteControlProofs**. Next to the properties the invariant holds `OtherAxesRest`,
  `DriveIsDeadman` (who drives has the deadman in `joy_state_`) and `HandOnLink`: when the deadman
  was let go and nothing was lost, its release is on its way with no press behind it, or was
  handled. Without the last `DriveNeedsHand` is not inductive: the link may hold old presses.
  From it: `TypeCorrect`, `JoyIsDecided`, `TopicsAreDecided`, `HandDrives`.

Only model-checked: the liveness properties (`FeedReturns`, `Reconnects`, `ShutdownCompletes`,
`HandsOffStops`, `AckGetsItsTurn`, `RequestAcknowledged`), which are out of the
prover's reach. Every safety property that a passing run checks is proved. For two of the liveness
properties the part that is safety is proved beside them: `LoopAdvances`, `ShutdownAdvances`.

## Findings

1. *A damaged length holds good frames back.* `feed()` waits for the bytes a damaged but
   possible length announces (frame_parser.cpp:75-78) and returns without the complete frames
   behind it, up to 8 KiB of them. The comment on `feed()` promises every complete frame found
   (frame_parser.hpp:30-31). They are delayed, not lost, and by less than
   one maximal frame: `DeliversEveryFrame` and `DamageOnlyDelays` hold.
2. *A descriptor is lost at every retry with an unlisted baud rate.* `baud_to_speed()` throws
   after `::open` (serial_transport.cpp:65); the error paths around it close, this one does not.
3. *A port that reads as end of file is never reopened.* With VMIN 0 a hung-up terminal reads 0
   bytes at once, which `read()` cannot tell from a timeout, against its comment
   (serial_transport.hpp:42-44).
4. *Telemetry outlives its sources.* The `*_received_` flags are never cleared, against
   node.hpp:164-166 and node.cpp:233-234.
5. *The control mode is sent before it is known*, as MANUAL, against node.hpp:132-134: it is in
   the payload and not in the gate.
6. *A lost release leaves the deadman pressed.* `joy_state_` keeps a button down until its release
   arrives (node.cpp:657) and every CONTROL frame publishes it again (node.cpp:584), so one lost
   frame keeps the boat driving with nobody's hand on it, as long as CONTROL frames come: against
   node.hpp:69-70, where the radio "gets the deadman for free", and node.cpp:571-572, where it
   "looks exactly like the physical gamepad". A kill or the next press and release ends it.

## Not modelled, and why

- Durations of calls: that `tcdrain` may hold up the executor (serial_transport.cpp:152) is not
  expressed; the calls return under fairness. `LinkMonitor` counts ticks, the other modules only
  order events.
- That telemetry gets its turn while GGA sentences come as fast as the TX timer runs: it does
  not, and the priority order of the code accepts that; nothing promises otherwise.
- The field order of `encode_telemetry` and its conversions of floating-point numbers; zlib's
  `crc32`, which is the constant `Crc32`; logging.
- The wrap-around of the 32-bit sequence number and of the bad-frame counter.
- Callbacks that throw for want of memory, and a `publish()` that throws.
- Start-up: parameters are constants, of which `RemoteAssumption` states the checks of the
  joystick's; both threads run from the first state on. The message package and the build files
  have no behaviour.

## Plan

Done: all modules of the table above, their runs, and the proofs of every safety property the
passing runs check. What is left would need other means or a reason:

1. `RadioBridge`, the composition of two nodes over one radio link: the frames of `Outbound`'s wire
   read at the other end and dispatched to `RemoteControl` or `Autonomy`. The bytes between them are
   done (`CleanLink`, `DamageDelays`), so the link can be one of frames that loses, and never
   changes or reorders.
2. The layout of the payload codecs, once a second implementation of them is there to compare with.
3. Telemetry and time: a bound on the age of what the slot sends, were the code to promise one.
