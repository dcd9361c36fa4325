---------------------------- MODULE RemoteControl ----------------------------
(***************************************************************************)
(* Remote control over the radio: an operator with sticks and buttons, the *)
(* link that carries a frame for each change, the handlers the reader      *)
(* thread runs for CONTROL, KILLSWITCH and GAMEPAD_BUTTON, joy_state_ and  *)
(* the topics they publish, and rc_teleop_node with its deadman.           *)
(*                                                                         *)
(* All three handlers run on the reader thread, one at a time, and publish *)
(* joy_state_ in the critical section that changes it: a handler is one    *)
(* step, and the last message on joy_topic is joy_state_.                  *)
(*                                                                         *)
(* External: the operator, the link (it keeps the order and loses frames,  *)
(* by damage or while the port is closed; joy_state_ outlives both) and    *)
(* rc_teleop_node, which drives while the last Joy holds the deadman and   *)
(* stops when none has come for 0.5 s.                                     *)
(*                                                                         *)
(* A payload is the sequence of its fields.  A stick is an integer, 1.0F   *)
(* is FullStick.  lost, sent and handled are not in the code: the buttons  *)
(* whose last frame was lost, the frames sent, and the frames handled.     *)
(***************************************************************************)
EXTENDS Integers, Sequences

CONSTANTS
  gamepad_button_count,
  joy_axis_count, joy_surge_axis, joy_yaw_axis,
  max_linear_speed, max_angular_speed,
  FullStick,      \* a stick pushed to its end
  Sticks,         \* the pairs of stick values that are sent
  NaN,            \* the float that is not a number
  Deadman,        \* rc_teleop_node's deadman button
  MaxLink,        \* bound on the frames on their way
  MaxSent         \* bound on the frames sent, repeated CONTROL frames not counted

\* What declare_and_read_parameters() checks, and the assumptions of the model.
ASSUME RemoteAssumption ==
  /\ gamepad_button_count \in Nat
  /\ joy_axis_count \in Nat \ {0}
  /\ joy_surge_axis \in 0..(joy_axis_count - 1)
  /\ joy_yaw_axis \in 0..(joy_axis_count - 1)
  /\ max_linear_speed \in Int /\ max_angular_speed \in Int
  /\ FullStick \in Nat \ {0}
  /\ NaN \notin Int
  /\ Sticks \subseteq (Int \cup {NaN}) \X (Int \cup {NaN})
  /\ Deadman \in 0..(gamepad_button_count - 1)
  /\ MaxLink \in Nat /\ MaxSent \in Nat

VARIABLES
  publish_remote_control,  \* a parameter
  held,                    \* the buttons the operator holds
  link,                    \* the frames on their way
  axes, buttons,           \* joy_state_
  killswitch,              \* the last message on killswitch_topic
  gamepad_buttons,         \* the last message on each radio/gamepad/button_*
  driving,                 \* rc_teleop_node passes the sticks on
  lost, sent, handled

nodeVars     == << axes, buttons, killswitch, gamepad_buttons, driving >>
operatorVars == << held, lost, sent >>
vars == << publish_remote_control, held, link, axes, buttons, killswitch, gamepad_buttons,
           driving, lost, sent, handled >>

AxisIndices   == 0..(joy_axis_count - 1)
ButtonIndices == 0..(gamepad_button_count - 1)

NotYet == -1   \* nothing was published on a topic

Centred == [a \in AxisIndices |-> 0]
AllUp   == [b \in ButtonIndices |-> 0]

Init ==
  /\ publish_remote_control \in BOOLEAN
  /\ held = {}
  /\ link = << >>
  /\ axes = Centred
  /\ buttons = AllUp
  /\ killswitch = NotYet
  /\ gamepad_buttons = [b \in ButtonIndices |-> NotYet]
  /\ driving = FALSE
  /\ lost = {}
  /\ sent = 0
  /\ handled = << >>

-----------------------------------------------------------------------------
(* Payloads: sizes in fields; a CONTROL field is a float of four bytes *)

Control(linear_x, angular_z) == [type |-> "CONTROL", payload |-> << linear_x, angular_z >>]
Killswitch(active)           == [type |-> "KILLSWITCH", payload |-> << active >>]
GamepadButton(b, pressed)    == [type |-> "GAMEPAD_BUTTON", payload |-> << b, pressed >>]

\* decode_control, decode_killswitch, decode_gamepad_button: the size decides.
DecodesControl(f)       == f.type = "CONTROL" /\ Len(f.payload) = 2
DecodesKillswitch(f)    == f.type = "KILLSWITCH" /\ Len(f.payload) = 1
DecodesGamepadButton(f) == f.type = "GAMEPAD_BUTTON" /\ Len(f.payload) = 2

\* A byte as a bool.
Flag(byte) == IF byte # 0 THEN 1 ELSE 0

\* Frames of a version that packs another payload, of a gamepad with more buttons, with a
\* flag beyond 1, and of a type dispatch_frame ignores.
OddFrames ==
  { [type |-> "CONTROL", payload |-> << 1 >>],
    [type |-> "KILLSWITCH", payload |-> << >>],
    [type |-> "GAMEPAD_BUTTON", payload |-> << 0 >>],
    GamepadButton(gamepad_button_count, 1),
    Killswitch(2),
    [type |-> "WAYPOINT", payload |-> << 1 >>] }

-----------------------------------------------------------------------------
(* The operator and the link *)

\* A frame is sent and may get lost.
Transmit(f, arrives) ==
  /\ Len(link) < MaxLink
  /\ sent < MaxSent
  /\ sent' = sent + 1
  /\ link' = IF arrives THEN Append(link, f) ELSE link
  /\ UNCHANGED << publish_remote_control, nodeVars, handled >>

\* A button goes down or up.
ChangeButton(b, arrives) ==
  /\ held' = IF b \in held THEN held \ {b} ELSE held \cup {b}
  /\ lost' = IF arrives THEN lost \ {b} ELSE lost \cup {b}
  /\ Transmit(GamepadButton(b, IF b \in held THEN 0 ELSE 1), arrives)

\* The sticks move, the kill switch changes, or an odd frame is sent.  That such a frame
\* is lost changes nothing, so the step leaves that out.
SendOther ==
  /\ \E f \in { Control(s[1], s[2]) : s \in Sticks } \cup { Killswitch(k) : k \in {0, 1} } \cup OddFrames :
       Transmit(f, TRUE)
  /\ UNCHANGED << held, lost >>

\* The ground repeats the last CONTROL, again and again.
RepeatControl ==
  /\ link = << >>
  /\ \E i \in DOMAIN handled :
       /\ handled[i].type = "CONTROL"
       /\ \A j \in DOMAIN handled : j > i => handled[j].type # "CONTROL"
       /\ link' = << handled[i] >>
  /\ UNCHANGED << publish_remote_control, nodeVars, operatorVars, handled >>

-----------------------------------------------------------------------------
(* The handlers *)

\* Variant: std::clamp left out.
Unclamped(v, max_speed) == IF v = NaN THEN NaN ELSE v * max_speed

\* std::clamp(v, -1, 1) * max_speed, by which NaN stays NaN.
Scaled(v, max_speed) ==
  IF v = NaN THEN NaN
  ELSE max_speed * (IF v < -FullStick THEN -FullStick ELSE IF v > FullStick THEN FullStick ELSE v)

\* The frame the handlers get next.
Arrived == IF link = << >> THEN {} ELSE { Head(link) }

\* The handler of the first frame that arrived has run.  A repetition of the frame before
\* adds nothing to what was handled.
Handled(f) ==
  /\ link' = Tail(link)
  /\ handled' = IF handled # << >> /\ handled[Len(handled)] = f THEN handled ELSE Append(handled, f)
  /\ UNCHANGED << publish_remote_control, operatorVars >>

\* publishJoyLocked: rc_teleop_node gets joy_state_ as the handler leaves it.
PublishJoy == driving' = (buttons'[Deadman] = 1)

HandleControl ==
  \E f \in Arrived :
    /\ Handled(f)
    /\ DecodesControl(f) /\ publish_remote_control
    /\ axes' = [axes EXCEPT ![joy_surge_axis] = Scaled(f.payload[1], max_linear_speed),
                            ![joy_yaw_axis] = Scaled(f.payload[2], max_angular_speed)]
    /\ UNCHANGED << buttons, killswitch, gamepad_buttons >>
    /\ PublishJoy

\* Variant: only the sticks are centred.
CentresOnly ==
  /\ axes' = Centred
  /\ UNCHANGED buttons
  /\ PublishJoy

\* What an active kill switch does to joy_state_.
Failsafe ==
  /\ axes' = Centred
  /\ buttons' = AllUp
  /\ PublishJoy

HandleKillswitch ==
  \E f \in Arrived :
    /\ Handled(f)
    /\ DecodesKillswitch(f) /\ publish_remote_control
    /\ killswitch' = Flag(f.payload[1])
    /\ IF f.payload[1] # 0 THEN Failsafe ELSE UNCHANGED << axes, buttons, driving >>
    /\ UNCHANGED gamepad_buttons

\* Variant: a release is reported, but not folded into joy_state_.
FoldsPresses(b, pressed) ==
  IF pressed = 0 THEN UNCHANGED << buttons, driving >>
  ELSE buttons' = [buttons EXCEPT ![b] = 1] /\ PublishJoy

\* Variant: the button goes out with the next CONTROL.
FoldSilently(b, pressed) ==
  /\ buttons' = IF ~publish_remote_control THEN buttons
                ELSE [buttons EXCEPT ![b] = Flag(pressed)]
  /\ UNCHANGED driving

\* The button in joy_state_.
Fold(b, pressed) ==
  IF ~publish_remote_control THEN UNCHANGED << buttons, driving >>
  ELSE buttons' = [buttons EXCEPT ![b] = Flag(pressed)] /\ PublishJoy

\* Variant: nothing is reported while remote control is off.
HandleGamepadButtonGated ==
  \E f \in Arrived :
    /\ Handled(f)
    /\ DecodesGamepadButton(f) /\ f.payload[1] \in ButtonIndices
    /\ gamepad_buttons' = IF ~publish_remote_control THEN gamepad_buttons
                          ELSE [gamepad_buttons EXCEPT ![f.payload[1]] = f.payload[2]]
    /\ Fold(f.payload[1], f.payload[2])
    /\ UNCHANGED << axes, killswitch >>

\* The Bool topic first; joy_state_ only under remote control.
HandleGamepadButton ==
  \E f \in Arrived :
    /\ Handled(f)
    /\ DecodesGamepadButton(f) /\ f.payload[1] \in ButtonIndices
    /\ gamepad_buttons' = [gamepad_buttons EXCEPT ![f.payload[1]] = Flag(f.payload[2])]
    /\ Fold(f.payload[1], f.payload[2])
    /\ UNCHANGED << axes, killswitch >>

\* A frame that is dropped: bad size, remote control off, index out of range, or ignored.
DropFrame ==
  \E f \in Arrived :
    /\ Handled(f)
    /\ ~(DecodesControl(f) /\ publish_remote_control)
    /\ ~(DecodesKillswitch(f) /\ publish_remote_control)
    /\ ~(DecodesGamepadButton(f) /\ f.payload[1] \in ButtonIndices)
    /\ UNCHANGED nodeVars

\* dispatch_frame, as far as it concerns remote control.
DispatchFrame == HandleControl \/ HandleKillswitch \/ HandleGamepadButton \/ DropFrame

\* rc_teleop_node's joy timeout; no frame brings a Joy for half a second.
TeleopTimeout ==
  /\ driving
  /\ driving' = FALSE
  /\ UNCHANGED << publish_remote_control, operatorVars, link, axes, buttons, killswitch,
                  gamepad_buttons, handled >>

OperatorNext == (\E b \in ButtonIndices, arrives \in BOOLEAN : ChangeButton(b, arrives))
                  \/ SendOther \/ RepeatControl

Next == OperatorNext \/ DispatchFrame \/ TeleopTimeout

Spec == Init /\ [][Next]_vars

\* The reader thread goes on reading and handling; rc_teleop_node stops when the link falls
\* silent, and need not while frames keep coming.
FairSpec == Spec /\ WF_vars(DispatchFrame) /\ WF_vars(link = << >> /\ TeleopTimeout)

-----------------------------------------------------------------------------
(* Properties *)

Frames ==
  [type : {"CONTROL", "KILLSWITCH", "GAMEPAD_BUTTON", "WAYPOINT"}, payload : Seq(Int \cup {NaN})]

\* A stick's range after scaling.
Speeds(max_speed) == { max_speed * d : d \in -FullStick..FullStick } \cup {NaN}

\* Types; no axis leaves the scaled range of a stick but as NaN
\* (radio_bridge_node.cpp:575-578).
TypeOK ==
  /\ publish_remote_control \in BOOLEAN
  /\ held \subseteq ButtonIndices /\ lost \subseteq ButtonIndices
  /\ sent \in 0..MaxSent
  /\ link \in Seq(Frames) /\ handled \in Seq(Frames)
  /\ axes \in [AxisIndices -> {0} \cup Speeds(max_linear_speed) \cup Speeds(max_angular_speed)]
  /\ buttons \in [ButtonIndices -> {0, 1}]
  /\ killswitch \in {NotYet, 0, 1}
  /\ gamepad_buttons \in [ButtonIndices -> {NotYet, 0, 1}]
  /\ driving \in BOOLEAN

IsPress(f, b)   == DecodesGamepadButton(f) /\ f.payload[1] = b /\ f.payload[2] # 0
IsRelease(f, b) == DecodesGamepadButton(f) /\ f.payload[1] = b /\ f.payload[2] = 0
IsKill(f)       == DecodesKillswitch(f) /\ f.payload[1] # 0

\* A press of b was handled, and neither a release nor a kill after it.
PressStands(b) ==
  \E i \in DOMAIN handled :
    /\ IsPress(handled[i], b)
    /\ \A j \in DOMAIN handled : j > i => ~IsRelease(handled[j], b) /\ ~IsKill(handled[j])

\* The i-th frame handled is the last CONTROL, and no kill came after it.
ControlStands(i) ==
  /\ DecodesControl(handled[i])
  /\ \A j \in DOMAIN handled : j > i => ~DecodesControl(handled[j]) /\ ~IsKill(handled[j])

\* The axes a CONTROL asks for.  The yaw is written last, should both name one axis.
Deflection(f) ==
  [a \in AxisIndices |->
     IF a = joy_yaw_axis THEN Scaled(f.payload[2], max_angular_speed)
     ELSE IF a = joy_surge_axis THEN Scaled(f.payload[1], max_linear_speed)
     ELSE 0]

\* What is on the joystick topic is decided by the inputs since the last kill: a button is
\* down exactly when its press stands, the sticks are those of the CONTROL that stands, or
\* centred; with remote control off it is all neutral (radio_bridge_node.cpp:559-660,
\* radio_bridge_node.hpp:90-97).
JoyFromInputs ==
  /\ \A b \in ButtonIndices : (buttons[b] = 1) = (publish_remote_control /\ PressStands(b))
  /\ \A i \in DOMAIN handled : ControlStands(i) /\ publish_remote_control => axes = Deflection(handled[i])
  /\ (~publish_remote_control \/ \A i \in DOMAIN handled : ~ControlStands(i)) => axes = Centred

\* The i-th frame handled is the last one of button b, or of the kill switch.
LastOfButton(i, b) ==
  /\ DecodesGamepadButton(handled[i]) /\ handled[i].payload[1] = b
  /\ \A j \in DOMAIN handled :
       j > i => ~(DecodesGamepadButton(handled[j]) /\ handled[j].payload[1] = b)
LastKillswitch(i) ==
  /\ DecodesKillswitch(handled[i])
  /\ \A j \in DOMAIN handled : j > i => ~DecodesKillswitch(handled[j])

\* The Bool topics tell the last input: each button's whether remote control is on or off,
\* the kill switch's only when it is on (radio_bridge_node.cpp:601-608, 640-655).
TopicsFromInputs ==
  /\ \A b \in ButtonIndices, i \in DOMAIN handled :
       LastOfButton(i, b) => (gamepad_buttons[b] = 1) = IsPress(handled[i], b)
  /\ ~publish_remote_control => killswitch = NotYet
  /\ \A i \in DOMAIN handled :
       publish_remote_control /\ LastKillswitch(i) => (killswitch = 1) = IsKill(handled[i])

\* A release of the deadman is on its way.
ReleaseUnderway == \E i \in DOMAIN link : IsRelease(link[i], Deadman)

\* The boat is driven from the radio only while the operator holds the deadman or the
\* release is on its way, as long as the deadman's last frame was not lost
\* (radio_bridge_node.cpp:646-659).
DriveNeedsHand == driving /\ Deadman \notin lost => Deadman \in held \/ ReleaseUnderway

\* A deadman that was let go stops the boat, while CONTROL frames keep coming, unless its
\* release was lost or it is pressed again (radio_bridge_node.cpp:656-659).
HandsOffStops == Deadman \notin held ~> ~driving \/ Deadman \in held \cup lost

\* What the comments say of it, whatever the link loses: the radio "gets the deadman for
\* free" (radio_bridge_node.hpp:70) and "looks exactly like the physical gamepad to
\* everything downstream" (radio_bridge_node.cpp:571-572).
DeadmanApplies == Deadman \notin held ~> ~driving \/ Deadman \in held
=============================================================================
