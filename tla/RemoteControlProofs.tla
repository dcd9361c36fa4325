------------------------- MODULE RemoteControlProofs -------------------------
(***************************************************************************)
(* Proofs about RemoteControl for every gamepad, stick range, link length  *)
(* and number of frames.                                                   *)
(***************************************************************************)
EXTENDS RemoteControl, SequenceTheorems, TLAPS

\* Only the two sticks move an axis.
OtherAxesRest == \A a \in AxisIndices \ {joy_surge_axis, joy_yaw_axis} : axes[a] = 0

\* rc_teleop_node drives on a Joy that held the deadman, which is joy_state_'s still.
DriveIsDeadman == driving => buttons[Deadman] = 1

\* When the operator has let go of the deadman and nothing was lost, the release is on its
\* way with no press behind it, or it was handled.
HandOnLink ==
  Deadman \notin lost \cup held =>
    \/ \E i \in DOMAIN link : /\ IsRelease(link[i], Deadman)
                             /\ \A j \in DOMAIN link : j > i => ~IsPress(link[j], Deadman)
    \/ /\ \A i \in DOMAIN link : ~IsPress(link[i], Deadman)
       /\ buttons[Deadman] # 1

IInv ==
  TypeOK /\ OtherAxesRest /\ JoyFromInputs /\ TopicsFromInputs /\ DriveIsDeadman /\ HandOnLink

-----------------------------------------------------------------------------
(* Frames *)

Fields == Int \cup {NaN}

\* What kind of frame a handler takes (protocol.cpp:85-118).
LEMMA FrameKinds ==
  ASSUME NEW f, NEW b
  PROVE  /\ IsPress(f, b) => DecodesGamepadButton(f) /\ ~IsRelease(f, b)
         /\ IsRelease(f, b) => DecodesGamepadButton(f)
         /\ DecodesGamepadButton(f) /\ f.payload[1] = b => IsPress(f, b) \/ IsRelease(f, b)
         /\ IsKill(f) => DecodesKillswitch(f)
         /\ DecodesGamepadButton(f) => ~DecodesKillswitch(f) /\ ~DecodesControl(f)
         /\ DecodesKillswitch(f) => ~DecodesControl(f)
BY DEF IsPress, IsRelease, IsKill, DecodesGamepadButton, DecodesKillswitch, DecodesControl

\* Every frame that is sent is one (radio_bridge_node.cpp:489-524).
LEMMA SentAreFrames ==
  ASSUME NEW x \in Fields, NEW y \in Fields
  PROVE  /\ Control(x, y) \in Frames
         /\ Killswitch(x) \in Frames
         /\ GamepadButton(x, y) \in Frames
<1>1. << x, y >> \in Seq(Fields) /\ << x >> \in Seq(Fields)
  OBVIOUS
<1>2. Frames = [type : {"CONTROL", "KILLSWITCH", "GAMEPAD_BUTTON", "WAYPOINT"}, payload : Seq(Fields)]
  BY DEF Frames, Fields
<1>3. QED  BY <1>1, <1>2, Zenon DEF Control, Killswitch, GamepadButton

\* The frames that differ from those of this version, too.
LEMMA OddAreFrames == OddFrames \subseteq Frames
<1>1. Frames = [type : {"CONTROL", "KILLSWITCH", "GAMEPAD_BUTTON", "WAYPOINT"}, payload : Seq(Fields)]
  BY DEF Frames, Fields
<1>2. << 0 >> \in Seq(Fields) /\ << 1 >> \in Seq(Fields) /\ << >> \in Seq(Fields)
  BY DEF Fields
<1>3. gamepad_button_count \in Fields /\ 1 \in Fields /\ 2 \in Fields
  BY RemoteAssumption DEF Fields
<1>4. GamepadButton(gamepad_button_count, 1) \in Frames /\ Killswitch(2) \in Frames
  BY <1>3, SentAreFrames
<1>5. /\ [type |-> "CONTROL", payload |-> << 1 >>] \in Frames
      /\ [type |-> "KILLSWITCH", payload |-> << >>] \in Frames
      /\ [type |-> "GAMEPAD_BUTTON", payload |-> << 0 >>] \in Frames
      /\ [type |-> "WAYPOINT", payload |-> << 1 >>] \in Frames
  BY <1>1, <1>2, Zenon
<1>6. QED  BY <1>4, <1>5, Zenon DEF OddFrames

\* The link after a handler ran: its first frame is gone.
LEMMA LinkShifts ==
  ASSUME TypeOK, NEW f \in Arrived, Handled(f)
  PROVE  /\ f \in Frames /\ link' \in Seq(Frames) /\ Len(link) \in Nat \ {0}
         /\ DOMAIN link = 1..Len(link) /\ f = link[1]
         /\ DOMAIN link' = 1..(Len(link) - 1)
         /\ \A i \in 1..(Len(link) - 1) : link'[i] = link[i + 1]
<1>1. link \in Seq(Frames) /\ link # << >> /\ f = Head(link)
  BY DEF TypeOK, Arrived
<1>2. /\ f \in Frames /\ Tail(link) \in Seq(Frames) /\ Len(link) \in Nat \ {0}
      /\ DOMAIN link = 1..Len(link) /\ Len(Tail(link)) = Len(link) - 1
      /\ \A i \in 1..(Len(link) - 1) : Tail(link)[i] = link[i + 1]
  BY <1>1, HeadTailProperties, LenProperties, EmptySeq
<1>3. link' = Tail(link) /\ f = link[1] /\ DOMAIN Tail(link) = 1..(Len(link) - 1)
  BY <1>1, <1>2, LenProperties DEF Handled
<1>4. QED  BY <1>2, <1>3, Zenon

\* The frames handled are n, and f is the last of them, be it a repetition or not.
UpTo(n, f) ==
  /\ DOMAIN handled' = 1..n /\ handled'[n] = f
  /\ \A i \in 1..(n - 1) : i \in DOMAIN handled /\ handled'[i] = handled[i]
  /\ \/ DOMAIN handled = 1..(n - 1)
     \/ DOMAIN handled = 1..n /\ handled[n] = f

\* The frames handled after a handler ran.
LEMMA HandledGrows ==
  ASSUME TypeOK, NEW f \in Arrived, Handled(f)
  PROVE  handled' \in Seq(Frames) /\ \E n \in Nat \ {0} : UpTo(n, f)
<1>1. handled \in Seq(Frames) /\ f \in Frames
  BY LinkShifts DEF TypeOK
<1>2. Len(handled) \in Nat /\ DOMAIN handled = 1..Len(handled)
  BY <1>1, LenProperties
<1>3. CASE handled # << >> /\ handled[Len(handled)] = f
  <2>1. handled' = handled
    BY <1>3 DEF Handled
  <2>2. Len(handled) \in Nat \ {0}
    BY <1>1, <1>3, EmptySeq
  <2>3. \A i \in 1..(Len(handled) - 1) : i \in DOMAIN handled
    BY <1>2
  <2>4. UpTo(Len(handled), f)
    BY <1>2, <1>3, <2>1, <2>3, Zenon DEF UpTo
  <2>5. QED  BY <1>1, <2>1, <2>2, <2>4, Zenon
<1>4. CASE ~(handled # << >> /\ handled[Len(handled)] = f)
  <2>1. handled' = Append(handled, f)
    BY <1>4 DEF Handled
  <2>2. handled' \in Seq(Frames) /\ Len(handled') = Len(handled) + 1
        /\ (\A i \in 1..Len(handled) : handled'[i] = handled[i])
        /\ handled'[Len(handled) + 1] = f
    BY <1>1, <2>1, AppendProperties
  <2>3. DOMAIN handled' = 1..(Len(handled) + 1)
    BY <2>2, LenProperties
  <2>4. Len(handled) + 1 \in Nat \ {0} /\ (Len(handled) + 1) - 1 = Len(handled)
    BY <1>2
  <2>5. UpTo(Len(handled) + 1, f)
    BY <1>2, <2>2, <2>3, <2>4, Zenon DEF UpTo
  <2>6. QED  BY <2>2, <2>4, <2>5, Zenon
<1>5. QED  BY <1>3, <1>4

-----------------------------------------------------------------------------
(* What stands after a frame *)

\* A press stands when it was just handled, or when it stood and the frame neither released
\* the button nor killed (radio_bridge_node.cpp:593-660).
LEMMA PressAfter ==
  ASSUME TypeOK, NEW f \in Arrived, Handled(f), NEW b
  PROVE  PressStands(b)' <=> IsPress(f, b) \/ (PressStands(b) /\ ~IsRelease(f, b) /\ ~IsKill(f))
<1>0. PICK n \in Nat \ {0} : UpTo(n, f)
  BY HandledGrows
<1>1. /\ DOMAIN handled' = 1..n /\ handled'[n] = f
      /\ \A i \in 1..(n - 1) : i \in DOMAIN handled /\ handled'[i] = handled[i]
      /\ \/ DOMAIN handled = 1..(n - 1)
         \/ DOMAIN handled = 1..n /\ handled[n] = f
  BY <1>0, Zenon DEF UpTo
<1>2. n \in DOMAIN handled' /\ \A i \in DOMAIN handled' : i = n \/ (i < n /\ i \in 1..(n - 1))
  BY <1>1
<1>3. CASE IsPress(f, b)
  <2>1. \A j \in DOMAIN handled' : ~(j > n)
    BY <1>1
  <2>2. PressStands(b)'
    BY <1>1, <1>2, <1>3, <2>1 DEF PressStands
  <2>3. QED  BY <1>3, <2>2
<1>4. CASE ~IsPress(f, b) /\ (IsRelease(f, b) \/ IsKill(f))
  <2>1. ~PressStands(b)'
    <3> SUFFICES ASSUME NEW i \in DOMAIN handled', IsPress(handled'[i], b),
                        \A j \in DOMAIN handled' :
                          j > i => ~IsRelease(handled'[j], b) /\ ~IsKill(handled'[j])
                 PROVE  FALSE
      BY DEF PressStands
    <3>1. i # n
      BY <1>1, <1>4
    <3>2. n > i
      BY <1>1, <1>2, <3>1
    <3>3. QED  BY <1>1, <1>2, <1>4, <3>2
  <2>2. QED  BY <1>4, <2>1
<1>5. CASE ~IsPress(f, b) /\ ~IsRelease(f, b) /\ ~IsKill(f)
  <2>1. ASSUME PressStands(b)'  PROVE PressStands(b)
    <3>1. PICK i \in DOMAIN handled' :
            /\ IsPress(handled'[i], b)
            /\ \A j \in DOMAIN handled' : j > i => ~IsRelease(handled'[j], b) /\ ~IsKill(handled'[j])
      BY <2>1 DEF PressStands
    <3>2. i \in 1..(n - 1) /\ i \in DOMAIN handled /\ handled'[i] = handled[i]
      BY <1>1, <1>2, <1>5, <3>1
    <3>3. ASSUME NEW j \in DOMAIN handled, j > i
          PROVE  ~IsRelease(handled[j], b) /\ ~IsKill(handled[j])
      <4>1. CASE j \in 1..(n - 1)
        BY <1>1, <3>1, <3>3, <4>1
      <4>2. CASE handled[j] = f
        BY <1>5, <4>2
      <4>3. QED  BY <1>1, <3>3, <4>1, <4>2
    <3>4. QED  BY <3>1, <3>2, <3>3 DEF PressStands
  <2>2. ASSUME PressStands(b)  PROVE PressStands(b)'
    <3>1. PICK i \in DOMAIN handled :
            /\ IsPress(handled[i], b)
            /\ \A j \in DOMAIN handled : j > i => ~IsRelease(handled[j], b) /\ ~IsKill(handled[j])
      BY <2>2 DEF PressStands
    <3>2. i \in 1..(n - 1)
      BY <1>1, <1>5, <3>1
    <3>3. i \in DOMAIN handled' /\ handled'[i] = handled[i]
      BY <1>1, <3>2
    <3>4. ASSUME NEW j \in DOMAIN handled', j > i
          PROVE  ~IsRelease(handled'[j], b) /\ ~IsKill(handled'[j])
      BY <1>1, <1>2, <1>5, <3>1, <3>4
    <3>5. QED  BY <3>1, <3>3, <3>4 DEF PressStands
  <2>3. QED  BY <1>5, <2>1, <2>2
<1>6. QED  BY <1>3, <1>4, <1>5

\* A CONTROL frame stands from when it is handled until the next one or a kill
\* (radio_bridge_node.cpp:559-623).
LEMMA ControlAfter ==
  ASSUME TypeOK, NEW f \in Arrived, Handled(f)
  PROVE  /\ IsKill(f) => \A i \in DOMAIN handled' : ~ControlStands(i)'
         /\ DecodesControl(f) =>
              /\ \E i \in DOMAIN handled' : ControlStands(i)'
              /\ \A i \in DOMAIN handled' : ControlStands(i)' => handled'[i] = f
         /\ ~DecodesControl(f) /\ ~IsKill(f) =>
              /\ \A i \in DOMAIN handled' :
                   ControlStands(i)' => i \in DOMAIN handled /\ ControlStands(i) /\ handled'[i] = handled[i]
              /\ \A i \in DOMAIN handled :
                   ControlStands(i) => i \in DOMAIN handled' /\ ControlStands(i)'
<1>0. PICK n \in Nat \ {0} : UpTo(n, f)
  BY HandledGrows
<1>1. /\ DOMAIN handled' = 1..n /\ handled'[n] = f
      /\ \A i \in 1..(n - 1) : i \in DOMAIN handled /\ handled'[i] = handled[i]
      /\ \/ DOMAIN handled = 1..(n - 1)
         \/ DOMAIN handled = 1..n /\ handled[n] = f
  BY <1>0, Zenon DEF UpTo
<1>2. /\ n \in DOMAIN handled'
      /\ \A i \in DOMAIN handled' : ~(i > n) /\ (i = n \/ (n > i /\ i \in 1..(n - 1)))
  BY <1>1
<1>3. ASSUME NEW i \in DOMAIN handled', ControlStands(i)', i # n
      PROVE  ~DecodesControl(f) /\ ~IsKill(f)
  BY <1>1, <1>2, <1>3 DEF ControlStands
<1>4. ASSUME IsKill(f), NEW i \in DOMAIN handled'  PROVE ~ControlStands(i)'
  <2>1. ~DecodesControl(f)
    BY <1>4, FrameKinds
  <2>2. CASE i = n
    BY <1>1, <2>1, <2>2 DEF ControlStands
  <2>3. QED  BY <1>3, <1>4, <2>2
<1>5. ASSUME DecodesControl(f)
      PROVE  /\ ControlStands(n)'
             /\ \A i \in DOMAIN handled' : ControlStands(i)' => handled'[i] = f
  <2>1. ControlStands(n)'
    BY <1>1, <1>2, <1>5 DEF ControlStands
  <2>2. QED  BY <1>1, <1>3, <1>5, <2>1
<1>6. ASSUME ~DecodesControl(f), ~IsKill(f), NEW i \in DOMAIN handled', ControlStands(i)'
      PROVE  i \in DOMAIN handled /\ ControlStands(i) /\ handled'[i] = handled[i]
  <2>1. i # n
    BY <1>1, <1>6 DEF ControlStands
  <2>2. i \in 1..(n - 1) /\ i \in DOMAIN handled /\ handled'[i] = handled[i]
    BY <1>1, <1>2, <2>1
  <2>3. ASSUME NEW j \in DOMAIN handled, j > i
        PROVE  ~DecodesControl(handled[j]) /\ ~IsKill(handled[j])
    <3>1. CASE j \in 1..(n - 1)
      BY <1>1, <1>6, <2>3, <3>1 DEF ControlStands
    <3>2. CASE handled[j] = f
      BY <1>6, <3>2
    <3>3. QED  BY <1>1, <2>3, <3>1, <3>2
  <2>4. QED  BY <1>6, <2>2, <2>3 DEF ControlStands
<1>7. ASSUME ~DecodesControl(f), ~IsKill(f), NEW i \in DOMAIN handled, ControlStands(i)
      PROVE  i \in DOMAIN handled' /\ ControlStands(i)'
  <2>1. i \in 1..(n - 1)
    BY <1>1, <1>7 DEF ControlStands
  <2>2. i \in DOMAIN handled' /\ handled'[i] = handled[i]
    BY <1>1, <2>1
  <2>3. ASSUME NEW j \in DOMAIN handled', j > i
        PROVE  ~DecodesControl(handled'[j]) /\ ~IsKill(handled'[j])
    BY <1>1, <1>2, <1>7, <2>3 DEF ControlStands
  <2>4. QED  BY <1>7, <2>2, <2>3 DEF ControlStands
<1>8. QED  BY <1>2, <1>4, <1>5, <1>6, <1>7

\* The last frame of a button is the one just handled, or it was the last before
\* (radio_bridge_node.cpp:625-660).
LEMMA ButtonAfter ==
  ASSUME TypeOK, NEW f \in Arrived, Handled(f), NEW b, NEW i \in DOMAIN handled', LastOfButton(i, b)'
  PROVE  \/ handled'[i] = f /\ DecodesGamepadButton(f) /\ f.payload[1] = b
         \/ /\ i \in DOMAIN handled /\ LastOfButton(i, b) /\ handled'[i] = handled[i]
            /\ ~(DecodesGamepadButton(f) /\ f.payload[1] = b)
<1>0. PICK n \in Nat \ {0} : UpTo(n, f)
  BY HandledGrows
<1>1. /\ DOMAIN handled' = 1..n /\ handled'[n] = f
      /\ \A k \in 1..(n - 1) : k \in DOMAIN handled /\ handled'[k] = handled[k]
      /\ \/ DOMAIN handled = 1..(n - 1)
         \/ DOMAIN handled = 1..n /\ handled[n] = f
  BY <1>0, Zenon DEF UpTo
<1>2. n \in DOMAIN handled' /\ (i = n \/ (n > i /\ i \in 1..(n - 1)))
  BY <1>1
<1>3. CASE i = n
  BY <1>1, <1>3 DEF LastOfButton
<1>4. CASE n > i /\ i \in 1..(n - 1)
  <2>1. ~(DecodesGamepadButton(f) /\ f.payload[1] = b)
    BY <1>1, <1>2, <1>4 DEF LastOfButton
  <2>2. i \in DOMAIN handled /\ handled'[i] = handled[i]
    BY <1>1, <1>4
  <2>3. ASSUME NEW j \in DOMAIN handled, j > i
        PROVE  ~(DecodesGamepadButton(handled[j]) /\ handled[j].payload[1] = b)
    <3>1. CASE j \in 1..(n - 1)
      BY <1>1, <2>3, <3>1 DEF LastOfButton
    <3>2. CASE handled[j] = f
      BY <2>1, <3>2
    <3>3. QED  BY <1>1, <2>3, <3>1, <3>2
  <2>4. QED  BY <2>1, <2>2, <2>3 DEF LastOfButton
<1>5. QED  BY <1>2, <1>3, <1>4

\* The same of the kill switch (radio_bridge_node.cpp:593-610).
LEMMA KillswitchAfter ==
  ASSUME TypeOK, NEW f \in Arrived, Handled(f), NEW i \in DOMAIN handled', LastKillswitch(i)'
  PROVE  \/ handled'[i] = f /\ DecodesKillswitch(f)
         \/ /\ i \in DOMAIN handled /\ LastKillswitch(i) /\ handled'[i] = handled[i]
            /\ ~DecodesKillswitch(f)
<1>0. PICK n \in Nat \ {0} : UpTo(n, f)
  BY HandledGrows
<1>1. /\ DOMAIN handled' = 1..n /\ handled'[n] = f
      /\ \A k \in 1..(n - 1) : k \in DOMAIN handled /\ handled'[k] = handled[k]
      /\ \/ DOMAIN handled = 1..(n - 1)
         \/ DOMAIN handled = 1..n /\ handled[n] = f
  BY <1>0, Zenon DEF UpTo
<1>2. n \in DOMAIN handled' /\ (i = n \/ (n > i /\ i \in 1..(n - 1)))
  BY <1>1
<1>3. CASE i = n
  BY <1>1, <1>3 DEF LastKillswitch
<1>4. CASE n > i /\ i \in 1..(n - 1)
  <2>1. ~DecodesKillswitch(f)
    BY <1>1, <1>2, <1>4 DEF LastKillswitch
  <2>2. i \in DOMAIN handled /\ handled'[i] = handled[i]
    BY <1>1, <1>4
  <2>3. ASSUME NEW j \in DOMAIN handled, j > i  PROVE ~DecodesKillswitch(handled[j])
    <3>1. CASE j \in 1..(n - 1)
      BY <1>1, <2>3, <3>1 DEF LastKillswitch
    <3>2. CASE handled[j] = f
      BY <2>1, <3>2
    <3>3. QED  BY <1>1, <2>3, <3>1, <3>2
  <2>4. QED  BY <2>1, <2>2, <2>3 DEF LastKillswitch
<1>5. QED  BY <1>2, <1>3, <1>4

-----------------------------------------------------------------------------
(* Types *)

\* std::clamp and the scale keep a stick in its range (radio_bridge_node.cpp:575-578).
LEMMA ScaledInRange ==
  ASSUME NEW v \in Fields, NEW m \in Int
  PROVE  Scaled(v, m) \in Speeds(m)
<1>1. FullStick \in Nat \ {0} /\ NaN \notin Int
  BY RemoteAssumption
<1>2. CASE v = NaN
  BY <1>2 DEF Scaled, Speeds
<1>3. CASE v # NaN
  <2>1. v \in Int
    BY <1>3 DEF Fields
  <2>2. PICK d \in -FullStick..FullStick :
          d = IF v < -FullStick THEN -FullStick ELSE IF v > FullStick THEN FullStick ELSE v
    BY <1>1, <2>1
  <2>3. Scaled(v, m) = m * d
    BY <1>3, <2>2 DEF Scaled
  <2>4. QED  BY <2>2, <2>3, Zenon DEF Speeds
<1>4. QED  BY <1>2, <1>3

\* The fields of a frame.
LEMMA FieldsOfFrame ==
  ASSUME NEW f \in Frames, NEW i \in Nat \ {0}, i <= Len(f.payload)
  PROVE  f.payload[i] \in Fields
<1>1. f.payload \in Seq(Fields)
  BY DEF Frames, Fields
<1>2. i \in 1..Len(f.payload)
  BY <1>1, LenProperties
<1>3. QED  BY <1>1, <1>2, ElementOfSeq

\* Every step keeps the types.
LEMMA TypeStep ==
  ASSUME TypeOK, [Next]_vars
  PROVE  TypeOK'
<1>1. /\ joy_surge_axis \in AxisIndices /\ joy_yaw_axis \in AxisIndices
      /\ Deadman \in ButtonIndices /\ max_linear_speed \in Int /\ max_angular_speed \in Int
      /\ MaxLink \in Nat /\ MaxSent \in Nat /\ gamepad_button_count \in Nat
      /\ Sticks \subseteq Fields \X Fields /\ NaN \notin Int
  BY RemoteAssumption DEF AxisIndices, ButtonIndices, Fields
<1>2. ASSUME NEW f \in Frames, NEW arrives \in BOOLEAN, Transmit(f, arrives),
             held' \subseteq ButtonIndices, lost' \subseteq ButtonIndices
      PROVE  TypeOK'
  <2>1. sent' \in 0..MaxSent
    BY <1>1, <1>2 DEF TypeOK, Transmit
  <2>2. link' \in Seq(Frames)
    BY <1>2, AppendProperties DEF TypeOK, Transmit
  <2>3. UNCHANGED << publish_remote_control, nodeVars, handled >>
    BY <1>2 DEF Transmit
  <2>4. QED  BY <1>2, <2>1, <2>2, <2>3 DEF TypeOK, nodeVars
<1>3. ASSUME NEW b \in ButtonIndices, NEW arrives \in BOOLEAN, ChangeButton(b, arrives)
      PROVE  TypeOK'
  <2>1. held' \subseteq ButtonIndices /\ lost' \subseteq ButtonIndices
    BY <1>3 DEF ChangeButton, TypeOK
  <2>2. b \in Fields /\ (IF b \in held THEN 0 ELSE 1) \in Fields
    BY <1>1 DEF ButtonIndices, Fields
  <2>3. GamepadButton(b, IF b \in held THEN 0 ELSE 1) \in Frames
    BY <2>2, SentAreFrames
  <2>4. QED  BY <1>2, <1>3, <2>1, <2>3 DEF ChangeButton
<1>4. CASE SendOther
  <2>1. PICK f \in { Control(s[1], s[2]) : s \in Sticks } \cup { Killswitch(k) : k \in {0, 1} } \cup OddFrames :
          Transmit(f, TRUE)
    BY <1>4 DEF SendOther
  <2>2. f \in Frames
    <3>1. ASSUME NEW s \in Sticks  PROVE Control(s[1], s[2]) \in Frames
      BY <1>1, SentAreFrames
    <3>2. ASSUME NEW k \in {0, 1}  PROVE Killswitch(k) \in Frames
      BY SentAreFrames DEF Fields
    <3>3. QED  BY <2>1, <3>1, <3>2, OddAreFrames
  <2>3. held' \subseteq ButtonIndices /\ lost' \subseteq ButtonIndices
    BY <1>4 DEF SendOther, TypeOK
  <2>4. QED  BY <1>2, <2>1, <2>2, <2>3
<1>5. CASE RepeatControl
  <2>1. PICK i \in DOMAIN handled : link' = << handled[i] >>
    BY <1>5 DEF RepeatControl
  <2>2. handled[i] \in Frames
    BY ElementOfSeq, LenProperties DEF TypeOK
  <2>3. link' \in Seq(Frames)
    BY <2>1, <2>2
  <2>4. UNCHANGED << publish_remote_control, nodeVars, operatorVars, handled >>
    BY <1>5 DEF RepeatControl
  <2>5. QED  BY <2>3, <2>4 DEF TypeOK, nodeVars, operatorVars
<1>6. ASSUME NEW f \in Arrived, Handled(f),
             axes' \in [AxisIndices -> {0} \cup Speeds(max_linear_speed) \cup Speeds(max_angular_speed)],
             buttons' \in [ButtonIndices -> {0, 1}],
             killswitch' \in {NotYet, 0, 1},
             gamepad_buttons' \in [ButtonIndices -> {NotYet, 0, 1}],
             driving' \in BOOLEAN
      PROVE  TypeOK'
  <2>1. link' \in Seq(Frames) /\ handled' \in Seq(Frames)
    BY <1>6, LinkShifts, HandledGrows
  <2>2. UNCHANGED << publish_remote_control, operatorVars >>
    BY <1>6 DEF Handled
  <2>3. QED  BY <1>6, <2>1, <2>2 DEF TypeOK, operatorVars
<1>7. CASE HandleControl
  <2>1. PICK f \in Arrived :
          /\ Handled(f) /\ DecodesControl(f)
          /\ axes' = [axes EXCEPT ![joy_surge_axis] = Scaled(f.payload[1], max_linear_speed),
                                  ![joy_yaw_axis] = Scaled(f.payload[2], max_angular_speed)]
          /\ UNCHANGED << buttons, killswitch, gamepad_buttons >>
          /\ PublishJoy
    BY <1>7 DEF HandleControl
  <2>2. f \in Frames
    BY <2>1, LinkShifts
  <2>3. f.payload[1] \in Fields /\ f.payload[2] \in Fields
    BY <2>1, <2>2, FieldsOfFrame DEF DecodesControl
  <2>4. /\ Scaled(f.payload[1], max_linear_speed) \in Speeds(max_linear_speed)
        /\ Scaled(f.payload[2], max_angular_speed) \in Speeds(max_angular_speed)
    BY <1>1, <2>3, ScaledInRange
  <2>5. axes' \in [AxisIndices -> {0} \cup Speeds(max_linear_speed) \cup Speeds(max_angular_speed)]
    BY <2>1, <2>4, Zenon DEF TypeOK
  <2>6. QED  BY <1>6, <2>1, <2>5 DEF TypeOK, PublishJoy
<1>8. CASE HandleKillswitch
  <2>1. PICK f \in Arrived :
          /\ Handled(f)
          /\ killswitch' = Flag(f.payload[1])
          /\ IF f.payload[1] # 0 THEN Failsafe ELSE UNCHANGED << axes, buttons, driving >>
          /\ UNCHANGED gamepad_buttons
    BY <1>8 DEF HandleKillswitch
  <2>2. Centred \in [AxisIndices -> {0} \cup Speeds(max_linear_speed) \cup Speeds(max_angular_speed)]
        /\ AllUp \in [ButtonIndices -> {0, 1}]
    BY DEF Centred, AllUp
  <2>3. axes' \in [AxisIndices -> {0} \cup Speeds(max_linear_speed) \cup Speeds(max_angular_speed)]
        /\ buttons' \in [ButtonIndices -> {0, 1}] /\ driving' \in BOOLEAN
    BY <2>1, <2>2, Zenon DEF TypeOK, Failsafe, PublishJoy
  <2>4. killswitch' \in {NotYet, 0, 1} /\ gamepad_buttons' \in [ButtonIndices -> {NotYet, 0, 1}]
    BY <2>1 DEF Flag, TypeOK
  <2>5. QED  BY <1>6, <2>1, <2>3, <2>4
<1>9. CASE HandleGamepadButton
  <2>1. PICK f \in Arrived :
          /\ Handled(f)
          /\ f.payload[1] \in ButtonIndices
          /\ gamepad_buttons' = [gamepad_buttons EXCEPT ![f.payload[1]] = Flag(f.payload[2])]
          /\ Fold(f.payload[1], f.payload[2])
          /\ UNCHANGED << axes, killswitch >>
    BY <1>9 DEF HandleGamepadButton
  <2>2. Flag(f.payload[2]) \in {0, 1}
    BY DEF Flag
  <2>3. gamepad_buttons' \in [ButtonIndices -> {NotYet, 0, 1}]
    BY <2>1, <2>2 DEF TypeOK
  <2>4. buttons' \in [ButtonIndices -> {0, 1}] /\ driving' \in BOOLEAN
    BY <2>1, <2>2, Zenon DEF TypeOK, Fold, PublishJoy
  <2>5. QED  BY <1>6, <2>1, <2>3, <2>4 DEF TypeOK
<1>10. CASE DropFrame
  BY <1>6, <1>10 DEF DropFrame, nodeVars, TypeOK
<1>11. CASE TeleopTimeout
  BY <1>11 DEF TeleopTimeout, operatorVars, TypeOK
<1>12. CASE UNCHANGED vars
  BY <1>12 DEF vars, TypeOK
<1>13. QED
  BY <1>3, <1>4, <1>5, <1>7, <1>8, <1>9, <1>10, <1>11, <1>12 DEF Next, OperatorNext, DispatchFrame

-----------------------------------------------------------------------------
(* The joystick topic *)

\* A step that handles nothing leaves what was handled, joy_state_ and the topics.
LEMMA NothingHandled ==
  ASSUME OperatorNext \/ TeleopTimeout \/ UNCHANGED vars
  PROVE  UNCHANGED << publish_remote_control, axes, buttons, killswitch, gamepad_buttons, handled >>
BY DEF OperatorNext, ChangeButton, SendOther, RepeatControl, Transmit, TeleopTimeout, nodeVars, vars

\* A step of the reader thread handles one frame.
LEMMA DispatchHandles ==
  ASSUME DispatchFrame
  PROVE  \E f \in Arrived : Handled(f)
BY DEF DispatchFrame, HandleControl, HandleKillswitch, HandleGamepadButton, DropFrame

\* The buttons of joy_state_ after a frame (radio_bridge_node.cpp:593-660).
LEMMA ButtonsAfter ==
  ASSUME TypeOK, DispatchFrame
  PROVE  \E f \in Arrived :
           /\ Handled(f)
           /\ \A b \in ButtonIndices :
                buttons'[b] = IF ~publish_remote_control THEN buttons[b]
                              ELSE IF IsPress(f, b) THEN 1
                              ELSE IF IsRelease(f, b) \/ IsKill(f) THEN 0
                              ELSE buttons[b]
<1>1. CASE HandleControl
  BY <1>1, FrameKinds DEF HandleControl
<1>2. CASE HandleKillswitch
  <2>1. PICK f \in Arrived :
          /\ Handled(f) /\ DecodesKillswitch(f) /\ publish_remote_control
          /\ IF f.payload[1] # 0 THEN Failsafe ELSE UNCHANGED << axes, buttons, driving >>
    BY <1>2 DEF HandleKillswitch
  <2>2. \A b : ~IsPress(f, b) /\ ~IsRelease(f, b)
    BY <2>1, FrameKinds
  <2>3. CASE IsKill(f)
    BY <2>1, <2>2, <2>3 DEF IsKill, Failsafe, AllUp
  <2>4. CASE ~IsKill(f)
    BY <2>1, <2>2, <2>4 DEF IsKill
  <2>5. QED  BY <2>3, <2>4
<1>3. CASE HandleGamepadButton
  <2>1. PICK f \in Arrived :
          /\ Handled(f) /\ DecodesGamepadButton(f) /\ f.payload[1] \in ButtonIndices
          /\ Fold(f.payload[1], f.payload[2])
    BY <1>3 DEF HandleGamepadButton
  <2>2. ~IsKill(f)
    BY <2>1, FrameKinds
  <2>3. ASSUME NEW b \in ButtonIndices
        PROVE  buttons'[b] = IF ~publish_remote_control THEN buttons[b]
                             ELSE IF IsPress(f, b) THEN 1
                             ELSE IF IsRelease(f, b) \/ IsKill(f) THEN 0
                             ELSE buttons[b]
    BY <2>1, <2>2 DEF Fold, Flag, TypeOK, IsPress, IsRelease
  <2>4. QED  BY <2>1, <2>3
<1>4. CASE DropFrame
  <2>1. PICK f \in Arrived :
          /\ Handled(f)
          /\ ~(DecodesKillswitch(f) /\ publish_remote_control)
          /\ ~(DecodesGamepadButton(f) /\ f.payload[1] \in ButtonIndices)
          /\ UNCHANGED nodeVars
    BY <1>4 DEF DropFrame
  <2>2. publish_remote_control => ~IsKill(f) /\ \A b \in ButtonIndices : ~IsPress(f, b) /\ ~IsRelease(f, b)
    BY <2>1 DEF IsKill, IsPress, IsRelease
  <2>3. QED  BY <2>1, <2>2 DEF nodeVars
<1>5. QED  BY <1>1, <1>2, <1>3, <1>4 DEF DispatchFrame

\* The axes of joy_state_ after a frame (radio_bridge_node.cpp:559-623).
LEMMA AxesAfter ==
  ASSUME DispatchFrame
  PROVE  \E f \in Arrived :
           /\ Handled(f)
           /\ publish_remote_control /\ DecodesControl(f) =>
                axes' = [axes EXCEPT ![joy_surge_axis] = Scaled(f.payload[1], max_linear_speed),
                                     ![joy_yaw_axis] = Scaled(f.payload[2], max_angular_speed)]
           /\ publish_remote_control /\ IsKill(f) => axes' = Centred
           /\ ~publish_remote_control \/ (~DecodesControl(f) /\ ~IsKill(f)) => axes' = axes
<1>1. CASE HandleControl
  BY <1>1, FrameKinds DEF HandleControl
<1>2. CASE HandleKillswitch
  <2>1. PICK f \in Arrived :
          /\ Handled(f) /\ DecodesKillswitch(f) /\ publish_remote_control
          /\ IF f.payload[1] # 0 THEN Failsafe ELSE UNCHANGED << axes, buttons, driving >>
    BY <1>2 DEF HandleKillswitch
  <2>2. ~DecodesControl(f)
    BY <2>1, FrameKinds
  <2>3. QED  BY <2>1, <2>2 DEF IsKill, Failsafe
<1>3. CASE HandleGamepadButton
  BY <1>3, FrameKinds DEF HandleGamepadButton
<1>4. CASE DropFrame
  <2>1. PICK f \in Arrived :
          /\ Handled(f)
          /\ ~(DecodesControl(f) /\ publish_remote_control)
          /\ ~(DecodesKillswitch(f) /\ publish_remote_control)
          /\ UNCHANGED nodeVars
    BY <1>4 DEF DropFrame
  <2>2. QED  BY <2>1 DEF IsKill, nodeVars
<1>5. QED  BY <1>1, <1>2, <1>3, <1>4 DEF DispatchFrame

\* Every step leaves at rest the axes that are no stick's, and joy_state_ as the inputs
\* decide.
LEMMA JoyStep ==
  ASSUME TypeOK, OtherAxesRest, JoyFromInputs, [Next]_vars
  PROVE  OtherAxesRest' /\ JoyFromInputs'
<1>1. CASE OperatorNext \/ TeleopTimeout \/ UNCHANGED vars
  <2>1. UNCHANGED << publish_remote_control, axes, buttons, handled >>
    BY <1>1, NothingHandled
  <2>2. OtherAxesRest'
    BY <2>1 DEF OtherAxesRest
  <2>3. \A b : PressStands(b)' = PressStands(b)
    BY <2>1 DEF PressStands
  <2>4. \A i : ControlStands(i)' = ControlStands(i)
    BY <2>1 DEF ControlStands
  <2>5. QED  BY <2>1, <2>2, <2>3, <2>4 DEF JoyFromInputs
<1>2. CASE DispatchFrame
  <2>1. publish_remote_control' = publish_remote_control
    BY <1>2, DispatchHandles DEF Handled
  <2>2. ASSUME NEW b \in ButtonIndices
        PROVE  (buttons'[b] = 1) = (publish_remote_control /\ PressStands(b)')
    <3>1. PICK f \in Arrived :
            /\ Handled(f)
            /\ \A c \in ButtonIndices :
                 buttons'[c] = IF ~publish_remote_control THEN buttons[c]
                               ELSE IF IsPress(f, c) THEN 1
                               ELSE IF IsRelease(f, c) \/ IsKill(f) THEN 0
                               ELSE buttons[c]
      BY <1>2, ButtonsAfter
    <3>2. PressStands(b)' <=> IsPress(f, b) \/ (PressStands(b) /\ ~IsRelease(f, b) /\ ~IsKill(f))
      BY <3>1, PressAfter
    <3>3. (buttons[b] = 1) = (publish_remote_control /\ PressStands(b))
      BY DEF JoyFromInputs
    <3>4. QED  BY <3>1, <3>2, <3>3
  <2>3. PICK f \in Arrived :
          /\ Handled(f)
          /\ publish_remote_control /\ DecodesControl(f) =>
               axes' = [axes EXCEPT ![joy_surge_axis] = Scaled(f.payload[1], max_linear_speed),
                                    ![joy_yaw_axis] = Scaled(f.payload[2], max_angular_speed)]
          /\ publish_remote_control /\ IsKill(f) => axes' = Centred
          /\ ~publish_remote_control \/ (~DecodesControl(f) /\ ~IsKill(f)) => axes' = axes
    BY <1>2, AxesAfter
  <2>4. /\ IsKill(f) => \A i \in DOMAIN handled' : ~ControlStands(i)'
        /\ DecodesControl(f) =>
             /\ \E i \in DOMAIN handled' : ControlStands(i)'
             /\ \A i \in DOMAIN handled' : ControlStands(i)' => handled'[i] = f
        /\ ~DecodesControl(f) /\ ~IsKill(f) =>
             /\ \A i \in DOMAIN handled' :
                  ControlStands(i)' => i \in DOMAIN handled /\ ControlStands(i) /\ handled'[i] = handled[i]
             /\ \A i \in DOMAIN handled :
                  ControlStands(i) => i \in DOMAIN handled' /\ ControlStands(i)'
    BY <2>3, ControlAfter
  <2>5. \A i : Deflection(handled[i])' = Deflection(handled'[i])
    BY DEF Deflection
  <2>6. axes \in [AxisIndices -> {0} \cup Speeds(max_linear_speed) \cup Speeds(max_angular_speed)]
        /\ joy_surge_axis \in AxisIndices /\ joy_yaw_axis \in AxisIndices
    BY RemoteAssumption DEF TypeOK, AxisIndices
  <2>7. CASE ~publish_remote_control
    <3>1. axes = Centred
      BY <2>7 DEF JoyFromInputs
    <3>2. axes' = Centred
      BY <2>3, <2>7, <3>1
    <3>3. OtherAxesRest'
      BY <3>2 DEF OtherAxesRest, Centred
    <3>4. QED  BY <2>1, <2>2, <2>7, <3>2, <3>3 DEF JoyFromInputs
  <2>8. CASE publish_remote_control /\ IsKill(f)
    <3>1. OtherAxesRest'
      BY <2>3, <2>8 DEF OtherAxesRest, Centred
    <3>2. QED  BY <2>1, <2>2, <2>3, <2>4, <2>8, <3>1 DEF JoyFromInputs
  <2>9. CASE publish_remote_control /\ DecodesControl(f)
    <3>1. axes' = Deflection(f) /\ OtherAxesRest'
      BY <2>3, <2>6, <2>9 DEF Deflection, OtherAxesRest
    <3>2. QED  BY <2>1, <2>2, <2>4, <2>5, <2>9, <3>1 DEF JoyFromInputs
  <2>10. CASE publish_remote_control /\ ~DecodesControl(f) /\ ~IsKill(f)
    <3>1. axes' = axes
      BY <2>3, <2>10
    <3>2. OtherAxesRest'
      BY <3>1 DEF OtherAxesRest
    <3>3. ASSUME NEW i \in DOMAIN handled', ControlStands(i)'  PROVE axes' = Deflection(handled'[i])
      <4>1. i \in DOMAIN handled /\ ControlStands(i) /\ handled'[i] = handled[i]
        BY <2>4, <2>10, <3>3
      <4>2. QED  BY <2>10, <3>1, <4>1 DEF JoyFromInputs
    <3>4. ASSUME \A i \in DOMAIN handled' : ~ControlStands(i)'  PROVE axes' = Centred
      <4>1. \A i \in DOMAIN handled : ~ControlStands(i)
        BY <2>4, <2>10, <3>4
      <4>2. QED  BY <3>1, <4>1 DEF JoyFromInputs
    <3>5. QED  BY <2>1, <2>2, <2>5, <2>10, <3>2, <3>3, <3>4 DEF JoyFromInputs
  <2>11. QED  BY <2>7, <2>8, <2>9, <2>10
<1>3. QED  BY <1>1, <1>2 DEF Next

-----------------------------------------------------------------------------
(* The Bool topics *)

\* Every step leaves the Bool topics as the last inputs decide.
LEMMA TopicsStep ==
  ASSUME TypeOK, TopicsFromInputs, [Next]_vars
  PROVE  TopicsFromInputs'
<1>1. CASE OperatorNext \/ TeleopTimeout \/ UNCHANGED vars
  <2>1. UNCHANGED << publish_remote_control, killswitch, gamepad_buttons, handled >>
    BY <1>1, NothingHandled
  <2>2. \A b, i : LastOfButton(i, b)' = LastOfButton(i, b)
    BY <2>1 DEF LastOfButton
  <2>3. \A i : LastKillswitch(i)' = LastKillswitch(i)
    BY <2>1 DEF LastKillswitch
  <2>4. QED  BY <2>1, <2>2, <2>3 DEF TopicsFromInputs
<1>2. ASSUME NEW f \in Arrived, Handled(f),
             \A b \in ButtonIndices :
               gamepad_buttons'[b] = IF DecodesGamepadButton(f) /\ f.payload[1] = b
                                     THEN Flag(f.payload[2]) ELSE gamepad_buttons[b],
             killswitch' = IF publish_remote_control /\ DecodesKillswitch(f)
                           THEN Flag(f.payload[1]) ELSE killswitch
      PROVE  TopicsFromInputs'
  <2>1. publish_remote_control' = publish_remote_control
    BY <1>2 DEF Handled
  <2>2. ASSUME NEW b \in ButtonIndices, NEW i \in DOMAIN handled', LastOfButton(i, b)'
        PROVE  (gamepad_buttons'[b] = 1) = IsPress(handled'[i], b)
    <3>1. CASE handled'[i] = f /\ DecodesGamepadButton(f) /\ f.payload[1] = b
      BY <1>2, <3>1 DEF IsPress, Flag
    <3>2. CASE /\ i \in DOMAIN handled /\ LastOfButton(i, b) /\ handled'[i] = handled[i]
               /\ ~(DecodesGamepadButton(f) /\ f.payload[1] = b)
      BY <1>2, <3>2 DEF TopicsFromInputs
    <3>3. QED  BY <1>2, <2>2, <3>1, <3>2, ButtonAfter
  <2>3. ~publish_remote_control => killswitch' = NotYet
    BY <1>2 DEF TopicsFromInputs
  <2>4. ASSUME NEW i \in DOMAIN handled', publish_remote_control, LastKillswitch(i)'
        PROVE  (killswitch' = 1) = IsKill(handled'[i])
    <3>1. CASE handled'[i] = f /\ DecodesKillswitch(f)
      BY <1>2, <2>4, <3>1 DEF IsKill, Flag
    <3>2. CASE /\ i \in DOMAIN handled /\ LastKillswitch(i) /\ handled'[i] = handled[i]
               /\ ~DecodesKillswitch(f)
      BY <1>2, <2>4, <3>2 DEF TopicsFromInputs
    <3>3. QED  BY <1>2, <2>4, <3>1, <3>2, KillswitchAfter
  <2>5. QED  BY <2>1, <2>2, <2>3, <2>4 DEF TopicsFromInputs
<1>3. CASE HandleControl
  <2>1. PICK f \in Arrived : Handled(f) /\ DecodesControl(f) /\ UNCHANGED << killswitch, gamepad_buttons >>
    BY <1>3 DEF HandleControl
  <2>2. ~DecodesGamepadButton(f) /\ ~DecodesKillswitch(f)
    BY <2>1, FrameKinds
  <2>3. QED  BY <1>2, <2>1, <2>2
<1>4. CASE HandleKillswitch
  <2>1. PICK f \in Arrived :
          /\ Handled(f) /\ DecodesKillswitch(f) /\ publish_remote_control
          /\ killswitch' = Flag(f.payload[1]) /\ UNCHANGED gamepad_buttons
    BY <1>4 DEF HandleKillswitch
  <2>2. ~DecodesGamepadButton(f)
    BY <2>1, FrameKinds
  <2>3. QED  BY <1>2, <2>1, <2>2
<1>5. CASE HandleGamepadButton
  <2>1. PICK f \in Arrived :
          /\ Handled(f) /\ DecodesGamepadButton(f) /\ f.payload[1] \in ButtonIndices
          /\ gamepad_buttons' = [gamepad_buttons EXCEPT ![f.payload[1]] = Flag(f.payload[2])]
          /\ UNCHANGED killswitch
    BY <1>5 DEF HandleGamepadButton
  <2>2. ~DecodesKillswitch(f)
    BY <2>1, FrameKinds
  <2>3. \A b \in ButtonIndices :
          gamepad_buttons'[b] = IF DecodesGamepadButton(f) /\ f.payload[1] = b
                                THEN Flag(f.payload[2]) ELSE gamepad_buttons[b]
    BY <2>1 DEF TypeOK
  <2>4. QED  BY <1>2, <2>1, <2>2, <2>3
<1>6. CASE DropFrame
  <2>1. PICK f \in Arrived :
          /\ Handled(f)
          /\ ~(DecodesKillswitch(f) /\ publish_remote_control)
          /\ ~(DecodesGamepadButton(f) /\ f.payload[1] \in ButtonIndices)
          /\ UNCHANGED nodeVars
    BY <1>6 DEF DropFrame
  <2>2. QED  BY <1>2, <2>1 DEF nodeVars
<1>7. QED  BY <1>1, <1>3, <1>4, <1>5, <1>6 DEF Next, DispatchFrame

-----------------------------------------------------------------------------
(* The deadman *)

\* Every step leaves rc_teleop_node driving on a deadman joy_state_ holds.
LEMMA DeadmanStep ==
  ASSUME DriveIsDeadman, [Next]_vars
  PROVE  DriveIsDeadman'
<1>1. CASE OperatorNext \/ UNCHANGED vars
  <2>1. UNCHANGED << buttons, driving >>
    BY <1>1 DEF OperatorNext, ChangeButton, SendOther, RepeatControl, Transmit, nodeVars, vars
  <2>2. QED  BY <2>1 DEF DriveIsDeadman
<1>2. CASE TeleopTimeout
  BY <1>2 DEF TeleopTimeout, DriveIsDeadman
<1>3. CASE HandleControl
  BY <1>3 DEF HandleControl, PublishJoy, DriveIsDeadman
<1>4. CASE HandleKillswitch
  BY <1>4 DEF HandleKillswitch, Failsafe, PublishJoy, DriveIsDeadman
<1>5. CASE HandleGamepadButton
  BY <1>5 DEF HandleGamepadButton, Fold, PublishJoy, DriveIsDeadman
<1>6. CASE DropFrame
  BY <1>6 DEF DropFrame, nodeVars, DriveIsDeadman
<1>7. QED  BY <1>1, <1>2, <1>3, <1>4, <1>5, <1>6 DEF Next, DispatchFrame

\* A frame on the link that presses no deadman leaves the release where it is.
LEMMA AppendedHand ==
  ASSUME TypeOK, HandOnLink, NEW f \in Frames, ~IsPress(f, Deadman),
         link' = Append(link, f) \/ link' = link,
         Deadman \notin lost' \cup held' => Deadman \notin lost \cup held,
         buttons' = buttons
  PROVE  HandOnLink'
<1> SUFFICES ASSUME Deadman \notin lost' \cup held'
             PROVE  \/ \E i \in DOMAIN link' : /\ IsRelease(link'[i], Deadman)
                                               /\ \A j \in DOMAIN link' : j > i => ~IsPress(link'[j], Deadman)
                    \/ /\ \A i \in DOMAIN link' : ~IsPress(link'[i], Deadman)
                       /\ buttons'[Deadman] # 1
  BY DEF HandOnLink
<1>1. CASE link' = link
  BY <1>1 DEF HandOnLink
<1>2. CASE link' = Append(link, f)
  <2>1. /\ link \in Seq(Frames) /\ link' \in Seq(Frames) /\ Len(link) \in Nat
        /\ Len(link') = Len(link) + 1 /\ link'[Len(link) + 1] = f
        /\ \A i \in 1..Len(link) : link'[i] = link[i]
    BY <1>2, AppendProperties, LenProperties DEF TypeOK
  <2>2. DOMAIN link = 1..Len(link) /\ DOMAIN link' = 1..(Len(link) + 1)
    BY <2>1, LenProperties
  <2>3. \A i \in DOMAIN link' :
          \/ i = Len(link) + 1
          \/ i \in DOMAIN link /\ i \in DOMAIN link' /\ link'[i] = link[i]
    BY <2>1, <2>2
  <2>4. \A i \in DOMAIN link : i \in DOMAIN link' /\ link'[i] = link[i]
    BY <2>1, <2>2
  <2>5. CASE \E i \in DOMAIN link : /\ IsRelease(link[i], Deadman)
                                    /\ \A j \in DOMAIN link : j > i => ~IsPress(link[j], Deadman)
    <3>1. PICK i \in DOMAIN link : /\ IsRelease(link[i], Deadman)
                                   /\ \A j \in DOMAIN link : j > i => ~IsPress(link[j], Deadman)
      BY <2>5
    <3>2. \A j \in DOMAIN link' : j > i => ~IsPress(link'[j], Deadman)
      BY <2>1, <2>3, <3>1
    <3>3. QED  BY <2>4, <3>1, <3>2
  <2>6. CASE /\ \A i \in DOMAIN link : ~IsPress(link[i], Deadman)
             /\ buttons[Deadman] # 1
    BY <2>1, <2>3, <2>6
  <2>7. QED  BY <2>5, <2>6 DEF HandOnLink
<1>3. QED  BY <1>1, <1>2

\* Every step keeps the release of a deadman that was let go: on the link, or in
\* joy_state_.
LEMMA HandStep ==
  ASSUME TypeOK, JoyFromInputs, JoyFromInputs', HandOnLink, [Next]_vars
  PROVE  HandOnLink'
<1>1. Deadman \in ButtonIndices /\ gamepad_button_count \in Nat
  BY RemoteAssumption DEF ButtonIndices
<1>2. ASSUME NEW b \in ButtonIndices, NEW arrives \in BOOLEAN, ChangeButton(b, arrives)
      PROVE  HandOnLink'
  <2> DEFINE f == GamepadButton(b, IF b \in held THEN 0 ELSE 1)
  <2>1. /\ held' = (IF b \in held THEN held \ {b} ELSE held \cup {b})
        /\ lost' = (IF arrives THEN lost \ {b} ELSE lost \cup {b})
        /\ link' = (IF arrives THEN Append(link, f) ELSE link)
        /\ buttons' = buttons
    BY <1>2 DEF ChangeButton, Transmit, nodeVars
  <2>2. f \in Frames
    <3>1. b \in Fields /\ (IF b \in held THEN 0 ELSE 1) \in Fields
      BY <1>1 DEF ButtonIndices, Fields
    <3>2. QED  BY <3>1, SentAreFrames
  <2>3. f.type = "GAMEPAD_BUTTON" /\ f.payload = << b, IF b \in held THEN 0 ELSE 1 >>
    BY DEF GamepadButton
  <2>4. /\ DecodesGamepadButton(f) /\ f.payload[1] = b
        /\ f.payload[2] = (IF b \in held THEN 0 ELSE 1)
    BY <2>3 DEF DecodesGamepadButton
  <2> HIDE DEF f
  <2>5. CASE b # Deadman
    <3>1. ~IsPress(f, Deadman)
      BY <2>4, <2>5 DEF IsPress
    <3>2. QED  BY <2>1, <2>2, <2>5, <3>1, AppendedHand
  <2>6. CASE b = Deadman /\ (Deadman \notin held \/ ~arrives)
    BY <2>1, <2>6 DEF HandOnLink
  <2>7. CASE b = Deadman /\ Deadman \in held /\ arrives
    <3>1. IsRelease(f, Deadman) /\ link' = Append(link, f)
      BY <2>1, <2>4, <2>7 DEF IsRelease
    <3>2. link' \in Seq(Frames) /\ Len(link') = Len(link) + 1 /\ link'[Len(link) + 1] = f /\ Len(link) \in Nat
      BY <2>2, <3>1, AppendProperties, LenProperties DEF TypeOK
    <3>3. DOMAIN link' = 1..(Len(link) + 1)
      BY <3>2, LenProperties
    <3>4. Len(link) + 1 \in DOMAIN link' /\ \A j \in DOMAIN link' : ~(j > Len(link) + 1)
      BY <3>2, <3>3
    <3>5. QED  BY <3>1, <3>2, <3>4 DEF HandOnLink
  <2>8. QED  BY <2>5, <2>6, <2>7
<1>3. CASE SendOther
  <2>1. PICK f \in { Control(s[1], s[2]) : s \in Sticks } \cup { Killswitch(k) : k \in {0, 1} } \cup OddFrames :
          Transmit(f, TRUE)
    BY <1>3 DEF SendOther
  <2>2. f \in Frames
    <3>1. ASSUME NEW s \in Sticks  PROVE Control(s[1], s[2]) \in Frames
      BY RemoteAssumption, SentAreFrames DEF Fields
    <3>2. ASSUME NEW k \in {0, 1}  PROVE Killswitch(k) \in Frames
      BY SentAreFrames DEF Fields
    <3>3. QED  BY <2>1, <3>1, <3>2, OddAreFrames
  <2>3. ~IsPress(f, Deadman)
    <3>1. CASE f \in { Control(s[1], s[2]) : s \in Sticks }
      BY <3>1 DEF Control, IsPress, DecodesGamepadButton
    <3>2. CASE f \in { Killswitch(k) : k \in {0, 1} }
      BY <3>2 DEF Killswitch, IsPress, DecodesGamepadButton
    <3>3. CASE f \in OddFrames
      <4>1. Len(<< 0 >>) = 1 /\ << gamepad_button_count, 1 >>[1] = gamepad_button_count
        OBVIOUS
      <4>2. Deadman # gamepad_button_count
        BY RemoteAssumption
      <4>3. QED
        BY <3>3, <4>1, <4>2 DEF OddFrames, Killswitch, GamepadButton, IsPress, DecodesGamepadButton
    <3>4. QED  BY <2>1, <3>1, <3>2, <3>3
  <2>4. link' = Append(link, f) /\ UNCHANGED << held, lost, buttons >>
    BY <1>3, <2>1 DEF SendOther, Transmit, nodeVars
  <2>5. QED  BY <2>2, <2>3, <2>4, AppendedHand
<1>4. CASE RepeatControl
  <2>1. PICK i \in DOMAIN handled : handled[i].type = "CONTROL" /\ link' = << handled[i] >>
    BY <1>4 DEF RepeatControl
  <2>2. link = << >> /\ UNCHANGED << held, lost, buttons >>
    BY <1>4 DEF RepeatControl, nodeVars, operatorVars
  <2>3. \A k \in DOMAIN link' : ~IsPress(link'[k], Deadman)
    BY <2>1 DEF IsPress, DecodesGamepadButton
  <2>4. \A k \in DOMAIN link : FALSE
    BY <2>2
  <2>5. QED  BY <2>2, <2>3, <2>4, Zenon DEF HandOnLink
<1>5. CASE DispatchFrame
  <2>1. PICK f \in Arrived : Handled(f)
    BY <1>5, DispatchHandles
  <2>2. UNCHANGED << publish_remote_control, held, lost >>
    BY <2>1 DEF Handled, operatorVars
  <2>3. /\ Len(link) \in Nat \ {0} /\ DOMAIN link = 1..Len(link) /\ f = link[1]
        /\ DOMAIN link' = 1..(Len(link) - 1)
        /\ \A i \in 1..(Len(link) - 1) : link'[i] = link[i + 1]
    BY <2>1, LinkShifts
  <2>4. \A i \in DOMAIN link' : i + 1 \in DOMAIN link /\ link'[i] = link[i + 1]
    BY <2>3
  <2>5. PressStands(Deadman)' <=>
          IsPress(f, Deadman) \/ (PressStands(Deadman) /\ ~IsRelease(f, Deadman) /\ ~IsKill(f))
    BY <2>1, PressAfter
  <2>6. /\ (buttons[Deadman] = 1) = (publish_remote_control /\ PressStands(Deadman))
        /\ (buttons'[Deadman] = 1) = (publish_remote_control /\ PressStands(Deadman)')
    BY <1>1, <2>2 DEF JoyFromInputs
  <2>7. CASE \E i \in DOMAIN link : /\ IsRelease(link[i], Deadman)
                                    /\ \A j \in DOMAIN link : j > i => ~IsPress(link[j], Deadman)
    <3>1. PICK i \in DOMAIN link : /\ IsRelease(link[i], Deadman)
                                   /\ \A j \in DOMAIN link : j > i => ~IsPress(link[j], Deadman)
      BY <2>7
    <3>2. CASE i = 1
      <4>1. IsRelease(f, Deadman) /\ ~IsPress(f, Deadman)
        BY <2>3, <3>1, <3>2, FrameKinds
      <4>2. buttons'[Deadman] # 1
        BY <2>5, <2>6, <4>1
      <4>3. \A k \in DOMAIN link' : ~IsPress(link'[k], Deadman)
        BY <2>3, <2>4, <3>1, <3>2
      <4>4. QED  BY <4>2, <4>3 DEF HandOnLink
    <3>3. CASE i # 1
      <4>1. i - 1 \in DOMAIN link' /\ link'[i - 1] = link[i]
        BY <2>3, <3>1, <3>3
      <4>2. \A k \in DOMAIN link' : k > i - 1 => ~IsPress(link'[k], Deadman)
        BY <2>3, <2>4, <3>1
      <4>3. QED  BY <3>1, <4>1, <4>2 DEF HandOnLink
    <3>4. QED  BY <3>2, <3>3
  <2>8. CASE /\ \A i \in DOMAIN link : ~IsPress(link[i], Deadman)
             /\ buttons[Deadman] # 1
    <3>1. ~IsPress(f, Deadman)
      BY <2>3, <2>8
    <3>2. buttons'[Deadman] # 1
      BY <2>5, <2>6, <2>8, <3>1
    <3>3. \A k \in DOMAIN link' : ~IsPress(link'[k], Deadman)
      BY <2>4, <2>8
    <3>4. QED  BY <3>2, <3>3 DEF HandOnLink
  <2>9. QED  BY <2>2, <2>7, <2>8 DEF HandOnLink
<1>6. CASE TeleopTimeout \/ UNCHANGED vars
  <2>1. UNCHANGED << held, lost, link, buttons >>
    BY <1>6 DEF TeleopTimeout, operatorVars, vars
  <2>2. QED  BY <2>1 DEF HandOnLink
<1>7. QED  BY <1>2, <1>3, <1>4, <1>5, <1>6 DEF Next, OperatorNext

-----------------------------------------------------------------------------
(* Theorems *)

\* The node starts with neutral sticks, all buttons up and nothing on the link
\* (radio_bridge_node.cpp:129-138).
LEMMA IInvInit == Init => IInv
<1> SUFFICES ASSUME Init  PROVE IInv
  OBVIOUS
<1>1. TypeOK
  <2>1. axes \in [AxisIndices -> {0} \cup Speeds(max_linear_speed) \cup Speeds(max_angular_speed)]
    BY DEF Init, Centred
  <2>2. buttons \in [ButtonIndices -> {0, 1}] /\ gamepad_buttons \in [ButtonIndices -> {NotYet, 0, 1}]
    BY DEF Init, AllUp
  <2>3. link \in Seq(Frames) /\ handled \in Seq(Frames)
    BY EmptySeq DEF Init
  <2>4. sent \in 0..MaxSent
    BY RemoteAssumption DEF Init
  <2>5. QED  BY <2>1, <2>2, <2>3, <2>4, Zenon DEF Init, TypeOK
<1>2. handled = << >> /\ link = << >> /\ axes = Centred /\ buttons = AllUp /\ killswitch = NotYet /\ ~driving
  BY DEF Init
<1>3. (\A i \in DOMAIN handled : FALSE) /\ (\A i \in DOMAIN link : FALSE)
  BY <1>2
<1>4. \A b \in ButtonIndices : ~PressStands(b) /\ buttons[b] # 1
  BY <1>2, <1>3 DEF PressStands, AllUp
<1>5. JoyFromInputs
  BY <1>2, <1>3, <1>4, Zenon DEF JoyFromInputs
<1>6. TopicsFromInputs
  BY <1>2, <1>3, Zenon DEF TopicsFromInputs
<1>7. OtherAxesRest
  BY <1>2 DEF OtherAxesRest, Centred
<1>8. Deadman \in ButtonIndices
  BY RemoteAssumption DEF ButtonIndices
<1>9. HandOnLink
  BY <1>3, <1>4, <1>8, Zenon DEF HandOnLink
<1>10. QED  BY <1>1, <1>2, <1>5, <1>6, <1>7, <1>9 DEF IInv, DriveIsDeadman

\* Every step keeps the invariant.
LEMMA IInvStep == IInv /\ [Next]_vars => IInv'
<1> SUFFICES ASSUME IInv, [Next]_vars  PROVE IInv'
  OBVIOUS
<1>1. TypeOK'
  BY TypeStep DEF IInv
<1>2. OtherAxesRest' /\ JoyFromInputs'
  BY JoyStep DEF IInv
<1>3. TopicsFromInputs'
  BY TopicsStep DEF IInv
<1>4. DriveIsDeadman'
  BY DeadmanStep DEF IInv
<1>5. HandOnLink'
  BY <1>2, HandStep DEF IInv
<1>6. QED  BY <1>1, <1>2, <1>3, <1>4, <1>5 DEF IInv

\* The invariant of the remote control.
LEMMA Invariance == Spec => []IInv
BY IInvInit, IInvStep, PTL DEF Spec

\* No axis ever leaves the scaled range of a stick but as NaN, whatever the frames carry
\* (radio_bridge_node.cpp:575-578).
THEOREM TypeCorrect == Spec => []TypeOK
<1>1. IInv => TypeOK
  BY DEF IInv
<1>2. QED  BY <1>1, Invariance, PTL

\* The joystick topic is decided by the inputs since the last kill
\* (radio_bridge_node.cpp:559-660).
THEOREM JoyIsDecided == Spec => []JoyFromInputs
<1>1. IInv => JoyFromInputs
  BY DEF IInv
<1>2. QED  BY <1>1, Invariance, PTL

\* The Bool topics tell the last inputs (radio_bridge_node.cpp:601-608, 640-655).
THEOREM TopicsAreDecided == Spec => []TopicsFromInputs
<1>1. IInv => TopicsFromInputs
  BY DEF IInv
<1>2. QED  BY <1>1, Invariance, PTL

\* The boat is driven only by a hand on the deadman, or one whose release is on its way
\* (radio_bridge_node.cpp:646-659).
THEOREM HandDrives == Spec => []DriveNeedsHand
<1>1. IInv => DriveNeedsHand
  <2> SUFFICES ASSUME IInv, driving, Deadman \notin lost, Deadman \notin held
               PROVE  ReleaseUnderway
    BY DEF DriveNeedsHand
  <2>1. buttons[Deadman] = 1 /\ HandOnLink
    BY DEF IInv, DriveIsDeadman
  <2>2. Deadman \notin lost \cup held
    OBVIOUS
  <2>3. QED  BY <2>1, <2>2, Zenon DEF HandOnLink, ReleaseUnderway
<1>2. QED  BY <1>1, Invariance, PTL
=============================================================================
