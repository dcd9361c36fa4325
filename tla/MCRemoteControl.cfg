\* Two buttons, the mode button 0 and the deadman 1; three axes; four frames sent.
CONSTANTS
  gamepad_button_count = 2
  joy_axis_count = 3
  joy_surge_axis = 1
  joy_yaw_axis = 2
  max_linear_speed = 1
  max_angular_speed = 2
  FullStick = 2
  Sticks <- MCSticks
  NaN = NaN
  Deadman = 1
  MaxLink = 2
  MaxSent = 4

SPECIFICATION FairSpec

INVARIANTS
  TypeOK
  JoyFromInputs
  TopicsFromInputs
  DriveNeedsHand

PROPERTY HandsOffStops

CHECK_DEADLOCK FALSE
