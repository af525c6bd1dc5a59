SPECIFICATION Spec
CONSTANTS
  Joystick = Joystick
  Others = {web_ui}
  Nobody = Nobody
  Timeout = 3
  Period = 2
  Depth = 2
  Stall = 1
  MuxTimeout = 10
  CmdTimeout = 10
INVARIANTS
  TypeOK
  StopsInTime
  GivesWay
