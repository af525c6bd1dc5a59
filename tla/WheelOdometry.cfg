SPECIFICATION Spec
CONSTANTS
  Angle <- MCAngle
  MaxReadings = 3
  MaxPosition = 8192
INVARIANTS
  TypeOK
  OffByWholeTurns
  ExactUnlessSlipped
