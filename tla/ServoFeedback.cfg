SPECIFICATION Spec
CONSTANTS
  N = 2
  Inverted <- MCInverted
  Command <- MCCommand
  ServoTimeout = 1
  ResponseTimeout = 1
  BufferSize = 2
  MaxOwed = 1
  MaxInput = 2
INVARIANTS
  TypeOK
  ReportsAsCommanded
PROPERTIES
  NoPhantomMotion
