SPECIFICATION Spec
CONSTANTS
  N = 2
  Speed <- MCSpeed
INVARIANTS
  TypeOK
  HaltedUnlessActive
  SweptWheelsAreSafe
  TransactionOwnsBus
  ThreadJoinedBeforeReuse
PROPERTIES
  TorqueOnAtRest
  ImplementsInterlock
  StopCompletes
  WriteCompletes
