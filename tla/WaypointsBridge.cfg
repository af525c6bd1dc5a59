SPECIFICATION Spec
CONSTANTS
  MaxRuns = 2
  ActivityTimeout = 2
INVARIANTS
  TypeOK
  NoUntrackedGoal
PROPERTIES
  ActiveWhenHeard
  ImplementsGoalControl
  UnwantedGoalStops
  LostGoalFades
