SPECIFICATION Spec
CONSTANTS
  N = 1
  MaxPosition = 1
  NoFile = NoFile
  NoGoal <- MCNoGoal
INVARIANTS
  TypeOK
PROPERTIES
  FollowsSafely
  TrippedUntilAsked
