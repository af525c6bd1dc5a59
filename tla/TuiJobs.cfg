SPECIFICATION Spec
CONSTANTS
  Keys = {"bringup", "sim"}
  NoKey = "none"
  Groups = {1, 2}
  NoGroup = 0
  Resource <- MCResource
  JobTerm = 3
  JobKill = 1
  ExitTerm = 1
  ExitKill = 1
  ExitTotal = 3
INVARIANTS
  TypeOK
  Exclusive
  RecordCovers
PROPERTIES
  OnlyOwnGroupsSignalled
  ExitKills
  StoppedGroupDies
