SPECIFICATION Spec
CONSTANTS
  VLAN_OFFSET = 4
  WordBase = 4
  tspacketId = 2
  doChecksum = FALSE
  autoIncNum = FALSE
  Templates <- MCTemplates
  Times <- MCTimes
  MaxCounter = 5
CHECK_DEADLOCK FALSE
INVARIANT MarkSurvives
