SPECIFICATION Spec
CONSTANTS
  VLAN_OFFSET = 0
  WordBase = 4
  tspacketId = 2
  doChecksum = FALSE
  autoIncNum = TRUE
  Templates <- MCTemplates
  Times <- MCTimes
  MaxCounter = 5
CHECK_DEADLOCK FALSE
INVARIANT MarkSurvives
INVARIANT TimeSurvives
INVARIANT CounterSurvives
