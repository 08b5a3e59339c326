SPECIFICATION FairSpec
CONSTANTS
  r = r
  t = t
  u = u
  VLAN_OFFSET = 0
  WordBase = 4
  tspacketId = 2
  doChecksum = FALSE
  autoIncNum = FALSE
  Lcores = {r, t}
  RxLcore = r
  TxQueues <- MixedTx
  TrainLen = 2
  TxRing = 1
  RxRing = 2
  BurstRx = 2
  PoolSize = 2
  WaitTime = 2
  ReportTime = 0
  MaxStray = 0
  ArpForwarded = TRUE
INVARIANTS
  MbufsConserved
  ReportIsComplete
PROPERTIES
  MeasurementSpec
