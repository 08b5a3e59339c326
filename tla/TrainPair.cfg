SPECIFICATION FairSpec
CONSTANTS
  r = r
  t = t
  u = u
  VLAN_OFFSET = 0
  WordBase = 4
  tspacketId = 2
  doChecksum = FALSE
  autoIncNum = FALSE
  Lcores = {r, t}
  RxLcore = r
  TxQueues <- PairTx
  TrainLen = 4
  TxRing = 3
  RxRing = 3
  BurstRx = 2
  PoolSize = 3
  WaitTime = 3
  ReportTime = 1
  MaxStray = 2
  ArpForwarded = TRUE
INVARIANTS
  TypeOK
  SlotNeverAhead
  ReportIsComplete
PROPERTIES
  MeasurementSpec
