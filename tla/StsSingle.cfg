SPECIFICATION FairSpec
CONSTANTS
  r = r
  t = t
  u = u
  VLAN_OFFSET = 0
  WordBase = 4
  tspacketId = 2
  doChecksum = FALSE
  autoIncNum = TRUE
  Lcores = {r, t}
  RxLcore = r
  TxQueues <- PairTx
  TrainLen = 3
  TxRing = 2
  RxRing = 2
  BurstRx = 2
  PoolSize = 3
  WaitTime = 3
  ReportTime = 1
  BurstTx = 2
  FillFirst = TRUE
  CounterBase = 8
  MaxDelivered = 9
  MaxMarks = 5
INVARIANT TypeOK
INVARIANT NeverStarves
INVARIANT ConsecutiveNumbers
INVARIANT RowIsPacket
INVARIANT BytesAccounted
INVARIANT ReportIsComplete
PROPERTY MeasurementSpec
