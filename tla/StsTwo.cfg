SPECIFICATION Spec
CONSTANTS
  r = r
  t = t
  u = u
  VLAN_OFFSET = 0
  WordBase = 4
  tspacketId = 2
  doChecksum = FALSE
  autoIncNum = TRUE
  Lcores = {r, t, u}
  RxLcore = r
  TxQueues <- TwoTx
  TrainLen = 1
  TxRing = 2
  RxRing = 1
  BurstRx = 1
  PoolSize = 7
  WaitTime = 0
  ReportTime = 1
  BurstTx = 2
  FillFirst = TRUE
  CounterBase = 4
  MaxDelivered = 1
  MaxMarks = 1
INVARIANT NeverStarves
