SPECIFICATION Spec
CONSTANTS
  r = r
  t = t
  u = u
  VLAN_OFFSET = 0
  WordBase = 4
  tspacketId = 2
  doChecksum = FALSE
  autoIncNum = TRUE
  Lcores = {r, t, u}
  RxLcore = r
  TxQueues <- TwoTx
  TrainLen = 2
  TxRing = 2
  RxRing = 2
  BurstRx = 2
  PoolSize = 6
  WaitTime = 2
  ReportTime = 0
  BurstTx = 2
  FillFirst = FALSE
  CounterBase = 16
  MaxDelivered = 1
  MaxMarks = 3
INVARIANT ConsecutiveNumbers
