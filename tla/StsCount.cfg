SPECIFICATION FairSpec
CONSTANTS
  r = r
  t = t
  u = u
  VLAN_OFFSET = 0
  WordBase = 4
  tspacketId = 2
  doChecksum = FALSE
  autoIncNum = FALSE
  Lcores = {r}
  RxLcore = r
  TxQueues <- SharedTx
  TrainLen = 1
  TxRing = 2
  RxRing = 2
  BurstRx = 2
  PoolSize = 3
  WaitTime = 2
  ReportTime = 0
  BurstTx = 2
  FillFirst = TRUE
  CounterBase = 16
  MaxDelivered = 3
  MaxMarks = 2
INVARIANT MbufsConserved
INVARIANT OverrunBounded
PROPERTY EndsWhenOver
