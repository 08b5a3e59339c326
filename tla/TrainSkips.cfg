SPECIFICATION Spec
CONSTANTS
  r = r
  t = t
  u = u
  VLAN_OFFSET = 0
  WordBase = 4
  tspacketId = 2
  doChecksum = FALSE
  autoIncNum = FALSE
  Lcores = {r, t, u}
  RxLcore = r
  TxQueues <- TwoTx
  TrainLen = 2
  TxRing = 2
  RxRing = 3
  BurstRx = 2
  PoolSize = 4
  WaitTime = 3
  ReportTime = 1
  MaxStray = 0
  ArpForwarded = FALSE
INVARIANT StopsWhenFull
