\* The windows of statistics of a receiver and of a transmitter of one port.
SPECIFICATION FairSpec
CONSTANTS
  r = r
  t = t
  Lcores = {r, t}
  RxQueues <- OneRx
  TxQueues <- BothTx
  Ports = {0}
  RxStats = 2
  TxStats = 2
  ArpEvery = 1
  Limit = 2
  BurstTx = 2
  BurstRx = 1
  TxRing = 2
  RxRing = 1
  PoolSize = 3
  MaxCount = 2
INVARIANTS
  MbufsConserved
  NeverOverstated
  WindowLength
PROPERTIES
  EverybodySleeps
  WindowsKeepComing
