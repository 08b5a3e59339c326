SPECIFICATION FairSpec
CONSTANTS
  Lcores <- Two
  Enabled <- Three
  NicPorts <- Two
  QueueIds <- Two
  QueuesPerLcore = 1
  MaxTuples = 1
  ArraySize = 2
  DefaultRing <- ThreeEach
  DefaultBurst = 2
  PortArgs <- Two
  QueueArgs <- Two
  LcoreArgs <- Three
  Numbers = {0, 2, 65536}
  Flags = {"bw", "bwp", "sts", "calibrate"}
  MaxOptions = 4
  Sockets <- Two
  SocketOf <- TwoNodes
  Present = {0, 1}
  RingSizes = {2, 3}
  MaxCheck = 3
INVARIANTS
  TypeOK
  ConfigTypeOK
  QueueOwned
  ModeHasTable
  SetupForOwner
  AllReady
  LinksPrinted
  NoPanic
PROPERTIES
  Starts
