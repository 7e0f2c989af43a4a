SPECIFICATION MCSpec
CONSTANTS
  LinkEnds = {"A", "B"}
  LinkPackets <- MCLinkPackets
  NetPktSize <- MCNetPktSize
  LinkInterests = {1, 3}
  LinkCapacity = 2
  FirstTxSeq = 6
  TxSeqMod = 8
  MaxDuplicates = 1
  MaxOptionChanges = 2
  MaxRetx = 1
  SeqNumLossThreshold = 1
  LinkMtu = 13
  AckSize = 2
  TxSeqSize = 2
  MarkReserve = 2
  MarkSize = 1
  MaxSingleFragOverhead = 3
  MaxFragOverhead = 5
  WholeOverhead = 2
  LpHeaderSize = 1
  NMaxFragments = 3
  CgInterval = 4
  CgThreshold = 3
  CgCapacities <- MCCapacities
  CgLengths <- MCLengths
  CgMaxTime = 12
  CgMaxMarks = 8
  LpNodes = 2
  LpAppFields <- MCAppFields
  StMaxSends = 2
  StMaxChanges = 1
  StPersistencies = {"permanent", "persistent"}
  ChPeers = {"p", "q"}
  ChRequests = {1, 2}
  ChIdleTimeout = 1
  ChMaxFaces = 2
  ChMaxQueue = 1
  ChMaxFailures = 1
  FsNetifs = {"eth", "lo"}
  FsLoopback = {"lo"}
  FsConfigs <- MCConfigs
  FsMaxEvents = 3
INVARIANTS
  FatesAreTrue
  MarksOnSchedule
  
  
  ChannelAndTableAgree
PROPERTIES
  FatesAreDecided
  RequestsAreAnswered
  NetworkChangeFollowed
CHECK_DEADLOCK FALSE
