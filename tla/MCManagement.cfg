SPECIFICATION MCSpec
CONSTANTS
  MCParts = {"cs", "dnl", "names", "choice", "daemon", "clients", "hub"}
  CsPackets <- MCCsPackets
  CsInterests <- MCCsInterests
  CsLimits = {0, 2, 3}
  CsEraseLimit = 1
  MinCapacity = 3
  InitialCapacity = 4
  MaxCapacity = 12
  ExpectedMarkCount = 3
  EvictLimit = 4
  UpNum = 3
  UpDen = 2
  DownNum = 3
  DownDen = 4
  DnlRates = {0, 1, 3}
  NtCompHash <- MCCompHash
  NtMaxDepth = 2
  NtMinBuckets = 2
  NtExpandNum = 1
  NtExpandDen = 1
  NtShrinkNum = 1
  NtShrinkDen = 4
  NtFaces = {1, 2}
  NtDigest = "digest"
  MeasInitial = 1
  NtDefault <- MCDefault
  NdModules = {"faces", "fib"}
  NdSigners = {"k1", "k2"}
  NdFiles <- MCFiles
  NdMaxEdits = 2
  FmUris = {"udp", "tcp", "unix"}
  FmLocal = {"unix"}
  FmTcp = {"tcp"}
  FmFixed = {"unix"}
  FmClients = {"c", "d"}
  FmScripts <- MCScripts
  FmMaxFaces = 2
  AuMaxMulticast = 3
  AuMaxConnects = 2
INVARIANTS
  CleanupQueueExact
  NameTreeExact
  LookupsAgree
  StrategyInfoIsEffective
  AcceptedByFullConfig
  CommandsHitTheFaceMeant
  NeverAsleep
PROPERTIES
  DnlSettles
  ThreadsEndTogether
CHECK_DEADLOCK FALSE
