CONSTANTS
  MCParts = {"learn"}
  SgLocal = {"d1"}
  SgLifetime = 6
  RetxInitial = 1
  RetxMax = 2
  RtHops <- MCThree
  RtDownstreams = {"d1", "d2"}
  RtMaxInterests = 4
  RtMaxTime = 6
  NxNodes = {"A", "B"}
  NxSuppresses = FALSE
  AcHops = {"u1", "u2", "d2"}
  AcDownstreams = {"d1", "d2"}
  AcRtos = {1, 3}
  AcMinRetx = 2
  AcMaxInterests = 3
  AcMaxTime = 5
  NcHops <- MCTwo
  NcDownstreams = {"d1", "d2"}
  NcDeferFirst = 1
  NcInitial = 2
  NcMin = 1
  NcMax = 3
  NcUpShift = 1
  NcDownShift = 1
  NcMaxInterests = 3
  NcMaxTime = 6
  AsHops <- MCTwo
  AsDownstreams = {"d1"}
  AsNames = {"n1", "n2"}
  AsRtos = {1}
  AsMaxSilentTimeouts = 0
  AsProbingInterval = 2
  AsFirstProbe = {0}
  AsMaxInterests = 3
  AsMaxTime = 4
  SlRemote = {"d2", "u1", "u2"}
  SlStatic = {"u1", "u2"}
  SlMaxInterests = 2
  SlMaxNacks = 1
  QsHops <- MCTwo
  QsDownstreams = {"d1"}
  QsFlow <- MCFlow
  QsReqs <- MCReqs
  QsRoom = 1
  QsBootstrap = 1
  QsWindow = 3
  QsMonitors <- MCMonitors
  QsMaxInterests = 3
  QsMaxTime = 2
SPECIFICATION MCSpec
PROPERTY EntryOutlivesLookup
CHECK_DEADLOCK FALSE
