SPECIFICATION QosFairSpec
CONSTANTS
  down = down
  up1 = up1
  up2 = up2
  k1 = k1
  k2 = k2
  n1 = n1
  n2 = n2
  d1 = d1
  Face = {down, up1}
  PointToPoint = {down, up1}
  AdHoc = {}
  Local = {}
  DeviceFace = {down, up1}
  QueueSize = 2
  Nonce = {n1, n2}
  Key = {k1, k2}
  NameOf <- MCNameOf
  MustBeFresh = {}
  Data = {d1}
  Matches <- MCMatches
  StaleData = {}
  Localhost = {}
  Localhop = {}
  Lifetime = {1}
  MaxPackets = 4
  MaxTime = 1
INVARIANTS  SurplusDataIsRepeated
PROPERTY PitDrains
CHECK_DEADLOCK FALSE
