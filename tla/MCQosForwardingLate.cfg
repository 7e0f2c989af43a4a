SPECIFICATION QosSpec
CONSTANTS
  down = down
  up1 = up1
  up2 = up2
  k1 = k1
  k2 = k2
  n1 = n1
  n2 = n2
  d1 = d1
  Face = {down, up1, up2}
  PointToPoint = {down, up1, up2}
  AdHoc = {}
  Local = {}
  DeviceFace = {down, up1, up2}
  QueueSize = 2
  Nonce = {n1, n2}
  Key = {k1}
  NameOf <- MCNameOf
  MustBeFresh = {}
  Data = {d1}
  Matches <- MCMatches
  StaleData = {}
  Localhost = {}
  Localhop = {}
  Lifetime = {1, 2}
  MaxPackets = 3
  MaxTime = 2
INVARIANT SentBeforeExpiry
SYMMETRY Symmetry
CHECK_DEADLOCK FALSE
