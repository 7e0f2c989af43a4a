SPECIFICATION MCSpec
CONSTANTS
  MCParts = {"one", "many"}
  app = app
  net = net
  radio = radio
  k0 = k0
  k1 = k1
  k2 = k2
  n1 = n1
  n2 = n2
  d0 = d0
  d1 = d1
  dl = dl
  Face = {app, net, radio}
  PointToPoint = {app, net}
  AdHoc = {radio}
  Local = {app}
  Nonce = {n1, n2}
  Key = {k0, k1, k2}
  NameOf <- MCNameOf
  MustBeFresh = {k0, k2}
  Data = {d0, d1, dl}
  Matches <- MCMatches
  StaleData = {d0, d1}
  Localhost = {dl}
  Localhop = {k1}
  Lifetime = {1, 2}
  MaxPackets = 3
  MaxTime = 2
INVARIANTS NoForwardingLoop FlowBalance TimerCoversDownstreams
SYMMETRY NonceSymmetry
CHECK_DEADLOCK FALSE
