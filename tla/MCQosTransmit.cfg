SPECIFICATION MCSpec
CONSTANTS
  f1 = f1
  f2 = f2
  pi = pi
  pd = pd
  NoFace = NoFace
  Face = {f1, f2}
  DeviceFace = {f1, f2}
  Packet = {pi, pd}
  PacketSize <- MCSize
  Capacity <- MCCapacity
  NumLevels = 2
  QueueSize = 2
  DeviceLimit = 2
  MaxArrivals = 4
  MaxTime = 1
  MaxRefills = 2
INVARIANTS TypeOK TokenConformance WakeupOrStall
PROPERTY ImplementsPolicedLanes
SYMMETRY FaceSymmetry
CHECK_DEADLOCK FALSE
