SPECIFICATION FairSpec
CONSTANTS
  f1 = f1
  f2 = f2
  p1 = p1
  NoFace = NoFace
  Face = {f1, f2}
  DeviceFace = {f1, f2}
  Packet = {p1}
  PacketSize <- MCSize
  Capacity <- MCCapacity
  NumLevels = 2
  QueueSize = 2
  DeviceLimit = 9
  MaxArrivals = 3
  MaxTime = 1
PROPERTY BacklogDrains
CHECK_DEADLOCK FALSE
