\* What README.md says of a physically broken line.
SPECIFICATION FairSpec
CONSTANTS
  b1 = b1
  b2 = b2
  d1 = d1
  d2 = d2
  d3 = d3
  p1 = p1
  p2 = p2
  p3 = p3
  NoTask = NoTask
  Bus = {b1, b2}
  Device = {d1, d2}
  Point = {p1, p2}
  DevicesOf <- TwoDevices
  PointsOf <- TwoDevicesPoints
  Writable = {}
  LinkStates <- GoodOrDead
  FaultAfter = 1
  RecoveryCycles = 1
  CounterRange = 1
PROPERTIES
  BrokenLineShowsDisconnected
