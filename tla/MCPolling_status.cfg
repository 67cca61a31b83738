\* Status: two devices on the first line, so that a line can be partly failed,
\* and one on the second; the lines connected or not.  A point fails after two
\* failures and skips two cycles; the counters are switched off.
SPECIFICATION Spec
CONSTANTS
  b1 = b1
  b2 = b2
  d1 = d1
  d2 = d2
  d3 = d3
  p1 = p1
  p2 = p2
  p3 = p3
  NoTask = NoTask
  Bus = {b1, b2}
  Device = {d1, d2, d3}
  Point = {p1, p2, p3}
  DevicesOf <- ThreeDevices
  PointsOf <- ThreeDevicesPoints
  Writable = {p1}
  LinkStates <- AnyOutcome
  FaultAfter = 2
  RecoveryCycles = 3
  CounterRange = 1
INVARIANTS
  TypeOK
  ReducedPolling
  ChannelShowsPoint
  LineAgreesWithDevices
  ServiceAgreesWithLines
