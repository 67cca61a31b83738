\* Telemetry: counters of two values wrap; a point fails at once and is
\* polled in every cycle.
SPECIFICATION Spec
CONSTANTS
  b1 = b1
  b2 = b2
  d1 = d1
  d2 = d2
  d3 = d3
  p1 = p1
  p2 = p2
  p3 = p3
  NoTask = NoTask
  Bus = {b1, b2}
  Device = {d1, d2}
  Point = {p1, p2}
  DevicesOf <- TwoDevices
  PointsOf <- TwoDevicesPoints
  Writable = {}
  LinkStates <- Counted
  FaultAfter = 1
  RecoveryCycles = 1
  CounterRange = 2
INVARIANTS
  CounterSums
  QuietTelemetry
