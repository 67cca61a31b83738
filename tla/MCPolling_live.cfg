\* One line with two devices, the first of two points, so that a device can be
\* partly failed: a device becomes good, silent or garbled when it likes, and in
\* the end stays as it is.
SPECIFICATION FairSpec
CONSTANTS
  b1 = b1
  b2 = b2
  d1 = d1
  d2 = d2
  d3 = d3
  p1 = p1
  p2 = p2
  p3 = p3
  NoTask = NoTask
  Bus = {b1}
  Device = {d1, d2}
  Point = {p1, p2, p3}
  DevicesOf <- OneLine
  PointsOf <- OneLinePoints
  Writable = {p1}
  LinkStates <- GoodSilentGarbled
  FaultAfter = 2
  RecoveryCycles = 2
  CounterRange = 1
INVARIANTS
  DeviceShowsPoints
PROPERTIES
  ErrorExplainsStatus
  GoodDeviceIsOk
  SilentDeviceIsOffline
  GarbledDeviceIsNotOk
  DisconnectedLineIsShown
