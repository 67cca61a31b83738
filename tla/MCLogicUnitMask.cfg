\* Setpoints 2 and 3 with a band of at most 1 lie inside the measured values
\* 0..5: every position relative to the band occurs.
SPECIFICATION Spec
CONSTANTS
  None = None
  Channel = {0}
  Measured = {0, 1, 2, 3, 4, 5}
  Setpoint = {2, 3}
  Hysteresis <- MCHysteresis
  AlType = {1, 2, 3, 4, 5}
INVARIANTS
  TypeOK
  BandHolds
  InputsDecide
