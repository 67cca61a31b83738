\* What README.md says of HR48.
SPECIFICATION FairSpec
CONSTANTS
  rd = rd
  sp = sp
  al = al
  None = None
  Poller = Poller
  Point = {rd, sp, al}
  PollOrder <- ThreePoints
  Published = {rd, sp}
  Writable = {sp}
  Wiring <- FirstChannel
  Value = {0, 1}
  Encodable = {0, 1}
  Stored <- Limited
  Tolerance = 0
  VerifyAttempts = 2
  FaultAfter = 1
  RecoveryCycles = 1
  Target <- Whole
  PanelValue = {}
  MaxWrites = 0
PROPERTIES
  MaskFollowsPolling
