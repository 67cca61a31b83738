\* Two writes of a setpoint, or of part of its registers, race with the poll and
\* with the panel for the line; failed points skip a cycle, and a readback that
\* fails is tried twice.
SPECIFICATION FairSpec
CONSTANTS
  rd = rd
  sp = sp
  al = al
  None = None
  Poller = Poller
  Point = {sp}
  PollOrder <- OnePoint
  Published = {sp}
  Writable = {sp}
  Wiring <- NoWiring
  Value = {0, 1}
  Encodable = {0, 1}
  Stored <- Limited
  Tolerance = 0
  VerifyAttempts = 2
  FaultAfter = 1
  RecoveryCycles = 2
  Target <- WholeOrPart
  PanelValue = {0}
  MaxWrites = 2
INVARIANTS
  TypeOK
  VerifySeesOwnWrite
  LastWriterWins
PROPERTIES
  Implements
  WriteResolved
  RegistersConverge
