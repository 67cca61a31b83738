\* Three points on one line, one of them written, answers up to a pause late.
SPECIFICATION FairSpec
CONSTANTS
  r1 = r1
  s1 = s1
  s2 = s2
  None = None
  PollOrder <- Points
  Parameter <- Parameters
  Layout <- Layouts
  Writable = {s1}
  Value = {0, 1, 2}
  Stored <- Limited
  Tolerance = 1
  Initially <- AtFirst
  MaxAir = 2
INVARIANTS
  TypeOK
  FreshAnswers
  OwnUnlessLeftOver
  WriteConfirmed
PROPERTIES
  CalmLineHeals
