\* Who owns the ports, and what becomes of a line: polls that crash, adapters
\* that are unplugged, and a stop at any await.  The watchdog acts after two
\* failed cycles and a line is given up after three; in the program after three
\* and five.  The gateway stops for good after Stop: no deadlock to look for.
SPECIFICATION FairSpec
CONSTANTS
  b1 = b1
  b2 = b2
  Bus = {b1, b2}
  BusOrder <- TwoLines
  RetryCount = 2
  ReconnectAt = 2
  GiveUpAt = 3
  CanReset = FALSE
  MaxFaults = 3
  MaxUnplugs = 1
CHECK_DEADLOCK FALSE
INVARIANTS
  TypeOK
  ConnectedIsOwned
  PortsReleased
PROPERTIES
  ConnectingEnds
  SteadyLineIsOk
