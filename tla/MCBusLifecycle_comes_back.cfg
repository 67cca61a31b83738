\* README.md:232-233 against the watchdog: an unplugged line never comes back.
\* The gateway stops for good after Stop: there is no deadlock to look for.
SPECIFICATION FairSpec
CONSTANTS
  b1 = b1
  b2 = b2
  Bus = {b1}
  BusOrder <- OneLine
  RetryCount = 2
  ReconnectAt = 3
  GiveUpAt = 5
  CanReset = TRUE
  MaxFaults = 0
  MaxUnplugs = 1
CHECK_DEADLOCK FALSE
PROPERTY
  LineComesBack
