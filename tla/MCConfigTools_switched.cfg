\* A device is added and one of its channels switched: two edits of a document
\* that has a line.  The tools stop when the bound on the number of edits is
\* reached: no deadlock check.
SPECIFICATION Spec
CONSTANTS
  None = None
  MaxBuses = 2
  MaxDevices = 2
  StartDocs <- OldDocs
  Channel = {1, 8}
  Base = {96, 103}
  SoundInputs = {TRUE}
  MaxEdits = 2
  MaxHandEdits = 1
CHECK_DEADLOCK FALSE
INVARIANT
  SwitchedChannelsLoad
