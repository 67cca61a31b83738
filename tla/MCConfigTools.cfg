\* Edits of configuration documents against the loader and the map.  Two
\* devices fill a line, instead of 32.  With the first and the last channel of
\* a device at 96 its other end is 103, the base of another device: sparse
\* devices drift onto it, and four edits are enough to get there on two lines
\* and to repair a document afterwards.  Unsound serial parameters are what the
\* second "set-line" of cli.py stores for options that were not given.  The tools stop when the bound on the
\* number of edits is reached: no deadlock check.
SPECIFICATION Spec
CONSTANTS
  None = None
  MaxBuses = 2
  MaxDevices = 2
  StartDocs <- AllDocs
  Channel = {1, 8}
  Base = {96, 103}
  SoundInputs = {TRUE, FALSE}
  MaxEdits = 4
  MaxHandEdits = 1
CHECK_DEADLOCK FALSE
INVARIANTS
  TypeOK
  ToolDocumentsLoad
  MapIsCurrent
  MapTellsRegisters
  OneWriterPerRegister
  WritesFitBlocks
PROPERTIES
  DevicesKeepIdentity
  DoublesOnlyBySetChannels
