SPECIFICATION Spec
CONSTANTS
  None = None
  MaxRecordings = 1
  MaxChunks = 1
  MaxPresses = 0
  MaxTrouble = 1
INVARIANTS
  RecordingIsRecorded
CHECK_DEADLOCK FALSE
