SPECIFICATION PatientSpec
CONSTANTS
  None = None
  a = a  b = b
  Recordings = {a, b}
  MaxUploads = 2
  MaxPresses = 2
  MaxFaults = 1
INVARIANTS
  TypeOK
  SettledShowsTheCandidate
PROPERTY ReadyIsSeen
