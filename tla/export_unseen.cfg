SPECIFICATION PatientSpec
CONSTANTS
  None = None
  a = a  b = b
  Recordings = {a, b}
  MaxUploads = 1
  MaxPresses = 1
  MaxFaults = 0
PROPERTY UploadedIsOffered
