SPECIFICATION Spec
CONSTANTS
  None = None
  t1 = t1  t2 = t2
  Tasks = {t1, t2}
  ChunkCount = 1
  MaxUploads = 2
  MaxTokens = 2
  MaxFaults = 1
SYMMETRY TaskSymmetry
INVARIANTS
  TypeOK
  UploadedWasFinal
CHECK_DEADLOCK FALSE
