SPECIFICATION RetrySpec
CONSTANTS
  None = None
  t1 = t1  t2 = t2
  Tasks = {t1}
  ChunkCount = 3
  MaxUploads = 5
  MaxTokens = 2
  MaxFaults = 4
INVARIANTS
  DoneIsStored
  ConfirmedIsNotResent
PROPERTY UploadCompletes
CHECK_DEADLOCK FALSE
