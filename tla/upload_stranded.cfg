SPECIFICATION PatientSpec
CONSTANTS
  None = None
  t1 = t1  t2 = t2
  Tasks = {t1}
  ChunkCount = 1
  MaxUploads = 2
  MaxTokens = 2
  MaxFaults = 1
PROPERTY UploadResumes
CHECK_DEADLOCK FALSE
