SPECIFICATION PatientSpec
CONSTANTS
  None = None
  p1 = p1  p2 = p2
  this = this  other = other
  Posts = {p1, p2}
  Requests = {this, other}
  OfUpload = {this}
  Chunks = {0, 1}
  Agreed = {0}
  MaxTime = 1
  MaxAttempts = 5
  MaxFaults = 1
INVARIANTS
  TypeOK
  ReadyIsDownloadable
  ValidatedSourceIsStored
PROPERTIES
  UploadedIsExported
  ImplementsPromise
CHECK_DEADLOCK FALSE
