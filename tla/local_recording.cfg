SPECIFICATION Spec
CONSTANTS
  None = None
  MaxRecordings = 2
  MaxChunks = 2
  MaxPresses = 2
  MaxTrouble = 1
CONSTRAINT Followed
INVARIANTS
  TypeOK
  ListedChunksAreStored
  SettledIsSaved
  SettledShowsTheStore
  HealthyIsWhole
  PlaybackIsWhole
  RecoveredIsStored
  NoOrphanCamera
  StoppedIsShown
PROPERTIES
  SavedManifestAdvances
CHECK_DEADLOCK FALSE
