SPECIFICATION Spec
CONSTANTS
  MaxConnects = 3
  MaxStarts = 2
  MaxCandidates = 1
  MaxTrouble = 1
  Previewing = {"host", "guest"}
  Gathering = {"host", "guest"}
INVARIANTS
  TypeOK
  OpenSocketIsHeld
  NoCandidateIsLost
  GoneHasNoCall
  OfferIsAnswered
CHECK_DEADLOCK FALSE
