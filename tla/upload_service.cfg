SPECIFICATION Spec
CONSTANTS
  None = None
  h1 = h1  h2 = h2
  s0 = s0  s1 = s1  t0 = t0
  Handlers = {h1, h2}
  Chunks = {0, 1}
  TotalBytes = 3
  Offers <- AllOffers
SYMMETRY HandlerSymmetry
INVARIANTS
  TypeOK
  ManifestIsBacked
  AcceptedIsDurable
  FinalizedIsWhole
  CountersExactUnlessRejected
  PutNeverRejects
PROPERTY ImplementsPromise
