SPECIFICATION FairSpec
CONSTANTS
  None = None
  h1 = h1  h2 = h2
  g1 = g1  g2 = g2
  r1 = r1  r2 = r2  r3 = r3  r4 = r4
  Hosts = {h1}
  Guests = {g1, g2}
  Rooms = {r1, r2, r3, r4}
INVARIANTS
  TypeOK
  SlotsAreHeld
  RoomsAreReclaimed
  OneOfThemKnows
PROPERTY RoleIsFreed
CHECK_DEADLOCK FALSE
