SPECIFICATION Spec
CONSTANTS
  A = A
  B = B
  written = written
  drawn = drawn
  dropped = dropped
  c1 = c1
  c2 = c2
  None = None
  Versions = {A, B}
  Route <- MCRoute
  Outcomes = {written, drawn, dropped}
  States <- MCStates
  Calls = {c1, c2}
  First = A
  MaxEdits = 2
  MaxDeliveries = 3
  MaxMishaps = 1
  MaxMoves = 4
INVARIANTS
  TypeOK
  FullIsKept
  StaleIsRetired
  TrustIsFresh
PROPERTIES
  StaysFull
SYMMETRY Symmetry
CHECK_DEADLOCK FALSE
