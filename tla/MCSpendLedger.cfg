SPECIFICATION Spec
CONSTANTS
  d1 = d1
  d2 = d2
  c1 = c1
  c2 = c2
  c3 = c3
  part = part
  Devices = {d1, d2}
  Calls = {c1, c2, c3}
  Scoped = {c1, c2}
  Part <- OnePart
  On <- Device
  Hold <- HoldOf
  Reported = {1}
  Limit = 4
  Pause = 3
  RefusedLimit = 1
  MaxMishaps = 1
INVARIANTS
  TypeOK
  NeverUnderCounts
  WithinLimit
  RefusedIsHeldBack
PROPERTIES
  ReservationEnds
CHECK_DEADLOCK FALSE
