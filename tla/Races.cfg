SPECIFICATION RaceSpec
CONSTANTS
  Bookings = {b1, b2, b3}
  Rooms = {r1, r2}
  LastDay = 0
  MaxQuantity = 1
SYMMETRY RaceSymmetry
INVARIANTS LocksProtectPool
CHECK_DEADLOCK FALSE
