SPECIFICATION FairSpec
CONSTANTS
  Bookings = {b1, b2}
  LastDay = 0
  Window = 0
  MaxQuantity = 1
  MaxRooms = 2
  HoldTicks = 1
  TicksPerDay = 1
  LastTick = 3
  MaxEdits = 1
PROPERTY HoldsEnd
CHECK_DEADLOCK FALSE
