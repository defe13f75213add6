SPECIFICATION MCSpec
CONSTANTS
  Bookings = {b1, b2}
  LastDay = 1
  Window = 0
  MaxQuantity = 1
  MaxRooms = 1
  HoldTicks = 1
  TicksPerDay = 1
  LastTick = 2
  MaxEdits = 1
  MaxSwitches = 2
SYMMETRY BookingSymmetry
INVARIANTS
  CountersFollowMode
PROPERTIES
  UnsetAllotmentSellsNothing
  NoShowsNeverCame
  KeepsOutline
CHECK_DEADLOCK FALSE
