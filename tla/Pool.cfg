SPECIFICATION MCSpec
CONSTANTS
  Bookings = {b1, b2}
  LastDay = 1
  Window = 0
  MaxQuantity = 2
  MaxRooms = 2
  HoldTicks = 1
  TicksPerDay = 1
  LastTick = 3
  MaxEdits = 1
SYMMETRY BookingSymmetry
INVARIANTS
  CountersMatchBookings
  RevokedHotelHoldsOnlyOvertaken
PROPERTIES
  OnlySellsOpenRooms
  KeepsPromise
CHECK_DEADLOCK FALSE
