SPECIFICATION FormSpec
CONSTANTS
  Bookings = {b1, b2}
  Rooms = {r1, r2}
  LastDay = 0
  MaxQuantity = 1
SYMMETRY StaySymmetry
INVARIANT NoRoomPromisedTwice
CHECK_DEADLOCK FALSE
