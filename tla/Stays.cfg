SPECIFICATION MCSpec
CONSTANTS
  Bookings = {b1, b2}
  Rooms = {r1, r2}
  LastDay = 1
  MaxQuantity = 2
SYMMETRY BoardSymmetry
INVARIANTS
  NoRoomPromisedTwice
  GuestsHaveTheirRooms
  RoomsWithinBooking
  ReservedRoomsUsable
  ViewsAgree
  BoardTellsStays
  HistoryTellsStatus
  TotalsMatchRecords
CHECK_DEADLOCK FALSE
