SPECIFICATION FairSpec
CONSTANTS
  c1 = c1  c2 = c2  t1 = t1  t2 = t2
  Workers = {w1, w2}
  CoreRooms = {c1, c2}
  Numbers = {101, 102}
  Types = {t1, t2}
  TypeOf <- MCTypeOf
  FirstRooms <- MCFirstRooms
  MaxChanges = 2
  MaxRenumberings = 1
  MaxFailures = 1
  MaxSyncs = 1
  MaxChoices = 1
INVARIANTS AppliedOnce RoomsMirrorOneVersion
PROPERTIES ChoicesStayWithTheDoor EventsGetThrough
CHECK_DEADLOCK FALSE
