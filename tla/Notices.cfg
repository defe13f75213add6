SPECIFICATION FairSpec
CONSTANTS
  Bookings = {b1}
  Requests = {r1, r2, r3}
  Messages = {guest_mail, guest_text}
  Texts = {guest_text}
  MaxRetries = 3
  MaxFaults = 2
INVARIANTS ToldOnce PayoutToldOnce
PROPERTIES ConfirmedIsTold
CHECK_DEADLOCK FALSE
