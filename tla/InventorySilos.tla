--------------------------- MODULE InventorySilos ---------------------------
(***************************************************************************)
(* The two inventories of a hotel over one table of DailyInventory rows.   *)
(* PHYSICAL_ROOM sells the rooms of the house to OTA and desk alike;       *)
(* ROOM_TYPE_COUNT sells an allotment to the OTA alone.  A booking keeps   *)
(* the mode it was made in, and only the bookings of the hotel's mode have *)
(* their rooms counted.  BookingInventory is the pool of one mode; this    *)
(* module adds the switch between them, the correction of a reservation,   *)
(* the no-show job, and a booking request that read the hotel before a     *)
(* switch and places its booking after it.                                 *)
(***************************************************************************)
EXTENDS BookingInventory

CONSTANT MaxSwitches   \* bound on mode switches

ASSUME SwitchesAssumption == MaxSwitches \in Nat

VARIABLES
  configured,  \* RoomType.room_type_count_configured
  asked,       \* the mode an OTA request has read and not used yet
  no_shows,    \* bookings the no-show job has read and not worked through yet
  switches,    \* mode switches made so far
  settled,     \* dates whose counters the last rebuild covered
  strayed      \* whether bookings of the other mode may have moved counters since

siloVars == <<vars, configured, asked, no_shows, switches, settled, strayed>>

Nobody == "NOBODY"
jobVars == <<asked, no_shows>>
history == <<switches, settled, strayed>>

\* The operators of the pool as they are under `mode` with an allotment of
\* `count`: a switch rebuilds the rows under what it has just saved.
Under(mode, count) ==
  INSTANCE BookingInventory WITH inventory_mode <- mode, count_inventory <- count

\* Seeded fault: an allotment nobody has set is taken from what is there.
CountKept(mode) == count_inventory

\* A hotel that never set its allotment starts count mode with none.
CountAfter(mode) ==
  IF mode = "ROOM_TYPE_COUNT" /\ ~configured THEN 0 ELSE count_inventory

\* Seeded fault: a switch brings the totals of the rows up to date, and leaves
\* their counters to the bookings.
RebuiltTotals(mode, count) ==
  [d \in Days |->
     IF d \in InThisWindow
     THEN Under(mode, count)!Ensured(rows[d], Under(mode, count)!BaseTotal(d), rooms_to_close[d])
     ELSE rows[d]]

\* What a switch does to the rows: closures are lifted from today on when
\* physical rooms come back, and the window is rebuilt.
Rebuilt(mode, count) ==
  LET Opened(d) == IF mode = "PHYSICAL_ROOM" /\ d >= Today
                   THEN [rows[d] EXCEPT !.closed_rooms = 0] ELSE rows[d]
  IN  [d \in Days |->
         IF d \in InThisWindow
         THEN Under(mode, count)!Reconciled(Opened(d), d, booking)
         ELSE Opened(d)]

\* OTARoomSelectionView.patch.  It neither locks the hotel nor waits for
\* requests under way, and passes over a room type that is switched off.
SwitchMode ==
  \E mode \in Modes \ {inventory_mode} :
    LET count == IF selling THEN CountAfter(mode) ELSE count_inventory
    IN  /\ access # "REVOKED"
        /\ switches < MaxSwitches
        /\ inventory_mode' = mode
        /\ count_inventory' = count
        /\ rows' = IF selling THEN Rebuilt(mode, count) ELSE rows
        /\ default_inventory' = IF selling THEN Under(mode, count)!EnsuredDefault(active_rooms, count)
                                 ELSE default_inventory
        /\ switches' = switches + 1
        /\ settled' = IF selling THEN InThisWindow ELSE settled
        /\ strayed' = ~selling
        /\ UNCHANGED <<booking, access, overtaken, roomVars, rooms_to_close, now, edits,
                       configured, jobVars>>

\* create_booking from the public site, as far as reading the hotel.
AskForBooking ==
  /\ asked = Nobody
  /\ selling
  /\ asked' = inventory_mode
  /\ UNCHANGED <<vars, configured, no_shows, history>>

\* The rest of create_booking.  The booking is of the mode that was read and its
\* rooms are charged as in that mode; only the rebuild reads the hotel again.
BookAsAsked(b, check_in, check_out) ==
  LET new == [NewBooking("OTA", check_in, check_out, 1, "PENDING_PAYMENT", FALSE)
                EXCEPT !.inventory_mode = asked]
      rebuild == asked = "ROOM_TYPE_COUNT"
      Open(d) == IF rebuild THEN Reconciled(rows[d], d, booking) ELSE Locked(rows[d])
  IN  /\ asked # Nobody
      /\ check_in < check_out
      /\ now + HoldTicks < LastTick     \* bound: the clock can pass this hold
      /\ booking[b].status = "NOT_CREATED"
      /\ \A d \in Nights(new) : AvailableRooms(Open(d)) >= 1
      /\ booking' = [booking EXCEPT ![b] = new]
      /\ rows' = [d \in Days |-> IF d \in Nights(new) THEN Took(Open(d), new.status, 1)
                                 ELSE rows[d]]
      /\ default_inventory' = IF rebuild THEN EnsuredDefault(active_rooms, count_inventory)
                               ELSE default_inventory
      /\ asked' = Nobody
      /\ strayed' = (strayed \/ asked # inventory_mode)
      /\ UNCHANGED <<hotelVars, roomVars, count_inventory, rooms_to_close, now, edits,
                     configured, no_shows, switches, settled>>

\* Seeded fault: the corrected stay is charged and the old one never given back.
CorrectKeepingOldNights(b, check_in, check_out) ==
  LET shared == UsesSharedDailyInventory(booking[b].source, booking[b].inventory_mode)
      corrected == [booking[b] EXCEPT !.check_in = check_in, !.check_out = check_out]
  IN  /\ booking[b].status \in {"PENDING_PAYMENT", "CONFIRMED"}
      /\ check_in < check_out
      /\ booking' = [booking EXCEPT ![b] = corrected]
      /\ rows' = [d \in Days |-> IF shared /\ d \in Nights(corrected)
                                 THEN Took(rows[d], corrected.status, corrected.quantity)
                                 ELSE rows[d]]
      /\ UNCHANGED <<bookingOnly, configured, jobVars, history>>

\* BookingViewSet.get_queryset: the desk works on its own bookings, and on the
\* OTA's while the hotel is in their mode.
Listed(b) == booking[b].source = "PMS" \/ booking[b].inventory_mode = inventory_mode

\* update_reservation_for_check_in: the old stay is given back if it counted, and
\* a replacement booked, whose stay and rooms the booking takes over.  Stays of
\* the physical-room inventory alone can be corrected.
CorrectReservation(b, check_in, check_out) ==
  LET old == booking[b]
      corrected == [old EXCEPT !.check_in = check_in, !.check_out = check_out]
      shared == UsesSharedDailyInventory(old.source, old.inventory_mode)
      Open(d) == IF shared THEN Locked(Released({b})[d]) ELSE rows[d]
  IN  /\ selling
      /\ Listed(b)
      /\ old.status \in {"PENDING_PAYMENT", "CONFIRMED"}
      /\ old.inventory_mode = "PHYSICAL_ROOM"
      /\ check_in < check_out
      /\ CanRelease({b})
      /\ shared => \A d \in Nights(corrected) : AvailableRooms(Open(d)) >= old.quantity
      /\ booking' = [booking EXCEPT ![b] = corrected]
      /\ rows' = [d \in Days |->
                    IF d \in Nights(corrected)
                    THEN Took(Open(d), old.status, IF shared THEN old.quantity ELSE 0)
                    ELSE Released({b})[d]]
      /\ UNCHANGED <<bookingOnly, configured, jobVars, history>>

\* auto_cancel_no_show_reservations reads its candidates.
FindNoShows ==
  /\ no_shows = {}
  /\ no_shows' = {b \in Bookings : /\ booking[b].status = "CONFIRMED"
                                   /\ booking[b].inventory_mode = "PHYSICAL_ROOM"
                                   /\ booking[b].check_in < Today}
  /\ UNCHANGED <<vars, configured, asked, history>>

\* Seeded fault: what was read is canceled, whatever has become of it.
CancelNoShowUnseen(b) ==
  /\ b \in no_shows
  /\ booking[b].status \in {"CONFIRMED", "CHECKED_IN"}
  /\ CanRelease({b})
  /\ rows' = Released({b})
  /\ booking' = [booking EXCEPT ![b].status = "CANCELED"]
  /\ no_shows' = no_shows \ {b}
  /\ UNCHANGED <<bookingOnly, configured, asked, history>>

\* And cancels them one by one, each in a transaction of its own that looks at
\* the status again.
CancelNoShow(b) ==
  /\ b \in no_shows
  /\ CancelBooking(b)
  /\ no_shows' = no_shows \ {b}
  /\ UNCHANGED <<configured, asked, history>>

\* A booking that cancel_booking refuses is passed over.
PassOver(b) ==
  /\ b \in no_shows
  /\ booking[b].status \notin {"PENDING_PAYMENT", "CONFIRMED"} \/ ~CanRelease({b})
  /\ no_shows' = no_shows \ {b}
  /\ UNCHANGED <<vars, configured, asked, history>>

\* The allotment is set by hand.
SetAllotment ==
  /\ \E total \in 0 .. MaxRooms : PutCountInventory(total)
  /\ configured' = TRUE
  /\ UNCHANGED <<jobVars, history>>

-----------------------------------------------------------------------------
SiloInit ==
  /\ Init
  /\ configured = FALSE
  /\ asked = Nobody
  /\ no_shows = {}
  /\ switches = 0
  /\ settled = Days
  /\ strayed = FALSE

\* The pool goes on as it did.
PoolStep ==
  /\ \/ NewBookings
     \/ \E b \in Bookings :
          \/ RecordPayment(b) \/ CheckOut(b) \/ RestoreNoShow(b)
          \/ Listed(b) /\ (CancelBooking(b) \/ CheckIn(b))
     \/ ExpirePendingBookings
     \/ Tick
  /\ UNCHANGED <<configured, jobVars, history>>

SiloNext ==
  \/ PoolStep
  \/ SetAllotment
  \/ SwitchMode
  \/ AskForBooking
  \/ FindNoShows
  \/ \E b \in Bookings : CancelNoShow(b) \/ PassOver(b)
  \/ \E b \in Bookings, check_in \in Days, check_out \in 1 .. LastDay + 1 :
       BookAsAsked(b, check_in, check_out) \/ CorrectReservation(b, check_in, check_out)

SiloSpec == SiloInit /\ [][SiloNext]_siloVars

-----------------------------------------------------------------------------
(* Properties. *)

\* Every variable keeps its type.
SilosTypeOK ==
  /\ TypeOK
  /\ configured \in BOOLEAN
  /\ asked \in Modes \cup {Nobody}
  /\ no_shows \subseteq Bookings
  /\ switches \in 0 .. MaxSwitches
  /\ settled \subseteq Days
  /\ strayed \in BOOLEAN

\* services.py: counters "are rebuilt from booking snapshots when that mode is
\* active again".  Whatever modes the hotel has been through, and whatever was
\* booked, paid, corrected, canceled or restored meanwhile, no counter is driven
\* below zero by giving back what it never counted, and the counters of the
\* dates the last switch covered stand for the bookings of the mode, unless a
\* request placed a booking in a mode it had read before a switch, or the room
\* type was off during the last switch.
CountersFollowMode ==
  /\ SilosTypeOK
  /\ ~strayed =>
       \A d \in settled :
         /\ rows[d].held_rooms = QuantityOn(booking, Holding(booking), d)
         /\ rows[d].reserved_rooms = QuantityOn(booking, Reserving(booking), d)

\* An allotment nobody has set sells nothing, though the rows were full of
\* physical rooms before the switch: only restoring a paid booking adds to what
\* the OTA has taken of it.
UnsetAllotmentSellsNothing ==
  [][\A d \in Days :
       /\ inventory_mode = "ROOM_TYPE_COUNT" /\ inventory_mode' = inventory_mode
       /\ switches > 0 /\ ~configured
       /\ Taken(booking, d)' > Taken(booking, d)
       => \E b \in Bookings : booking[b].status = "CANCELED" /\ booking'[b].status = "CONFIRMED"
    ]_siloVars

\* A guest who arrives while the no-show job is at work is not turned out by
\* it, and a stay sold from an allotment is never a no-show: the job cancels
\* confirmed physical-room bookings alone.
NoShowsNeverCame ==
  [][\A b \in no_shows \ no_shows' :
       booking'[b] # booking[b] =>
         /\ booking[b].status = "CONFIRMED"
         /\ booking[b].inventory_mode = "PHYSICAL_ROOM"
         /\ booking'[b].status = "CANCELED"
    ]_siloVars
=============================================================================
