----------------------------- MODULE RoomBoard -----------------------------
(***************************************************************************)
(* What the hotel's staff are told about the rooms of RoomStays: the room  *)
(* board and a room's detail page, the search for available rooms, the     *)
(* check-in form's readiness, the OTA records of a room, and the log of    *)
(* room events every handler writes.  None of these views is stored: each  *)
(* is computed from the rows by code of its own, and the desk acts on it.  *)
(*                                                                         *)
(* The specification is RoomStays with three pieces of state added: which  *)
(* bookings came from the OTA, which assignments were released, and the    *)
(* room status the log last told of.                                       *)
(***************************************************************************)
EXTENDS RoomStays

VARIABLES
  ota,        \* bookings with source OTA
  released,   \* the RoomAssignments released, as <<booking, room>>
  told        \* the last new_status a PhysicalRoomActionHistory names, by room

boardVars == <<booking, room, assigned, blocked, reserved, ota, released, told>>

-----------------------------------------------------------------------------
(* RoomBoardView, for a date d. *)

DisplayStatuses == {"available", "reserved", "occupied", "cleaning",
                    "out_of_service", "blocked"}

\* Seeded fault: a stay is shown on its own dates only.
CurrentByDate(r, d) == Overlapping(r, {d}, Reserving)

\* assignment_by_room: a guest in the house takes precedence over the
\* reservation of the date, whatever the date.
Current(r, d) == IF Guests(r) # {} THEN Guests(r) ELSE Overlapping(r, {d}, Reserving)

DisplayStatus(r, d) ==
  IF room[r] = "OUT_OF_SERVICE" THEN "out_of_service"
  ELSE IF \E b \in Current(r, d) : Is(b, {"CHECKED_IN"}) THEN "occupied"
  ELSE IF d \in blocked[r] THEN "blocked"
  ELSE IF room[r] = "CLEANING" THEN "cleaning"
  ELSE IF Current(r, d) # {} THEN "reserved"
  ELSE IF room[r] = "OCCUPIED" THEN "occupied"
  ELSE "available"

\* serialize_next_reservations: reservations that begin on d or later.
NextReservations(r, d) ==
  {b \in Bookings : Is(b, {"CONFIRMED"}) /\ <<b, r>> \in assigned /\ booking[b].check_in >= d}

Earliest(S) == {b \in S : \A c \in S : booking[b].check_in <= booking[c].check_in}

\* The stays that left the room for good on d.
LastCheckouts(r, d) ==
  {b \in Bookings : Is(b, {"CHECKED_OUT"}) /\ <<b, r>> \in released /\ booking[b].check_out = d}

\* build_room_timeline: whose stay or reservation it is, the days the room
\* stays vacant until the next one, and who has just left a room being cleaned.
Timeline(r, d) ==
  LET status == DisplayStatus(r, d)
      next   == Earliest(NextReservations(r, d))
  IN  [type |-> status,
       stay |-> IF status \in {"occupied", "reserved"} THEN Current(r, d) ELSE {},
       next |-> IF status = "available" THEN next ELSE {},
       vacant |-> IF status = "available"
                  THEN {d .. booking[b].check_in - 1 : b \in next} ELSE {},
       left |-> IF status = "cleaning" THEN LastCheckouts(r, d) ELSE {}]

\* serialize_room_block_state
BlockState(r, d) ==
  IF d \in blocked[r] THEN "currently_blocked"
  ELSE IF \E e \in blocked[r] : e > d THEN "upcoming_block" ELSE "none"

\* Rooms still to be picked for the reservations of d, by booking.
Unassigned(d) ==
  [b \in {c \in Bookings : Is(c, {"CONFIRMED"}) /\ d \in Nights(c)} |->
     booking[b].quantity - Cardinality(RoomsOf(b))]

Counts(d) ==
  [status \in DisplayStatuses |-> Cardinality({r \in Rooms : DisplayStatus(r, d) = status})]

\* serialize_room_board_current_booking
CurrentBooking(r, d) == [b \in Current(r, d) |-> booking[b]]

\* PhysicalRoomViewSet.retrieve
RoomDetail(r, d) ==
  [display |-> DisplayStatus(r, d), block |-> BlockState(r, d),
   next |-> NextReservations(r, d), current |-> CurrentBooking(r, d)]

BoardRow(r, d) == [detail |-> RoomDetail(r, d), timeline |-> Timeline(r, d)]

Board(d) ==
  [rows |-> [r \in Rooms |-> BoardRow(r, d)], counts |-> Counts(d),
   unassigned |-> Unassigned(d)]

\* PhysicalRoomViewSet.active_invoices: the bookings a room bills.
Billing(r) == {b \in Reserving : <<b, r>> \in assigned}

-----------------------------------------------------------------------------
(* Searches and forms. *)

\* Seeded fault: only the arrival is looked at.
SearchedAtArrival(check_in, check_out, workflow) ==
  {r \in Rooms : /\ room[r] # "OUT_OF_SERVICE"
                 /\ Free(r, {check_in})
                 /\ workflow = "check_in" => room[r] = "VACANT"}

\* PMSAvailableRoomSearchView, of rooms of a type that has a rate plan and of a
\* party that fits into them.
Searched(check_in, check_out, workflow) ==
  {r \in Rooms : /\ room[r] # "OUT_OF_SERVICE"
                 /\ Free(r, check_in .. check_out - 1)
                 /\ workflow = "check_in" => room[r] = "VACANT"}

\* _check_in_readiness, of a booking whose primary guest is registered.
Ready(b) ==
  /\ Is(b, {"CONFIRMED"})
  /\ Cardinality(RoomsOf(b)) >= booking[b].quantity
  /\ \A r \in RoomsOf(b) : room[r] = "VACANT"

-----------------------------------------------------------------------------
(* OTA records: a room's bookings, those that left it included. *)

Timelines == {"active_today", "upcoming", "past"}
Visible == {b \in ota : Is(b, {"CONFIRMED", "CHECKED_IN", "CHECKED_OUT"})}

TimelineStatus(b, today) ==
  IF b \notin Open THEN "past"
  ELSE IF today \in Nights(b) THEN "active_today"
  ELSE IF booking[b].check_in > today THEN "upcoming" ELSE "past"

\* OTARoomSelectionView._payload
RecordsOf(r) == {b \in ota : <<b, r>> \in assigned \cup released}

\* OTARoomHistoryView
Records(r, timeline, today) ==
  {b \in RecordsOf(r) \cap Visible : TimelineStatus(b, today) = timeline}

\* OTARecordListView: the rooms of a booking now, or those it had.
RecordRooms(b) == IF RoomsOf(b) # {} THEN RoomsOf(b) ELSE {r \in Rooms : <<b, r>> \in released}

\* Seeded fault: a room change or a check-out takes the booking off the count.
TotalBookingsInRooms(timeline, today) ==
  Cardinality({b \in Visible : RoomsOf(b) # {} /\ TimelineStatus(b, today) = timeline})

\* OTARoomSelectionView._total_booking_count
TotalBookings(timeline, today) ==
  Cardinality({b \in Visible : /\ \E r \in Rooms : <<b, r>> \in assigned \cup released
                               /\ TimelineStatus(b, today) = timeline})

-----------------------------------------------------------------------------
(* The room log. *)

\* A handler writes an event with the status it leaves each room of S in.  The
\* events of a block, of its end and of a room unassigned name no status.
Logged(S) == told' = [r \in Rooms |-> IF r \in S THEN room'[r] ELSE told[r]]

Taken == {r \in Rooms : \E b \in Bookings : <<b, r>> \in assigned' \ assigned}

\* Seeded fault: only the room moved into is written about.
LoggedOfMove(from, to) == Logged({to})

LoggedMove(from, to) == Logged({from, to})

\* Of the bookings create_booking makes, those of the OTA are on record.
OtaBooking(b, check_in, check_out, quantity) ==
  /\ CreateBooking(b, check_in, check_out, quantity)
  /\ ota' = ota \cup {b}
  /\ Logged({})

AdminReservation(b, check_in, check_out) ==
  /\ \E S \in SUBSET Rooms, quantity \in 1 .. MaxQuantity :
       ReserveAtDesk(b, check_in, check_out, quantity, S)
  /\ Logged(Taken)
  /\ UNCHANGED ota

\* WalkInBookingView and WalkInBookingV2View, which checks nobody in and logs
\* the rooms of a reservation only.
WalkInBooking(b, check_in, check_out) ==
  /\ \E S \in SUBSET Rooms : \/ WalkIn(b, check_in, check_out, S, TRUE) /\ Logged(Taken)
                             \/ /\ WalkIn(b, check_in, check_out, S, FALSE)
                                /\ \E workflow \in {"reservation", "check_in"} :
                                     Logged(IF workflow = "reservation" THEN Taken ELSE {})
  /\ UNCHANGED ota

\* record_payment and cancel_booking; a cancellation is not in the log.
PayOrCancel(b) ==
  /\ \/ RecordPayment(b) /\ Logged(Taken)
     \/ CancelBooking(b) /\ Logged({})
  /\ UNCHANGED ota

RoomOfBooking(b) ==
  /\ \/ \E r \in Rooms : AssignRoom(b, r) /\ Logged({r})
     \/ \E r \in Rooms : UnassignRoom(b, r) /\ Logged({})
     \/ \E from, to \in Rooms : ChangeRoom(b, from, to) /\ LoggedMove(from, to)
  /\ UNCHANGED ota

GuestOfBooking(b) ==
  /\ \/ CheckIn(b) /\ Logged(RoomsOf(b))
     \/ CheckOut(b) /\ Logged(RoomsOf(b))
     \/ \E r \in Rooms : CheckOutRoom(b, r) /\ Logged({r})
  /\ UNCHANGED ota

HouseRoom(r) ==
  /\ \/ \E status \in RoomStatuses : MarkRoom(r, status) /\ Logged({r})
     \/ /\ UnblockRoom(r) \/ \E nights \in Intervals : BlockRoom(r, nights)
        /\ Logged({})
  /\ UNCHANGED ota

\* check_in_form: the assignments of the old stay, released ones too, are deleted
\* with it, and no event is written about any room.
CorrectedBooking(b) ==
  /\ Corrections(b)
  /\ Logged({})
  /\ released' = released \ ({b} \X Rooms)
  /\ UNCHANGED ota

BoardInit == StayInit /\ ota = {} /\ released = {} /\ told = room

BoardNext ==
  \/ /\ \/ \E b \in Bookings :
             \/ \E check_in \in Days, check_out \in 1 .. LastDay + 1 :
                  \/ \E quantity \in 1 .. MaxQuantity : OtaBooking(b, check_in, check_out, quantity)
                  \/ AdminReservation(b, check_in, check_out)
                  \/ WalkInBooking(b, check_in, check_out)
             \/ PayOrCancel(b) \/ RoomOfBooking(b) \/ GuestOfBooking(b)
        \/ \E r \in Rooms : HouseRoom(r)
     /\ released' = released \cup (assigned \ assigned')
  \/ \E b \in Bookings : CorrectedBooking(b)

BoardSpec == BoardInit /\ [][BoardNext]_boardVars

-----------------------------------------------------------------------------
(* Properties. *)

\* Every variable keeps its type.
BoardTypeOK ==
  /\ StayTypeOK
  /\ ota \subseteq Bookings
  /\ released \subseteq Bookings \X Rooms
  /\ told \in [Rooms -> RoomStatuses]

\* A room is shown as occupied exactly when a guest is in it, on the board of
\* any date, and the booking shown with it is that guest's.  Its timeline tells
\* the truth of the days ahead: nobody has the room until the next reservation
\* shown, the reservation of a day shown is the one of that day, and whoever is
\* shown as having left is gone.
BoardTellsStays ==
  \A r \in Rooms, d \in Days :
    LET row  == Board(d).rows[r]
        line == row.timeline
    IN  /\ Guests(r) # {} <=> row.detail.display = "occupied"
        /\ Guests(r) # {} => line.stay = Guests(r) /\ DOMAIN row.detail.current = Guests(r)
        /\ \A days \in line.vacant : Overlapping(r, days, Reserving) = {}
        /\ line.next # {} => Cardinality(line.next) = 1
        /\ line.type = "reserved" => Cardinality(line.stay) = 1
        /\ \A b \in line.left : RoomsOf(b) = {}

\* The board, the search and the handlers agree: a room shown as available on
\* a date is offered for that night and can be assigned, and no other is; and
\* every room offered to a guest at the door for several nights is available
\* on each of them.  A booking billed for a room is on some day's board.  The
\* check-in form says a booking can be checked in exactly when the check-in
\* would succeed, and the board then wants no more rooms picked for it.
ViewsAgree ==
  /\ \A r \in Rooms, d \in Days :
       RoomDetail(r, d).display = "available" <=> room[r] = "VACANT" /\ Free(r, {d})
  /\ \A d \in Days : Board(d).counts["available"] = Cardinality(Searched(d, d + 1, "check_in"))
  /\ \A check_in \in Days, check_out \in 1 .. LastDay + 1 :
       check_in < check_out =>
         Searched(check_in, check_out, "check_in") =
           {r \in Rooms : \A d \in check_in .. check_out - 1 : DisplayStatus(r, d) = "available"}
  /\ \A r \in Rooms : Billing(r) \subseteq UNION {Current(r, d) \cup NextReservations(r, d) : d \in Days}
  /\ \A b \in Bookings :
       /\ Ready(b) <=> CanCheckIn(b)
       /\ Ready(b) => \A d \in Nights(b) : Board(d).unassigned[b] = 0

\* The last event in a room's log that names a status names the one the room is
\* in: no handler changes a room's status and keeps it to itself, and those whose
\* events name none, or who write no event, change none.
HistoryTellsStatus == told = room

\* The number of bookings on the OTA card is the number of different bookings
\* in the records of its rooms, on any day, whatever room changes and
\* check-outs they went through; and the rooms the list of records names for a
\* booking have it in theirs.
TotalsMatchRecords ==
  BoardTypeOK /\ \A today \in Days, timeline \in Timelines :
    LET listed == UNION {Records(r, timeline, today) : r \in Rooms}
    IN  /\ TotalBookings(timeline, today) = Cardinality(listed)
        /\ \A b \in listed : \A r \in RecordRooms(b) : b \in Records(r, timeline, today)
=============================================================================
