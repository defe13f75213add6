----------------------------- MODULE RoomStays -----------------------------
(***************************************************************************)
(* The physical rooms of one RoomType in a hotel that sells physical rooms *)
(* (BookingViewSet, PhysicalRoomViewSet and booking/services.py): which    *)
(* RoomAssignments are active, what state each room is in, and what the    *)
(* pool's reserved_rooms counter says of it, from the reservation through  *)
(* check-in and room changes to check-out, housekeeping and room blocks.   *)
(*                                                                         *)
(* Every action is one request served with no other in between; RoomRaces  *)
(* lets requests overlap.  Totals and holds of the pool are the subject of *)
(* BookingInventory: here a booking is taken whenever there are rooms      *)
(* enough in the hotel.  Invoices are paid when a guest checks out.        *)
(***************************************************************************)
EXTENDS Integers, FiniteSets

CONSTANTS
  Bookings,     \* the Booking rows that may be created
  Rooms,        \* the PhysicalRooms of the room type
  LastDay,      \* stay dates are 0..LastDay
  MaxQuantity   \* the most rooms one booking asks for

ASSUME RoomsAssumption ==
  /\ IsFiniteSet(Bookings)
  /\ IsFiniteSet(Rooms)
  /\ LastDay \in Nat
  /\ MaxQuantity \in Nat \ {0}

VARIABLES
  booking,    \* Booking with its BookingRoom, by primary key
  room,       \* PhysicalRoom.status, by room
  assigned,   \* the RoomAssignments not yet released, as <<booking, room>>
  blocked,    \* nights under an active PhysicalRoomBlock, by room
  reserved    \* DailyInventory.reserved_rooms, by stay date

stayVars == <<booking, room, assigned, blocked, reserved>>

-----------------------------------------------------------------------------
(* Data. *)

Days == 0 .. LastDay
RoomStatuses == {"VACANT", "OCCUPIED", "CLEANING", "OUT_OF_SERVICE"}
BookingStatuses == {"NOT_CREATED", "PENDING_PAYMENT", "CONFIRMED", "CHECKED_IN",
                    "CHECKED_OUT", "CANCELED"}

Booking == [status : BookingStatuses, check_in : Days, check_out : 0 .. LastDay + 1,
            quantity : 0 .. MaxQuantity]

Stay(status, check_in, check_out, quantity) ==
  [status |-> status, check_in |-> check_in, check_out |-> check_out,
   quantity |-> quantity]

Nights(b) == {d \in Days : booking[b].check_in <= d /\ d < booking[b].check_out}
Is(b, statuses) == booking[b].status \in statuses

Reserving == {b \in Bookings : Is(b, {"CONFIRMED", "CHECKED_IN"})}
Open      == {b \in Bookings : Is(b, {"PENDING_PAYMENT", "CONFIRMED", "CHECKED_IN"})}

RoomsOf(b) == {r \in Rooms : <<b, r>> \in assigned}
Guests(r)  == {b \in Bookings : <<b, r>> \in assigned /\ Is(b, {"CHECKED_IN"})}

\* Bookings of S that have room r on one of the nights.
Overlapping(r, nights, S) ==
  {b \in S : <<b, r>> \in assigned /\ Nights(b) \cap nights # {}}

\* RoomAssignment and PhysicalRoomBlock leave room r free on the nights.
Free(r, nights) == Overlapping(r, nights, Open) = {} /\ blocked[r] \cap nights = {}

\* A PhysicalRoom that can be reserved now: not being cleaned or repaired.
InService(r) == room[r] \notin {"OUT_OF_SERVICE", "CLEANING"}

\* The quantities of the bookings S on night d, as a number of rooms.
QuantityOn(S, d) == Cardinality({t \in S \X (1 .. MaxQuantity) :
                                   t[2] <= booking[t[1]].quantity /\ d \in Nights(t[1])})

\* DailyInventory.held_rooms on night d.
HeldOn(d) == QuantityOn(Open \ Reserving, d)

Charge(nights, n) == [d \in Days |-> IF d \in nights THEN reserved[d] + n ELSE reserved[d]]

\* The pool gives n rooms back on the nights of b, if it has them.
CanGiveBack(b, n) == \A d \in Nights(b) : reserved[d] >= n

WithStatus(b, status) == [booking EXCEPT ![b].status = status]
SetRooms(S, status) == [r \in Rooms |-> IF r \in S THEN status ELSE room[r]]

-----------------------------------------------------------------------------
(* Reservations. *)

\* The pool, its reserved_rooms being `pool`, has the rooms on every night next
\* to the holds of the bookings S.
Fits(nights, quantity, S, pool) ==
  \A d \in nights :
    QuantityOn(S \ Reserving, d) + pool[d] + quantity <= Cardinality(Rooms)

Accepts(b, check_in, check_out, quantity, pool) ==
  /\ Is(b, {"NOT_CREATED"})
  /\ check_in < check_out
  /\ Fits(check_in .. check_out - 1, quantity, Open, pool)

\* create_booking: a hold, no physical room yet.
CreateBooking(b, check_in, check_out, quantity) ==
  /\ Accepts(b, check_in, check_out, quantity, reserved)
  /\ booking' = [booking EXCEPT ![b] = Stay("PENDING_PAYMENT", check_in, check_out, quantity)]
  /\ UNCHANGED <<room, assigned, blocked, reserved>>

\* A booking confirmed at once, with the rooms S picked at the desk.
AtDesk(b, status, check_in, check_out, quantity, S, pool) ==
  LET nights == check_in .. check_out - 1
  IN  /\ Accepts(b, check_in, check_out, quantity, pool)
      /\ \A r \in S : room[r] \in {"VACANT", "OCCUPIED"} /\ Free(r, nights)
      /\ booking' = [booking EXCEPT ![b] = Stay(status, check_in, check_out, quantity)]
      /\ assigned' = assigned \cup ({b} \X S)
      /\ reserved' = [d \in Days |-> IF d \in nights THEN pool[d] + quantity ELSE reserved[d]]
      /\ UNCHANGED blocked

\* create_admin_reservation: some of the rooms may be picked later.
ReserveAtDesk(b, check_in, check_out, quantity, S) ==
  /\ Cardinality(S) <= quantity
  /\ AtDesk(b, "CONFIRMED", check_in, check_out, quantity, S, reserved)
  /\ UNCHANGED room

\* create_walk_in_booking: every room is picked, and vacant for a guest who
\* moves in immediately.  The counters of the stay are rebuilt from the
\* quantities of the bookings first.
WalkIn(b, check_in, check_out, S, immediately) ==
  /\ S # {}
  /\ Cardinality(S) <= MaxQuantity
  /\ immediately => \A r \in S : room[r] = "VACANT"
  /\ AtDesk(b, IF immediately THEN "CHECKED_IN" ELSE "CONFIRMED", check_in, check_out,
            Cardinality(S), S, [d \in Days |-> QuantityOn(Reserving, d)])
  /\ room' = IF immediately THEN SetRooms(S, "OCCUPIED") ELSE room

\* Seeded fault: rooms of other stays are not left out.
CandidatesIgnoringStays(b) == {r \in Rooms : InService(r) /\ blocked[r] \cap Nights(b) = {}}

\* _available_physical_rooms_for_booking_room
Candidates(b) == {r \in Rooms : InService(r) /\ Free(r, Nights(b))}

\* record_payment confirms a pending booking and then, through
\* auto_assign_physical_rooms_for_booking, takes the rooms it lacks from
\* `candidates` as far as they go.  Rooms no longer in service are not among
\* those locked.
Confirm(b, candidates) ==
  LET usable == {r \in candidates : InService(r)}
      missing == booking[b].quantity - Cardinality(RoomsOf(b))
  IN  /\ Is(b, {"PENDING_PAYMENT"})
      /\ \E S \in SUBSET usable :
           /\ Cardinality(S) <= missing
           /\ Cardinality(S) = missing \/ S = usable
           /\ assigned' = assigned \cup ({b} \X S)
      /\ booking' = WithStatus(b, "CONFIRMED")
      /\ reserved' = Charge(Nights(b), booking[b].quantity)
      /\ UNCHANGED <<room, blocked>>

RecordPayment(b) == Confirm(b, Candidates(b))

\* cancel_booking, and expire_pending_bookings for a pending one.  A room left
\* OCCUPIED that no checked-in stay has becomes VACANT.
Cancel(b, rooms) ==
  /\ Is(b, {"PENDING_PAYMENT", "CONFIRMED"})
  /\ Is(b, {"CONFIRMED"}) => CanGiveBack(b, booking[b].quantity)
  /\ booking' = WithStatus(b, "CANCELED")
  /\ assigned' = assigned \ ({b} \X rooms)
  /\ room' = SetRooms({r \in rooms : room[r] = "OCCUPIED" /\ Guests(r) = {}}, "VACANT")
  /\ reserved' = IF Is(b, {"CONFIRMED"}) THEN Charge(Nights(b), -booking[b].quantity)
                 ELSE reserved
  /\ UNCHANGED blocked

CancelBooking(b) == Cancel(b, RoomsOf(b))

\* update_reservation_for_check_in: the old stay is given back and a replacement
\* made, with the rooms S the check-in form names; then the booking takes over
\* the replacement's stay.  Its former assignments are deleted with their
\* BookingRooms.
CorrectReservation(b, check_in, check_out, quantity, S) ==
  LET nights == check_in .. check_out - 1
      sold == Is(b, {"CONFIRMED"})
      given == IF sold THEN Charge(Nights(b), -booking[b].quantity) ELSE reserved
  IN  /\ Is(b, {"PENDING_PAYMENT", "CONFIRMED"})
      /\ sold => CanGiveBack(b, booking[b].quantity)
      /\ check_in < check_out
      /\ Fits(nights, quantity, Open \ {b}, given)
      /\ Cardinality(S) <= quantity
      /\ \A r \in S : /\ InService(r)
                      /\ Overlapping(r, nights, Open \ {b}) = {}
                      /\ blocked[r] \cap nights = {}
      /\ booking' = [booking EXCEPT ![b] = Stay(@.status, check_in, check_out, quantity)]
      /\ assigned' = (assigned \ ({b} \X Rooms)) \cup ({b} \X S)
      /\ reserved' = [d \in Days |-> IF sold /\ d \in nights THEN given[d] + quantity
                                     ELSE given[d]]
      /\ UNCHANGED <<room, blocked>>

-----------------------------------------------------------------------------
(* Room assignments. *)

\* Seeded fault: any number of rooms for one booking.
AssignAnyRoom(b, r) ==
  /\ Is(b, {"CONFIRMED"})
  /\ room[r] = "VACANT"
  /\ Free(r, Nights(b))
  /\ assigned' = assigned \cup {<<b, r>>}
  /\ UNCHANGED <<booking, room, blocked, reserved>>

AssignRoom(b, r) ==
  /\ Is(b, {"CONFIRMED"})
  /\ room[r] = "VACANT"
  /\ Cardinality(RoomsOf(b)) < booking[b].quantity
  /\ Free(r, Nights(b))
  /\ assigned' = assigned \cup {<<b, r>>}
  /\ UNCHANGED <<booking, room, blocked, reserved>>

\* unassign_room of a booking whose status was read as `seen`.
Unassign(b, r, seen) ==
  /\ seen = "CONFIRMED"
  /\ <<b, r>> \in assigned
  /\ assigned' = assigned \ {<<b, r>>}
  /\ UNCHANGED <<booking, room, blocked, reserved>>

UnassignRoom(b, r) == Unassign(b, r, booking[b].status)

\* Seeded fault: the room a guest moves into stays vacant.
ChangeKeepingVacant(b, from, to, seen) ==
  /\ seen \in {"CONFIRMED", "CHECKED_IN"}
  /\ <<b, from>> \in assigned
  /\ room[to] = "VACANT"
  /\ Overlapping(to, Nights(b), Reserving) = {}
  /\ blocked[to] \cap Nights(b) = {}
  /\ assigned' = (assigned \ {<<b, from>>}) \cup {<<b, to>>}
  /\ room' = IF seen = "CHECKED_IN" THEN [room EXCEPT ![from] = "CLEANING"] ELSE room
  /\ UNCHANGED <<booking, blocked, reserved>>

\* change_room of a booking whose status was read as `seen`.  Rooms of pending
\* bookings are not asked about.
Change(b, from, to, seen) ==
  /\ seen \in {"CONFIRMED", "CHECKED_IN"}
  /\ <<b, from>> \in assigned
  /\ room[to] = "VACANT"
  /\ Overlapping(to, Nights(b), Reserving) = {}
  /\ blocked[to] \cap Nights(b) = {}
  /\ assigned' = (assigned \ {<<b, from>>}) \cup {<<b, to>>}
  /\ room' = IF seen = "CHECKED_IN"
             THEN [room EXCEPT ![from] = "CLEANING", ![to] = "OCCUPIED"] ELSE room
  /\ UNCHANGED <<booking, blocked, reserved>>

ChangeRoom(b, from, to) == Change(b, from, to, booking[b].status)

-----------------------------------------------------------------------------
(* Stays. *)

\* Rooms of b marked OCCUPIED though no other checked-in stay has them.
Stale(b) == {r \in RoomsOf(b) : room[r] = "OCCUPIED" /\ Guests(r) \ {b} = {}}

\* check_in repairs stale rooms, then wants every room assigned and vacant.
CanCheckIn(b) ==
  /\ Is(b, {"CONFIRMED"})
  /\ Cardinality(RoomsOf(b)) >= booking[b].quantity
  /\ \A r \in RoomsOf(b) \ Stale(b) : room[r] = "VACANT"

CheckIn(b) ==
  /\ CanCheckIn(b)
  /\ booking' = WithStatus(b, "CHECKED_IN")
  /\ room' = SetRooms(RoomsOf(b), "OCCUPIED")
  /\ UNCHANGED <<assigned, blocked, reserved>>

\* check_out, of the rooms read for it: the whole quantity goes back to the pool.
CheckOutFrom(b, rooms) ==
  /\ Is(b, {"CHECKED_IN"})
  /\ CanGiveBack(b, booking[b].quantity)
  /\ booking' = WithStatus(b, "CHECKED_OUT")
  /\ room' = SetRooms(rooms, "CLEANING")
  /\ assigned' = assigned \ ({b} \X rooms)
  /\ reserved' = Charge(Nights(b), -booking[b].quantity)
  /\ UNCHANGED blocked

CheckOut(b) == CheckOutFrom(b, RoomsOf(b))

\* Seeded fault: the room is cleaned but stays charged to the pool.
CheckOutRoomKeepingPool(b, r) ==
  /\ Is(b, {"CHECKED_IN"})
  /\ r \in RoomsOf(b)
  /\ CanGiveBack(b, 1)
  /\ room' = [room EXCEPT ![r] = "CLEANING"]
  /\ assigned' = assigned \ {<<b, r>>}
  /\ booking' = IF RoomsOf(b) = {r} THEN WithStatus(b, "CHECKED_OUT") ELSE booking
  /\ UNCHANGED <<blocked, reserved>>

\* check_out_room: one room; the booking is checked out with its last.
CheckOutRoom(b, r) ==
  /\ Is(b, {"CHECKED_IN"})
  /\ r \in RoomsOf(b)
  /\ CanGiveBack(b, 1)
  /\ room' = [room EXCEPT ![r] = "CLEANING"]
  /\ assigned' = assigned \ {<<b, r>>}
  /\ booking' = IF RoomsOf(b) = {r} THEN WithStatus(b, "CHECKED_OUT") ELSE booking
  /\ reserved' = Charge(Nights(b), -1)
  /\ UNCHANGED blocked

-----------------------------------------------------------------------------
(* Housekeeping. *)

\* PhysicalRoomSerializer.validate.  Cleaning and repairs only: a hotel that
\* overrides by hand the status of a room with a guest in it is left out.
MayMark(r, status) ==
  /\ "OCCUPIED" \notin {room[r], status}
  /\ status # room[r]
  /\ status = "OUT_OF_SERVICE" => \A b \in Reserving : <<b, r>> \notin assigned

Mark(r, status) ==
  /\ room' = [room EXCEPT ![r] = status]
  /\ UNCHANGED <<booking, assigned, blocked, reserved>>

\* PhysicalRoomViewSet.partial_update
MarkRoom(r, status) == MayMark(r, status) /\ Mark(r, status)

\* Seeded fault: only guests in the house stand in the way of a block.
MayBlockReserved(r, nights) ==
  Overlapping(r, nights, {b \in Bookings : Is(b, {"CHECKED_IN"})}) = {}

\* PhysicalRoomBlockSerializer.validate
MayBlock(r, nights) == Overlapping(r, nights, Reserving) = {}

Block(r, nights) ==
  /\ blocked' = [blocked EXCEPT ![r] = nights]
  /\ UNCHANGED <<booking, room, assigned, reserved>>

\* PhysicalRoomBlockViewSet.create; one block a room at a time is enough here.
BlockRoom(r, nights) == blocked[r] = {} /\ MayBlock(r, nights) /\ Block(r, nights)

\* PhysicalRoomBlockViewSet.unblock and destroy
UnblockRoom(r) == blocked[r] # {} /\ Block(r, {})

-----------------------------------------------------------------------------
StayInit ==
  /\ booking = [b \in Bookings |-> Stay("NOT_CREATED", 0, 0, 0)]
  /\ room = [r \in Rooms |-> "VACANT"]
  /\ assigned = {}
  /\ blocked = [r \in Rooms |-> {}]
  /\ reserved = [d \in Days |-> 0]

Intervals == {first .. last : first, last \in Days} \ {{}}

Reservations(b) ==
  \/ \E check_in \in Days, check_out \in 1 .. LastDay + 1 :
       \/ \E quantity \in 1 .. MaxQuantity :
            \/ CreateBooking(b, check_in, check_out, quantity)
            \/ \E S \in SUBSET Rooms : ReserveAtDesk(b, check_in, check_out, quantity, S)
       \/ \E S \in SUBSET Rooms, immediately \in BOOLEAN :
            WalkIn(b, check_in, check_out, S, immediately)
  \/ RecordPayment(b)
  \/ CancelBooking(b)

\* Corrections that name rooms for paid reservations alone.
Corrections(b) ==
  \E check_in \in Days, check_out \in 1 .. LastDay + 1, quantity \in 1 .. MaxQuantity,
     S \in SUBSET Rooms :
    /\ Is(b, {"PENDING_PAYMENT"}) => S = {}
    /\ CorrectReservation(b, check_in, check_out, quantity, S)

Assigning(b) == \E r \in Rooms : AssignRoom(b, r)

Stays(b) ==
  \/ CheckIn(b)
  \/ CheckOut(b)
  \/ \E r \in Rooms : UnassignRoom(b, r) \/ CheckOutRoom(b, r)
  \/ \E from, to \in Rooms : ChangeRoom(b, from, to)

Housekeeping(r) ==
  \/ \E status \in RoomStatuses : MarkRoom(r, status)
  \/ \E nights \in Intervals : BlockRoom(r, nights)
  \/ UnblockRoom(r)

StayNext ==
  \/ \E b \in Bookings : Reservations(b) \/ Corrections(b) \/ Assigning(b) \/ Stays(b)
  \/ \E r \in Rooms : Housekeeping(r)

StaySpec == StayInit /\ [][StayNext]_stayVars

\* The form names rooms for reservations waiting for their payment as well.
FormNext ==
  \/ StayNext
  \/ \E b \in Bookings, check_in \in Days, check_out \in 1 .. LastDay + 1,
       quantity \in 1 .. MaxQuantity, S \in SUBSET Rooms :
       CorrectReservation(b, check_in, check_out, quantity, S)

FormSpec == StayInit /\ [][FormNext]_stayVars

-----------------------------------------------------------------------------
(* Properties. *)

\* Every variable keeps its type; the counter never goes below zero.
StayTypeOK ==
  /\ booking \in [Bookings -> Booking]
  /\ room \in [Rooms -> RoomStatuses]
  /\ assigned \subseteq Bookings \X Rooms
  /\ blocked \in [Rooms -> SUBSET Days]
  /\ reserved \in [Days -> Nat]

\* Two reservations never have the same physical room on the same night, when
\* requests are served one after the other and the room was given by a payment,
\* at the desk, by assign-room or change-room, or by the form of a reservation
\* already paid.  The form of one still pending is only in FormSpec, where this
\* fails.
NoRoomPromisedTwice ==
  \A r \in Rooms, d \in Days :
    Cardinality({b \in Reserving : <<b, r>> \in assigned /\ d \in Nights(b)}) <= 1

\* A guest who is checked in has a room, and every room of theirs is OCCUPIED
\* by them alone.
GuestsHaveTheirRooms ==
  \A b \in Bookings : Is(b, {"CHECKED_IN"}) =>
    /\ RoomsOf(b) # {}
    /\ \A r \in RoomsOf(b) : room[r] = "OCCUPIED" /\ Guests(r) = {b}

\* A booking never has more rooms than it paid for, and none once it is closed.
RoomsWithinBooking ==
  \A b \in Bookings :
    Cardinality(RoomsOf(b)) <= IF b \in Reserving THEN booking[b].quantity ELSE 0

\* A reservation is never left on a room that is blocked for one of its nights
\* or out of service.
ReservedRoomsUsable ==
  \A b \in Reserving : \A r \in RoomsOf(b) :
    blocked[r] \cap Nights(b) = {} /\ room[r] # "OUT_OF_SERVICE"

\* The counter is what the reservations in force ask for, each booking's pool
\* moves being serialised by its row locks whatever else goes on.
PoolMatchesBookings == \A d \in Days : reserved[d] = QuantityOn(Reserving, d)

-----------------------------------------------------------------------------
(* What the rooms keep of the promise of BookingPromise. *)

LifeOf(status) ==
  CASE status = "NOT_CREATED" -> "NONE"
    [] status = "PENDING_PAYMENT" -> "WAITING"
    [] status = "CONFIRMED" -> "BOOKED"
    [] status = "CHECKED_IN" -> "STAYING"
    [] status = "CANCELED" -> "CANCELED"
    [] OTHER -> "GONE"

Promised ==
  INSTANCE BookingPromise WITH
    life <- [b \in Bookings |-> LifeOf(booking[b].status)],
    taken <- [d \in Days |-> reserved[d] + HeldOn(d)],
    capacity <- [d \in Days |-> Cardinality(Rooms)]

\* Whatever the order of payments, corrections, check-outs room by room and
\* walk-ins that count the pool again, the lives of the bookings go in order, and
\* holds and reservations together never exceed the rooms of the hotel.
RoomsKeepOutline == Promised!Outline
=============================================================================
