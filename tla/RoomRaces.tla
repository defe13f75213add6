------------------------------ MODULE RoomRaces ------------------------------
(***************************************************************************)
(* The requests of RoomStays when they overlap.  Most handlers lock the    *)
(* Booking row first and so exclude each other.  Three kinds of gap remain *)
(* (PostgreSQL, READ COMMITTED: each statement sees what was committed when *)
(* it began):                                                              *)
(*   - unassign_room and change_room read the booking without a lock;      *)
(*   - PhysicalRoom and PhysicalRoomBlock edits validate before they save, *)
(*     in no transaction at all;                                           *)
(*   - auto-assignment, cancel_booking and check_out, which do lock the    *)
(*     booking, read a list of rooms or assignments in one statement and   *)
(*     may wait for the row locks of another request before they use it.   *)
(* One request at a time is caught in its gap; any number of others are    *)
(* served there.  It then finishes with what it read, or fails.            *)
(***************************************************************************)
EXTENDS RoomStays

VARIABLE request    \* the request caught between its read and its writes

raceVars == <<stayVars, request>>

NoRequest == [kind |-> "none"]
Locking == {"payment", "cancel", "check_out"}    \* these lock their booking

Request ==
  {NoRequest}
    \cup [kind : Locking, booking : Bookings, rooms : SUBSET Rooms]
    \cup [kind : {"unassign"}, booking : Bookings, from : Rooms, seen : BookingStatuses]
    \cup [kind : {"change"}, booking : Bookings, from : Rooms, to : Rooms,
          seen : BookingStatuses]
    \cup [kind : {"mark"}, room : Rooms, status : RoomStatuses]
    \cup [kind : {"block"}, room : Rooms, nights : SUBSET Days]

Idle == request = NoRequest
Locked(b) == request.kind \in Locking /\ request.booking = b

-----------------------------------------------------------------------------
(* What a request reads before its gap. *)

Begin(r) == Idle /\ request' = r /\ UNCHANGED stayVars

\* record_payment: booking and inventory rows locked, candidates selected.
BeginPayment(b) ==
  /\ Is(b, {"PENDING_PAYMENT"})
  /\ Begin([kind |-> "payment", booking |-> b, rooms |-> Candidates(b)])

\* cancel_booking: booking and inventory rows locked, assignments selected.
BeginCancel(b) ==
  /\ Is(b, {"CONFIRMED"})
  /\ Begin([kind |-> "cancel", booking |-> b, rooms |-> RoomsOf(b)])

\* check_out: booking and inventory rows locked, assignments listed.
BeginCheckOut(b) ==
  /\ Is(b, {"CHECKED_IN"})
  /\ Begin([kind |-> "check_out", booking |-> b, rooms |-> RoomsOf(b)])

\* unassign_room: only the booking has been read.
BeginUnassign(b, r) ==
  /\ Is(b, {"CONFIRMED"})
  /\ <<b, r>> \in assigned
  /\ Begin([kind |-> "unassign", booking |-> b, from |-> r, seen |-> booking[b].status])

\* change_room: only the booking has been read.
BeginChange(b, from, to) ==
  /\ b \in Reserving
  /\ <<b, from>> \in assigned
  /\ Begin([kind |-> "change", booking |-> b, from |-> from, to |-> to,
            seen |-> booking[b].status])

\* PhysicalRoomViewSet.partial_update: the serializer has validated.
BeginMark(r, status) ==
  /\ MayMark(r, status)
  /\ Begin([kind |-> "mark", room |-> r, status |-> status])

\* PhysicalRoomBlockViewSet.create: the serializer has validated.
BeginBlock(r, nights) ==
  /\ blocked[r] = {}
  /\ MayBlock(r, nights)
  /\ Begin([kind |-> "block", room |-> r, nights |-> nights])

-----------------------------------------------------------------------------
(* The rest of the request, and requests served meanwhile. *)

Finish ==
  /\ request' = NoRequest
  /\ \/ request.kind = "payment" /\ Confirm(request.booking, request.rooms)
     \/ request.kind = "cancel" /\ Cancel(request.booking, request.rooms)
     \/ request.kind = "check_out" /\ CheckOutFrom(request.booking, request.rooms)
     \/ request.kind = "unassign" /\ Unassign(request.booking, request.from, request.seen)
     \/ /\ request.kind = "change"
        /\ Change(request.booking, request.from, request.to, request.seen)
     \/ request.kind = "mark" /\ Mark(request.room, request.status)
     \/ request.kind = "block" /\ Block(request.room, request.nights)

\* The request is refused, or its connection is lost: it rolls back.
Fail == ~Idle /\ request' = NoRequest /\ UNCHANGED stayVars

\* Seeded fault: select_for_update is forgotten.
NoLocksTaken == TRUE

\* The booking and the inventory rows that the waiting request has locked.
LocksKept ==
  request.kind \in Locking =>
    /\ booking'[request.booking] = booking[request.booking]
    /\ \A d \in Nights(request.booking) :
         reserved'[d] = reserved[d] /\ HeldOn(d)' = HeldOn(d)

Served ==
  /\ \/ \E b \in Bookings : Reservations(b) \/ Corrections(b) \/ Stays(b)
     \/ \E b \in Bookings : ~Locked(b) /\ Assigning(b)
     \/ \E r \in Rooms : Housekeeping(r)
  /\ LocksKept
  /\ UNCHANGED request

RaceInit == StayInit /\ request = NoRequest

Begins ==
  \/ \E b \in Bookings :
       \/ BeginPayment(b) \/ BeginCancel(b) \/ BeginCheckOut(b)
       \/ \E r \in Rooms : BeginUnassign(b, r)
       \/ \E from, to \in Rooms : BeginChange(b, from, to)
  \/ \E r \in Rooms :
       \/ \E status \in RoomStatuses : BeginMark(r, status)
       \/ \E nights \in Intervals : BeginBlock(r, nights)

RaceNext == Begins \/ Finish \/ Fail \/ Served

RaceSpec == RaceInit /\ [][RaceNext]_raceVars

-----------------------------------------------------------------------------
\* Whatever is served while a payment, a cancellation or a check-out waits for
\* the rooms, its booking stays open, and the counter stays what the
\* reservations in force ask for.
LocksProtectPool ==
  /\ StayTypeOK
  /\ request \in Request
  /\ \A b \in Bookings : Locked(b) => b \in Open
  /\ PoolMatchesBookings
=============================================================================
