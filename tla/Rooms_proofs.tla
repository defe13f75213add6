---------------------------- MODULE Rooms_proofs ----------------------------
(***************************************************************************)
(* Proofs about RoomStays, RoomBoard and RoomRaces, for every number of    *)
(* bookings, rooms and dates.  Requests served one after the other never   *)
(* promise a room twice, leave no guest without a room, and stay within    *)
(* what was booked; the room board and the room log tell the staff so; and *)
(* the counter of the pool is right even when requests overlap.            *)
(***************************************************************************)
EXTENDS RoomBoard, RoomRaces, FiniteSetTheorems, TLAPS

-----------------------------------------------------------------------------
(* The inductive invariant of StaySpec. *)

\* Only reservations in force have rooms.
RoomsAreReserved == \A b \in Bookings, r \in Rooms : <<b, r>> \in assigned => b \in Reserving

\* Nobody has more rooms than they asked for, and everybody asks for one.
WithinQuantity ==
  \A b \in Bookings : /\ Cardinality(RoomsOf(b)) <= booking[b].quantity
                      /\ b \in Open => booking[b].quantity > 0

\* Two bookings that have the same room share no night.
StaysApart ==
  \A b, c \in Bookings, r \in Rooms :
    <<b, r>> \in assigned /\ <<c, r>> \in assigned /\ b # c => Nights(b) \cap Nights(c) = {}

\* A guest has rooms, which are OCCUPIED and nobody else's.
GuestsInside ==
  \A b \in Bookings : Is(b, {"CHECKED_IN"}) =>
    /\ \E r \in Rooms : <<b, r>> \in assigned
    /\ \A r \in Rooms : <<b, r>> \in assigned =>
         /\ room[r] = "OCCUPIED"
         /\ \A c \in Bookings : <<c, r>> \in assigned /\ Is(c, {"CHECKED_IN"}) => c = b

\* A room that is assigned can be used.
RoomsUsable ==
  \A b \in Bookings, r \in Rooms : <<b, r>> \in assigned =>
    blocked[r] \cap Nights(b) = {} /\ room[r] # "OUT_OF_SERVICE"

StayInv ==
  /\ StayTypeOK
  /\ RoomsAreReserved
  /\ WithinQuantity
  /\ StaysApart
  /\ GuestsInside
  /\ RoomsUsable

-----------------------------------------------------------------------------
(* Counting. *)

\* The rooms of bookings on a night are finite in number.
LEMMA QuantityType ==
  ASSUME NEW S \in SUBSET Bookings, NEW d
  PROVE  QuantityOn(S, d) \in Nat
<1>1. IsFiniteSet(S) /\ IsFiniteSet(1 .. MaxQuantity)
  BY RoomsAssumption, FS_Subset, FS_Interval
<1>2. IsFiniteSet(S \X (1 .. MaxQuantity))
  BY <1>1, FS_Product
<1>3. {t \in S \X (1 .. MaxQuantity) : t[2] <= booking[t[1]].quantity /\ d \in Nights(t[1])}
        \in SUBSET (S \X (1 .. MaxQuantity))
  OBVIOUS
<1>4. QED
  BY <1>2, <1>3, FS_Subset, FS_CardinalityType DEF QuantityOn

\* A booking has finitely many rooms.
LEMMA RoomsFinite ==
  ASSUME NEW b
  PROVE  /\ IsFiniteSet(RoomsOf(b))
         /\ Cardinality(RoomsOf(b)) \in Nat
BY RoomsAssumption, FS_Subset, FS_CardinalityType DEF RoomsOf

\* Charging the pool keeps its type when it can give back what is taken off.
LEMMA ChargeType ==
  ASSUME StayTypeOK, NEW nights, NEW n \in Int, \A d \in Days \cap nights : reserved[d] + n >= 0
  PROVE  Charge(nights, n) \in [Days -> Nat]
BY DEF StayTypeOK, Charge

-----------------------------------------------------------------------------
(* Steps that change one booking and its assignments.  What must be shown    *)
(* of the booking itself, and of the rooms of the others, gives all of it.   *)

LEMMA OneBookingStep ==
  ASSUME StayInv, StayTypeOK', NEW b \in Bookings,
         blocked' = blocked,
         \A c \in Bookings \ {b} : booking'[c] = booking[c],
         \A c \in Bookings \ {b}, r \in Rooms : <<c, r>> \in assigned' <=> <<c, r>> \in assigned,
         \A r \in Rooms : <<b, r>> \in assigned' => (b \in Reserving)',
         Cardinality(RoomsOf(b)') <= booking'[b].quantity,
         (b \in Open)' => booking'[b].quantity > 0,
         \A r \in Rooms : <<b, r>> \in assigned' =>
           /\ \A c \in Bookings \ {b} : <<c, r>> \in assigned => Nights(b)' \cap Nights(c) = {}
           /\ blocked[r] \cap Nights(b)' = {}
           /\ room'[r] # "OUT_OF_SERVICE",
         Is(b, {"CHECKED_IN"})' =>
           /\ \E r \in Rooms : <<b, r>> \in assigned'
           /\ \A r \in Rooms : <<b, r>> \in assigned' =>
                /\ room'[r] = "OCCUPIED"
                /\ \A c \in Bookings \ {b} : <<c, r>> \in assigned => ~Is(c, {"CHECKED_IN"}),
         \A c \in Bookings \ {b}, r \in Rooms : <<c, r>> \in assigned =>
           /\ Is(c, {"CHECKED_IN"}) => room'[r] = "OCCUPIED"
           /\ room'[r] = "OUT_OF_SERVICE" => room[r] = "OUT_OF_SERVICE"
  PROVE  StayInv'
<1>1. \A c \in Bookings \ {b} : /\ Nights(c)' = Nights(c)
                                /\ (c \in Reserving)' <=> c \in Reserving
                                /\ (c \in Open)' <=> c \in Open
                                /\ Is(c, {"CHECKED_IN"})' <=> Is(c, {"CHECKED_IN"})
                                /\ RoomsOf(c)' = RoomsOf(c)
  BY DEF Nights, Reserving, Open, Is, RoomsOf
<1>2. RoomsAreReserved'
  BY <1>1 DEF StayInv, RoomsAreReserved
<1>3. WithinQuantity'
  BY <1>1 DEF StayInv, WithinQuantity
<1>4. StaysApart'
  BY <1>1 DEF StayInv, StaysApart
<1>5. GuestsInside'
  <2> SUFFICES ASSUME NEW x \in Bookings, Is(x, {"CHECKED_IN"})'
               PROVE  (/\ \E r \in Rooms : <<x, r>> \in assigned
                       /\ \A r \in Rooms : <<x, r>> \in assigned =>
                            /\ room[r] = "OCCUPIED"
                            /\ \A c \in Bookings :
                                 <<c, r>> \in assigned /\ Is(c, {"CHECKED_IN"}) => c = x)'
    BY DEF GuestsInside
  <2>1. CASE x = b
    BY <1>1, <2>1
  <2>2. CASE x # b
    <3>1. /\ Is(x, {"CHECKED_IN"})
          /\ \E r \in Rooms : <<x, r>> \in assigned
          /\ \A r \in Rooms : <<x, r>> \in assigned =>
               \A c \in Bookings : <<c, r>> \in assigned /\ Is(c, {"CHECKED_IN"}) => c = x
      BY <1>1, <2>2 DEF StayInv, GuestsInside
    <3>2. \A r \in Rooms : <<x, r>> \in assigned' => <<x, r>> \in assigned /\ room'[r] = "OCCUPIED"
      BY <2>2, <3>1
    <3>3. ASSUME NEW r \in Rooms, <<x, r>> \in assigned', NEW c \in Bookings,
                 <<c, r>> \in assigned', Is(c, {"CHECKED_IN"})'
          PROVE  c = x
      BY <1>1, <2>2, <3>1, <3>2, <3>3
    <3>4. QED
      BY <2>2, <3>1, <3>2, <3>3
  <2>3. QED
    BY <2>1, <2>2
<1>6. RoomsUsable'
  BY <1>1 DEF StayInv, RoomsUsable
<1>7. QED
  BY <1>2, <1>3, <1>4, <1>5, <1>6 DEF StayInv

-----------------------------------------------------------------------------
(* Bookings and their rooms. *)

\* A booking that is not in force has no rooms.
LEMMA NoRoomsYet ==
  ASSUME StayInv, NEW b \in Bookings, b \notin Reserving
  PROVE  /\ RoomsOf(b) = {}
         /\ \A r \in Rooms : <<b, r>> \notin assigned
BY DEF StayInv, RoomsAreReserved, RoomsOf

\* What Overlapping says of each of the bookings it asks about.
LEMMA OverlapNone ==
  ASSUME NEW r, NEW nights, NEW S, Overlapping(r, nights, S) = {}
  PROVE  \A c \in S : <<c, r>> \in assigned => Nights(c) \cap nights = {}
BY DEF Overlapping

\* A stay whose dates and quantity fit is one for the table.
LEMMA StayType ==
  ASSUME NEW status \in BookingStatuses, NEW check_in \in Days, NEW check_out \in 1 .. LastDay + 1,
         NEW quantity \in 1 .. MaxQuantity
  PROVE  /\ Stay(status, check_in, check_out, quantity) \in Booking
         /\ quantity > 0
         /\ check_in .. check_out - 1 \subseteq Days
BY RoomsAssumption DEF Stay, Booking, Days

\* A booking of the table has a status, dates and a quantity that is a number.
LEMMA BookingType ==
  ASSUME StayTypeOK, NEW b \in Bookings
  PROVE  /\ booking[b].status \in BookingStatuses
         /\ booking[b].quantity \in Nat
         /\ \A status \in BookingStatuses : WithStatus(b, status) \in [Bookings -> Booking]
BY RoomsAssumption DEF StayTypeOK, Booking, WithStatus

-----------------------------------------------------------------------------
(* Reservations. *)

\* A hold has no rooms.
LEMMA CreateBookingStep ==
  ASSUME StayInv, NEW b \in Bookings, NEW check_in \in Days, NEW check_out \in 1 .. LastDay + 1,
         NEW quantity \in 1 .. MaxQuantity, CreateBooking(b, check_in, check_out, quantity)
  PROVE  StayInv'
<1>1. /\ b \notin Reserving
      /\ booking' = [booking EXCEPT ![b] = Stay("PENDING_PAYMENT", check_in, check_out, quantity)]
      /\ UNCHANGED <<room, assigned, blocked, reserved>>
  BY DEF CreateBooking, Accepts, Is, Reserving
<1>2. /\ Stay("PENDING_PAYMENT", check_in, check_out, quantity) \in Booking
      /\ quantity > 0
  BY StayType DEF BookingStatuses
<1>3. StayTypeOK'
  BY <1>1, <1>2 DEF StayInv, StayTypeOK
<1>4. /\ booking'[b] = Stay("PENDING_PAYMENT", check_in, check_out, quantity)
      /\ \A c \in Bookings \ {b} : booking'[c] = booking[c]
  BY <1>1 DEF StayInv, StayTypeOK
<1>5. /\ RoomsOf(b)' = {}
      /\ \A r \in Rooms : <<b, r>> \notin assigned'
  BY <1>1, NoRoomsYet DEF RoomsOf
<1>6. Cardinality(RoomsOf(b)') <= booking'[b].quantity
  BY <1>2, <1>4, <1>5, FS_EmptySet DEF Stay
<1>7. /\ (b \in Open)' => booking'[b].quantity > 0
      /\ ~Is(b, {"CHECKED_IN"})'
  BY <1>2, <1>4 DEF Stay, Is
<1>8. \A c \in Bookings \ {b}, r \in Rooms : <<c, r>> \in assigned =>
        (Is(c, {"CHECKED_IN"}) => room[r] = "OCCUPIED")
  BY DEF StayInv, GuestsInside
<1>9. QED
  BY <1>1, <1>3, <1>4, <1>5, <1>6, <1>7, <1>8, OneBookingStep

\* A booking confirmed at once, with rooms that are free on its nights; a guest
\* who moves in immediately gets rooms nobody is in.
LEMMA AtDeskStep ==
  ASSUME StayInv, NEW b \in Bookings, NEW check_in \in Days, NEW check_out \in 1 .. LastDay + 1,
         NEW quantity \in 1 .. MaxQuantity, NEW S \in SUBSET Rooms, NEW pool \in [Days -> Nat],
         NEW status \in {"CONFIRMED", "CHECKED_IN"}, Cardinality(S) <= quantity,
         AtDesk(b, status, check_in, check_out, quantity, S, pool),
         IF status = "CHECKED_IN"
         THEN S # {} /\ (\A r \in S : room[r] = "VACANT") /\ room' = SetRooms(S, "OCCUPIED")
         ELSE room' = room
  PROVE  StayInv'
<1> DEFINE nights == check_in .. check_out - 1
<1>1. /\ b \notin Reserving
      /\ booking' = [booking EXCEPT ![b] = Stay(status, check_in, check_out, quantity)]
      /\ assigned' = assigned \cup ({b} \X S)
      /\ reserved' = [d \in Days |-> IF d \in nights THEN pool[d] + quantity ELSE reserved[d]]
      /\ blocked' = blocked
      /\ \A r \in S : room[r] \in {"VACANT", "OCCUPIED"} /\ Free(r, nights)
  BY DEF AtDesk, Accepts, Is, Reserving
<1>2. /\ Stay(status, check_in, check_out, quantity) \in Booking
      /\ quantity > 0
  BY StayType DEF BookingStatuses
<1>3. room' \in [Rooms -> RoomStatuses]
  BY DEF StayInv, StayTypeOK, SetRooms, RoomStatuses
<1>4. StayTypeOK'
  <2>1. reserved' \in [Days -> Nat]
    BY <1>1, <1>2 DEF StayInv, StayTypeOK
  <2>2. QED
    BY <1>1, <1>2, <1>3, <2>1 DEF StayInv, StayTypeOK
<1>5. /\ booking'[b] = Stay(status, check_in, check_out, quantity)
      /\ \A c \in Bookings \ {b} : booking'[c] = booking[c]
  BY <1>1 DEF StayInv, StayTypeOK
<1>6. \A r \in Rooms : <<b, r>> \in assigned' <=> r \in S
  BY <1>1, NoRoomsYet
<1>7. Cardinality(RoomsOf(b)') <= booking'[b].quantity
  <2>1. RoomsOf(b)' = S
    BY <1>6 DEF RoomsOf
  <2>2. booking'[b].quantity = quantity
    BY <1>5 DEF Stay
  <2>3. QED
    BY <2>1, <2>2
<1>8. /\ (b \in Reserving)'
      /\ booking'[b].quantity > 0
      /\ Nights(b)' \subseteq nights
      /\ Is(b, {"CHECKED_IN"})' => status = "CHECKED_IN"
  BY <1>2, <1>5 DEF Stay, Is, Reserving, Nights, Days
<1>9. \A c \in Bookings \ {b}, r \in Rooms : <<c, r>> \in assigned' <=> <<c, r>> \in assigned
  BY <1>1
<1>10. \A r \in S : /\ \A c \in Bookings \ {b} : <<c, r>> \in assigned => Nights(b)' \cap Nights(c) = {}
                    /\ blocked[r] \cap Nights(b)' = {}
                    /\ room'[r] # "OUT_OF_SERVICE"
  <2> TAKE r \in S
  <2> HIDE DEF nights
  <2>1. \A c \in Open : <<c, r>> \in assigned => Nights(c) \cap nights = {}
    <3>1. Overlapping(r, nights, Open) = {}
      BY <1>1 DEF Free
    <3>2. QED
      BY <3>1, OverlapNone
  <2>2. \A c \in Bookings : <<c, r>> \in assigned => c \in Open
    BY DEF StayInv, RoomsAreReserved, Reserving, Open, Is
  <2>3. blocked[r] \cap nights = {} /\ room[r] # "OUT_OF_SERVICE"
    BY <1>1 DEF Free
  <2>4. room'[r] # "OUT_OF_SERVICE"
    BY <2>3 DEF SetRooms
  <2>5. QED
    BY <1>8, <2>1, <2>2, <2>3, <2>4
<1>11. ASSUME status = "CHECKED_IN"
       PROVE  /\ \E r \in Rooms : <<b, r>> \in assigned'
              /\ \A r \in Rooms : <<b, r>> \in assigned' =>
                   /\ room'[r] = "OCCUPIED"
                   /\ \A c \in Bookings \ {b} : <<c, r>> \in assigned => ~Is(c, {"CHECKED_IN"})
  BY <1>6, <1>11 DEF StayInv, GuestsInside, SetRooms
<1>12. \A c \in Bookings \ {b}, r \in Rooms : <<c, r>> \in assigned =>
         /\ Is(c, {"CHECKED_IN"}) => room'[r] = "OCCUPIED"
         /\ room'[r] = "OUT_OF_SERVICE" => room[r] = "OUT_OF_SERVICE"
  BY DEF StayInv, StayTypeOK, GuestsInside, SetRooms
<1>13. \A r \in Rooms : <<b, r>> \in assigned' =>
         /\ \A c \in Bookings \ {b} : <<c, r>> \in assigned => Nights(b)' \cap Nights(c) = {}
         /\ blocked[r] \cap Nights(b)' = {}
         /\ room'[r] # "OUT_OF_SERVICE"
  BY <1>6, <1>10
<1> HIDE DEF nights
<1>14. QED
  BY <1>1, <1>4, <1>5, <1>7, <1>8, <1>9, <1>11, <1>12, <1>13, OneBookingStep

\* Reserving at the desk is one of these.
LEMMA ReserveAtDeskStep ==
  ASSUME StayInv, NEW b \in Bookings, NEW check_in \in Days, NEW check_out \in 1 .. LastDay + 1,
         NEW quantity \in 1 .. MaxQuantity, NEW S \in SUBSET Rooms,
         ReserveAtDesk(b, check_in, check_out, quantity, S)
  PROVE  StayInv'
<1>1. /\ AtDesk(b, "CONFIRMED", check_in, check_out, quantity, S, reserved)
      /\ Cardinality(S) <= quantity
      /\ room' = room
      /\ reserved \in [Days -> Nat]
  BY DEF ReserveAtDesk, StayInv, StayTypeOK
<1>2. QED
  BY <1>1, AtDeskStep

\* And so is a walk-in.
LEMMA WalkInStep ==
  ASSUME StayInv, NEW b \in Bookings, NEW check_in \in Days, NEW check_out \in 1 .. LastDay + 1,
         NEW S \in SUBSET Rooms, NEW immediately \in BOOLEAN,
         WalkIn(b, check_in, check_out, S, immediately)
  PROVE  StayInv'
<1> DEFINE pool == [d \in Days |-> QuantityOn(Reserving, d)]
<1> DEFINE status == IF immediately THEN "CHECKED_IN" ELSE "CONFIRMED"
<1>1. Reserving \in SUBSET Bookings
  BY DEF Reserving
<1>2. pool \in [Days -> Nat]
  BY <1>1, QuantityType
<1>3. IsFiniteSet(S) /\ S # {} /\ Cardinality(S) <= MaxQuantity
  BY RoomsAssumption, FS_Subset DEF WalkIn
<1>4. Cardinality(S) \in 1 .. MaxQuantity
  <2>1. Cardinality(S) \in Nat /\ Cardinality(S) # 0
    BY <1>3, FS_CardinalityType, FS_EmptySet
  <2>2. QED
    BY <1>3, <2>1, RoomsAssumption
<1>5. AtDesk(b, status, check_in, check_out, Cardinality(S), S, pool)
  BY DEF WalkIn
<1>6. IF status = "CHECKED_IN"
      THEN S # {} /\ (\A r \in S : room[r] = "VACANT") /\ room' = SetRooms(S, "OCCUPIED")
      ELSE room' = room
  BY <1>3 DEF WalkIn
<1>7. status \in {"CONFIRMED", "CHECKED_IN"} /\ Cardinality(S) <= Cardinality(S)
  BY <1>4
<1> HIDE DEF pool, status
<1>8. QED
  BY <1>2, <1>4, <1>5, <1>6, <1>7, AtDeskStep

\* A payment takes rooms among those it found free.
LEMMA RecordPaymentStep ==
  ASSUME StayInv, NEW b \in Bookings, RecordPayment(b)
  PROVE  StayInv'
<1>1. PICK S \in SUBSET Candidates(b) :
        /\ Cardinality(S) <= booking[b].quantity - Cardinality(RoomsOf(b))
        /\ assigned' = assigned \cup ({b} \X S)
  BY DEF RecordPayment, Confirm
<1>2. /\ Is(b, {"PENDING_PAYMENT"})
      /\ booking' = WithStatus(b, "CONFIRMED")
      /\ reserved' = Charge(Nights(b), booking[b].quantity)
      /\ UNCHANGED <<room, blocked>>
  BY DEF RecordPayment, Confirm
<1>3. RoomsOf(b) = {} /\ \A r \in Rooms : <<b, r>> \notin assigned
  BY <1>2, NoRoomsYet DEF Is, Reserving
<1>4. S \subseteq Rooms
  BY DEF Candidates
<1>5. StayTypeOK'
  <2>1. booking[b].quantity \in Nat /\ booking' \in [Bookings -> Booking]
    BY <1>2, BookingType DEF StayInv, BookingStatuses
  <2>2. reserved' \in [Days -> Nat]
    BY <1>2, <2>1, ChargeType DEF StayInv, StayTypeOK
  <2>3. QED
    BY <1>1, <1>2, <1>4, <2>1, <2>2 DEF StayInv, StayTypeOK
<1>6. /\ \A c \in Bookings \ {b} : booking'[c] = booking[c]
      /\ booking'[b] = [booking[b] EXCEPT !.status = "CONFIRMED"]
  BY <1>2 DEF StayInv, StayTypeOK, WithStatus
<1>7. /\ booking'[b].status = "CONFIRMED"
      /\ booking'[b].quantity = booking[b].quantity
      /\ Nights(b)' = Nights(b)
  BY <1>6 DEF StayInv, StayTypeOK, Booking, Nights
<1>8. /\ (b \in Reserving)' /\ ~Is(b, {"CHECKED_IN"})'
      /\ booking'[b].quantity > 0
  BY <1>2, <1>7 DEF Is, Reserving, Open, StayInv, WithinQuantity
<1>9. \A r \in Rooms : <<b, r>> \in assigned' <=> r \in S
  BY <1>1, <1>3
<1>10. Cardinality(RoomsOf(b)') <= booking'[b].quantity
  <2>1. RoomsOf(b)' = S
    BY <1>4, <1>9 DEF RoomsOf
  <2>2. Cardinality(S) \in Int /\ booking[b].quantity \in Int
    BY <1>4, RoomsAssumption, FS_Subset, FS_CardinalityType, BookingType DEF StayInv
  <2>3. Cardinality(S) <= booking[b].quantity
    BY <1>1, <1>3, <2>2, FS_EmptySet
  <2>4. QED
    BY <1>7, <2>1, <2>3
<1>11. \A c \in Bookings \ {b}, r \in Rooms : <<c, r>> \in assigned' <=> <<c, r>> \in assigned
  BY <1>1
<1>12. \A r \in Rooms : <<b, r>> \in assigned' =>
         /\ \A c \in Bookings \ {b} : <<c, r>> \in assigned => Nights(b)' \cap Nights(c) = {}
         /\ blocked[r] \cap Nights(b)' = {}
         /\ room'[r] # "OUT_OF_SERVICE"
  <2> SUFFICES ASSUME NEW r \in S
               PROVE  /\ \A c \in Bookings \ {b} : <<c, r>> \in assigned =>
                           Nights(b) \cap Nights(c) = {}
                      /\ blocked[r] \cap Nights(b) = {}
                      /\ room'[r] # "OUT_OF_SERVICE"
    BY <1>7, <1>9
  <2>1. InService(r) /\ Overlapping(r, Nights(b), Open) = {} /\ blocked[r] \cap Nights(b) = {}
    BY DEF Candidates, Free
  <2>2. \A c \in Open : <<c, r>> \in assigned => Nights(c) \cap Nights(b) = {}
    BY <2>1, OverlapNone
  <2>3. \A c \in Bookings : <<c, r>> \in assigned => c \in Open
    BY <1>4 DEF StayInv, RoomsAreReserved, Reserving, Open, Is
  <2>4. QED
    BY <1>2, <2>1, <2>2, <2>3 DEF InService
<1>13. \A c \in Bookings \ {b}, r \in Rooms : <<c, r>> \in assigned /\ Is(c, {"CHECKED_IN"}) =>
         room[r] = "OCCUPIED"
  BY DEF StayInv, GuestsInside
<1>14. QED
  BY <1>2, <1>5, <1>6, <1>8, <1>10, <1>11, <1>12, <1>13, OneBookingStep

\* The rooms of a cancelled booking are nobody's any more.
LEMMA CancelBookingStep ==
  ASSUME StayInv, NEW b \in Bookings, CancelBooking(b)
  PROVE  StayInv'
<1>1. /\ Is(b, {"PENDING_PAYMENT", "CONFIRMED"})
      /\ Is(b, {"CONFIRMED"}) => CanGiveBack(b, booking[b].quantity)
      /\ booking' = WithStatus(b, "CANCELED")
      /\ assigned' = assigned \ ({b} \X RoomsOf(b))
      /\ room' = SetRooms({r \in RoomsOf(b) : room[r] = "OCCUPIED" /\ Guests(r) = {}}, "VACANT")
      /\ reserved' = IF Is(b, {"CONFIRMED"}) THEN Charge(Nights(b), -booking[b].quantity)
                     ELSE reserved
      /\ blocked' = blocked
  BY DEF CancelBooking, Cancel
<1>2. booking[b].quantity \in Nat /\ booking' \in [Bookings -> Booking]
  BY <1>1, BookingType DEF StayInv, BookingStatuses
<1>3. reserved' \in [Days -> Nat]
  <2>1. CASE Is(b, {"CONFIRMED"})
    <3>1. -booking[b].quantity \in Int
      BY <1>2
    <3>2. \A d \in Days \cap Nights(b) : reserved[d] + (-booking[b].quantity) >= 0
      BY <1>1, <1>2, <2>1 DEF CanGiveBack, StayInv, StayTypeOK
    <3>3. QED
      BY <1>1, <2>1, <3>1, <3>2, ChargeType DEF StayInv
  <2>2. CASE ~Is(b, {"CONFIRMED"})
    BY <1>1, <2>2 DEF StayInv, StayTypeOK
  <2>3. QED
    BY <2>1, <2>2
<1>4. StayTypeOK'
  <2>1. room' \in [Rooms -> RoomStatuses]
    BY <1>1 DEF StayInv, StayTypeOK, SetRooms, RoomStatuses
  <2>2. QED
    BY <1>1, <1>2, <1>3, <2>1 DEF StayInv, StayTypeOK
<1>5. /\ \A c \in Bookings \ {b} : booking'[c] = booking[c]
      /\ booking'[b].status = "CANCELED"
      /\ booking'[b].quantity = booking[b].quantity
  BY <1>1 DEF StayInv, StayTypeOK, Booking, WithStatus
<1>6. /\ ~Is(b, {"CHECKED_IN"})'
      /\ b \notin Open'
  BY <1>5 DEF Is, Open
<1>7. /\ \A r \in Rooms : <<b, r>> \notin assigned'
      /\ \A c \in Bookings \ {b}, r \in Rooms : <<c, r>> \in assigned' <=> <<c, r>> \in assigned
  BY <1>1 DEF RoomsOf
<1>8. Cardinality(RoomsOf(b)') <= booking'[b].quantity
  <2>1. RoomsOf(b)' = {}
    BY <1>7 DEF RoomsOf
  <2>2. QED
    BY <1>2, <1>5, <2>1, FS_EmptySet
<1>9. \A c \in Bookings \ {b}, r \in Rooms : <<c, r>> \in assigned =>
        /\ Is(c, {"CHECKED_IN"}) => room'[r] = "OCCUPIED"
        /\ room'[r] = "OUT_OF_SERVICE" => room[r] = "OUT_OF_SERVICE"
  BY <1>1 DEF StayInv, StayTypeOK, GuestsInside, SetRooms, Guests
<1>10. QED
  BY <1>1, <1>4, <1>5, <1>6, <1>7, <1>8, <1>9, OneBookingStep

\* A correction replaces the stay and its rooms at once, and names rooms for
\* paid reservations alone.
LEMMA CorrectReservationStep ==
  ASSUME StayInv, NEW b \in Bookings, NEW check_in \in Days, NEW check_out \in 1 .. LastDay + 1,
         NEW quantity \in 1 .. MaxQuantity, NEW S \in SUBSET Rooms,
         Is(b, {"PENDING_PAYMENT"}) => S = {},
         CorrectReservation(b, check_in, check_out, quantity, S)
  PROVE  StayInv'
<1> DEFINE nights == check_in .. check_out - 1
           sold == Is(b, {"CONFIRMED"})
           given == IF sold THEN Charge(Nights(b), -booking[b].quantity) ELSE reserved
<1>1. /\ Is(b, {"PENDING_PAYMENT", "CONFIRMED"})
      /\ sold => CanGiveBack(b, booking[b].quantity)
      /\ Cardinality(S) <= quantity
      /\ \A r \in S : /\ InService(r)
                      /\ Overlapping(r, nights, Open \ {b}) = {}
                      /\ blocked[r] \cap nights = {}
      /\ booking' = [booking EXCEPT ![b] = Stay(@.status, check_in, check_out, quantity)]
      /\ assigned' = (assigned \ ({b} \X Rooms)) \cup ({b} \X S)
      /\ reserved' = [d \in Days |-> IF sold /\ d \in nights THEN given[d] + quantity
                                     ELSE given[d]]
      /\ UNCHANGED <<room, blocked>>
  BY DEF CorrectReservation
<1>2. /\ Stay(booking[b].status, check_in, check_out, quantity) \in Booking
      /\ quantity > 0
      /\ booking[b].quantity \in Nat
  BY StayType, BookingType DEF StayInv
<1>3. given \in [Days -> Nat]
  <2>1. CASE sold
    <3>1. -booking[b].quantity \in Int
      BY <1>2
    <3>2. \A d \in Days \cap Nights(b) : reserved[d] + (-booking[b].quantity) >= 0
      BY <1>1, <1>2, <2>1 DEF CanGiveBack, StayInv, StayTypeOK
    <3>3. QED
      BY <2>1, <3>1, <3>2, ChargeType DEF StayInv
  <2>2. CASE ~sold
    BY <2>2 DEF StayInv, StayTypeOK
  <2>3. QED
    BY <2>1, <2>2
<1>4. StayTypeOK'
  <2>1. reserved' \in [Days -> Nat]
    <3> HIDE DEF given, sold, nights
    <3>1. QED
      BY <1>1, <1>2, <1>3
  <2>2. QED
    BY <1>1, <1>2, <2>1 DEF StayInv, StayTypeOK
<1>5. /\ \A c \in Bookings \ {b} : booking'[c] = booking[c]
      /\ booking'[b] = Stay(booking[b].status, check_in, check_out, quantity)
  BY <1>1 DEF StayInv, StayTypeOK
<1>6. /\ booking'[b].status = booking[b].status
      /\ booking'[b].quantity = quantity
      /\ Nights(b)' \subseteq nights
      /\ ~Is(b, {"CHECKED_IN"})'
      /\ S # {} => (b \in Reserving)'
  BY <1>1, <1>5 DEF Stay, Is, Reserving, Nights, Days
<1>7. /\ \A r \in Rooms : <<b, r>> \in assigned' <=> r \in S
      /\ \A c \in Bookings \ {b}, r \in Rooms : <<c, r>> \in assigned' <=> <<c, r>> \in assigned
  BY <1>1
<1>8. Cardinality(RoomsOf(b)') <= booking'[b].quantity
  <2>1. RoomsOf(b)' = S
    BY <1>7 DEF RoomsOf
  <2>2. QED
    BY <1>1, <1>6, <2>1
<1>9. \A r \in Rooms : <<b, r>> \in assigned' =>
        /\ \A c \in Bookings \ {b} : <<c, r>> \in assigned => Nights(b)' \cap Nights(c) = {}
        /\ blocked[r] \cap Nights(b)' = {}
        /\ room'[r] # "OUT_OF_SERVICE"
  <2> SUFFICES ASSUME NEW r \in S
               PROVE  /\ \A c \in Bookings \ {b} : <<c, r>> \in assigned =>
                           nights \cap Nights(c) = {}
                      /\ blocked[r] \cap nights = {}
                      /\ room'[r] # "OUT_OF_SERVICE"
    BY <1>6, <1>7
  <2> HIDE DEF nights, given, sold
  <2>1. InService(r) /\ Overlapping(r, nights, Open \ {b}) = {} /\ blocked[r] \cap nights = {}
    BY <1>1
  <2>2. \A c \in Open \ {b} : <<c, r>> \in assigned => Nights(c) \cap nights = {}
    BY <2>1, OverlapNone
  <2>3. \A c \in Bookings \ {b} : <<c, r>> \in assigned => c \in Open \ {b}
    BY DEF StayInv, RoomsAreReserved, Reserving, Open, Is
  <2>4. QED
    BY <1>1, <2>1, <2>2, <2>3 DEF InService
<1>10. \A c \in Bookings \ {b}, r \in Rooms : <<c, r>> \in assigned /\ Is(c, {"CHECKED_IN"}) =>
         room[r] = "OCCUPIED"
  BY DEF StayInv, GuestsInside
<1>11. \A r \in Rooms : <<b, r>> \in assigned' => (b \in Reserving)'
  BY <1>6, <1>7
<1> HIDE DEF nights, given, sold
<1>12. QED
  BY <1>1, <1>2, <1>4, <1>5, <1>6, <1>7, <1>8, <1>9, <1>10, <1>11, OneBookingStep

-----------------------------------------------------------------------------
(* Room assignments. *)

\* A room more, while one is missing.
LEMMA AssignRoomStep ==
  ASSUME StayInv, NEW b \in Bookings, NEW r \in Rooms, AssignRoom(b, r)
  PROVE  StayInv'
<1>1. /\ Is(b, {"CONFIRMED"})
      /\ room[r] = "VACANT"
      /\ Cardinality(RoomsOf(b)) < booking[b].quantity
      /\ Free(r, Nights(b))
      /\ assigned' = assigned \cup {<<b, r>>}
      /\ UNCHANGED <<booking, room, blocked, reserved>>
  BY DEF AssignRoom
<1>2. StayTypeOK'
  BY <1>1 DEF StayInv, StayTypeOK
<1>3. /\ (b \in Reserving)' /\ ~Is(b, {"CHECKED_IN"})'
      /\ booking'[b].quantity > 0
      /\ Nights(b)' = Nights(b)
  BY <1>1 DEF Is, Reserving, Open, StayInv, WithinQuantity, Nights
<1>4. Cardinality(RoomsOf(b)') <= booking'[b].quantity
  <2>1. RoomsOf(b)' = RoomsOf(b) \cup {r}
    BY <1>1 DEF RoomsOf
  <2>2. /\ IsFiniteSet(RoomsOf(b))
        /\ Cardinality(RoomsOf(b)) \in Nat
    BY RoomsFinite
  <2>3. \/ Cardinality(RoomsOf(b) \cup {r}) = Cardinality(RoomsOf(b))
        \/ Cardinality(RoomsOf(b) \cup {r}) = Cardinality(RoomsOf(b)) + 1
    BY <2>2, FS_AddElement
  <2>4. booking[b].quantity \in Nat /\ booking' = booking
    BY <1>1, BookingType DEF StayInv
  <2>5. QED
    BY <1>1, <2>1, <2>2, <2>3, <2>4
<1>5. \A x \in Rooms : <<b, x>> \in assigned' =>
        /\ \A c \in Bookings \ {b} : <<c, x>> \in assigned => Nights(b)' \cap Nights(c) = {}
        /\ blocked[x] \cap Nights(b)' = {}
        /\ room'[x] # "OUT_OF_SERVICE"
  <2> SUFFICES ASSUME NEW x \in Rooms, <<b, x>> \in assigned'
               PROVE  /\ \A c \in Bookings \ {b} : <<c, x>> \in assigned =>
                           Nights(b) \cap Nights(c) = {}
                      /\ blocked[x] \cap Nights(b) = {}
                      /\ room[x] # "OUT_OF_SERVICE"
    BY <1>1, <1>3
  <2>1. CASE x = r
    <3>1. Overlapping(r, Nights(b), Open) = {} /\ blocked[r] \cap Nights(b) = {}
      BY <1>1 DEF Free
    <3>2. \A c \in Open : <<c, r>> \in assigned => Nights(c) \cap Nights(b) = {}
      BY <3>1, OverlapNone
    <3>3. \A c \in Bookings : <<c, r>> \in assigned => c \in Open
      BY DEF StayInv, RoomsAreReserved, Reserving, Open, Is
    <3>4. QED
      BY <1>1, <2>1, <3>1, <3>2, <3>3
  <2>2. CASE x # r
    BY <1>1, <2>2 DEF StayInv, StaysApart, RoomsUsable
  <2>3. QED
    BY <2>1, <2>2
<1>6. \A c \in Bookings \ {b}, x \in Rooms : <<c, x>> \in assigned /\ Is(c, {"CHECKED_IN"}) =>
        room[x] = "OCCUPIED"
  BY DEF StayInv, GuestsInside
<1>7. \A c \in Bookings \ {b}, x \in Rooms : <<c, x>> \in assigned' <=> <<c, x>> \in assigned
  BY <1>1
<1>8. QED
  BY <1>1, <1>2, <1>3, <1>4, <1>5, <1>6, <1>7, OneBookingStep

\* A room less, for a guest who has not come yet.
LEMMA UnassignRoomStep ==
  ASSUME StayInv, NEW b \in Bookings, NEW r \in Rooms, UnassignRoom(b, r)
  PROVE  StayInv'
<1>1. /\ Is(b, {"CONFIRMED"})
      /\ assigned' = assigned \ {<<b, r>>}
      /\ UNCHANGED <<booking, room, blocked, reserved>>
  BY DEF UnassignRoom, Unassign, Is
<1>2. StayTypeOK'
  BY <1>1 DEF StayInv, StayTypeOK
<1>3. /\ (b \in Reserving)' /\ ~Is(b, {"CHECKED_IN"})'
      /\ booking'[b].quantity > 0
      /\ Nights(b)' = Nights(b)
  BY <1>1 DEF Is, Reserving, Open, StayInv, WithinQuantity, Nights
<1>4. Cardinality(RoomsOf(b)') <= booking'[b].quantity
  <2>1. RoomsOf(b)' \subseteq RoomsOf(b)
    BY <1>1 DEF RoomsOf
  <2>2. IsFiniteSet(RoomsOf(b)) /\ Cardinality(RoomsOf(b)) <= booking[b].quantity
    BY RoomsFinite DEF StayInv, WithinQuantity
  <2>3. /\ Cardinality(RoomsOf(b)') <= Cardinality(RoomsOf(b))
        /\ Cardinality(RoomsOf(b)') \in Int /\ Cardinality(RoomsOf(b)) \in Int
    BY <2>1, <2>2, FS_Subset, FS_CardinalityType
  <2>4. booking[b].quantity \in Nat /\ booking' = booking
    BY <1>1, BookingType DEF StayInv
  <2>5. QED
    BY <2>2, <2>3, <2>4
<1>5. \A x \in Rooms : <<b, x>> \in assigned' =>
        /\ \A c \in Bookings \ {b} : <<c, x>> \in assigned => Nights(b)' \cap Nights(c) = {}
        /\ blocked[x] \cap Nights(b)' = {}
        /\ room'[x] # "OUT_OF_SERVICE"
  BY <1>1, <1>3 DEF StayInv, StaysApart, RoomsUsable
<1>6. \A c \in Bookings \ {b}, x \in Rooms : <<c, x>> \in assigned /\ Is(c, {"CHECKED_IN"}) =>
        room[x] = "OCCUPIED"
  BY DEF StayInv, GuestsInside
<1>7. \A c \in Bookings \ {b}, x \in Rooms : <<c, x>> \in assigned' <=> <<c, x>> \in assigned
  BY <1>1
<1>8. QED
  BY <1>1, <1>2, <1>3, <1>4, <1>5, <1>6, <1>7, OneBookingStep

\* A room in exchange for another one, which is vacant.
LEMMA ChangeRoomStep ==
  ASSUME StayInv, NEW b \in Bookings, NEW from \in Rooms, NEW to \in Rooms, ChangeRoom(b, from, to)
  PROVE  StayInv'
<1>1. /\ Is(b, {"CONFIRMED", "CHECKED_IN"})
      /\ <<b, from>> \in assigned
      /\ room[to] = "VACANT"
      /\ Overlapping(to, Nights(b), Reserving) = {}
      /\ blocked[to] \cap Nights(b) = {}
      /\ assigned' = (assigned \ {<<b, from>>}) \cup {<<b, to>>}
      /\ room' = IF Is(b, {"CHECKED_IN"})
                 THEN [room EXCEPT ![from] = "CLEANING", ![to] = "OCCUPIED"] ELSE room
      /\ UNCHANGED <<booking, blocked, reserved>>
  BY Zenon DEF ChangeRoom, Change, Is
<1>2. StayTypeOK'
  BY <1>1 DEF StayInv, StayTypeOK, RoomStatuses
<1>3. /\ (b \in Reserving)'
      /\ booking'[b].quantity > 0
      /\ Nights(b)' = Nights(b)
      /\ Is(b, {"CHECKED_IN"})' <=> Is(b, {"CHECKED_IN"})
  BY <1>1 DEF Is, Reserving, Open, StayInv, WithinQuantity, Nights
<1>4. Cardinality(RoomsOf(b)') <= booking'[b].quantity
  <2>1. /\ RoomsOf(b)' = (RoomsOf(b) \ {from}) \cup {to}
        /\ from \in RoomsOf(b)
    BY <1>1 DEF RoomsOf
  <2>2. /\ IsFiniteSet(RoomsOf(b))
        /\ Cardinality(RoomsOf(b)) \in Nat
    BY RoomsFinite
  <2>3. /\ IsFiniteSet(RoomsOf(b) \ {from})
        /\ Cardinality(RoomsOf(b) \ {from}) = Cardinality(RoomsOf(b)) - 1
    BY <2>1, <2>2, FS_RemoveElement
  <2>4. \/ Cardinality(RoomsOf(b)') = Cardinality(RoomsOf(b) \ {from})
        \/ Cardinality(RoomsOf(b)') = Cardinality(RoomsOf(b) \ {from}) + 1
    BY <2>1, <2>3, FS_AddElement
  <2>5. /\ booking[b].quantity \in Nat /\ booking' = booking
        /\ Cardinality(RoomsOf(b)) <= booking[b].quantity
    BY <1>1, BookingType DEF StayInv, WithinQuantity
  <2>6. QED
    BY <2>2, <2>3, <2>4, <2>5
<1>5. ASSUME NEW c \in Bookings \ {b}, NEW x \in Rooms, <<c, x>> \in assigned, Is(c, {"CHECKED_IN"})
      PROVE  room'[x] = "OCCUPIED" /\ x # to
  <2>1. /\ room[x] = "OCCUPIED"
        /\ \A a \in Bookings : <<a, x>> \in assigned /\ Is(a, {"CHECKED_IN"}) => a = c
    BY <1>5 DEF StayInv, GuestsInside
  <2>2. Is(b, {"CHECKED_IN"}) => x # from
    BY <1>1, <2>1
  <2>3. QED
    BY <1>1, <2>1, <2>2 DEF StayInv, StayTypeOK
<1>6. \A x \in Rooms : room'[x] = "OUT_OF_SERVICE" => room[x] = "OUT_OF_SERVICE"
  BY <1>1 DEF StayInv, StayTypeOK
<1>7. ASSUME NEW x \in Rooms, <<b, x>> \in assigned'
      PROVE  /\ \A c \in Bookings \ {b} : <<c, x>> \in assigned => Nights(b)' \cap Nights(c) = {}
             /\ blocked[x] \cap Nights(b)' = {}
             /\ room'[x] # "OUT_OF_SERVICE"
  <2>1. CASE x = to
    <3>1. \A c \in Reserving : <<c, to>> \in assigned => Nights(c) \cap Nights(b) = {}
      BY <1>1, OverlapNone
    <3>2. \A c \in Bookings : <<c, to>> \in assigned => c \in Reserving
      BY DEF StayInv, RoomsAreReserved
    <3>3. QED
      BY <1>1, <1>3, <1>6, <2>1, <3>1, <3>2
  <2>2. CASE x # to
    BY <1>1, <1>3, <1>6, <1>7, <2>2 DEF StayInv, StaysApart, RoomsUsable
  <2>3. QED
    BY <2>1, <2>2
<1>8. ASSUME Is(b, {"CHECKED_IN"})'
      PROVE  /\ \E x \in Rooms : <<b, x>> \in assigned'
             /\ \A x \in Rooms : <<b, x>> \in assigned' =>
                  /\ room'[x] = "OCCUPIED"
                  /\ \A c \in Bookings \ {b} : <<c, x>> \in assigned => ~Is(c, {"CHECKED_IN"})
  <2>1. /\ room' = [room EXCEPT ![from] = "CLEANING", ![to] = "OCCUPIED"]
        /\ from # to
        /\ \A x \in Rooms : <<b, x>> \in assigned => room[x] = "OCCUPIED"
    BY <1>1, <1>3, <1>8 DEF StayInv, GuestsInside
  <2>2. \A x \in Rooms : <<b, x>> \in assigned' => room'[x] = "OCCUPIED"
    BY <1>1, <2>1 DEF StayInv, StayTypeOK
  <2>3. ASSUME NEW x \in Rooms, <<b, x>> \in assigned', NEW c \in Bookings \ {b},
               <<c, x>> \in assigned
        PROVE  ~Is(c, {"CHECKED_IN"})
    <3>1. CASE x = to
      BY <1>5, <2>3, <3>1
    <3>2. CASE x # to
      BY <1>1, <1>3, <1>8, <2>3, <3>2 DEF StayInv, GuestsInside
    <3>3. QED
      BY <3>1, <3>2
  <2>4. QED
    BY <1>1, <2>2, <2>3
<1>9. \A c \in Bookings \ {b}, x \in Rooms : <<c, x>> \in assigned' <=> <<c, x>> \in assigned
  BY <1>1
<1>10. QED
  <2>1. \A c \in Bookings \ {b}, x \in Rooms : <<c, x>> \in assigned =>
          /\ Is(c, {"CHECKED_IN"}) => room'[x] = "OCCUPIED"
          /\ room'[x] = "OUT_OF_SERVICE" => room[x] = "OUT_OF_SERVICE"
    BY <1>5, <1>6
  <2>2. \A x \in Rooms : <<b, x>> \in assigned' =>
          /\ \A c \in Bookings \ {b} : <<c, x>> \in assigned => Nights(b)' \cap Nights(c) = {}
          /\ blocked[x] \cap Nights(b)' = {}
          /\ room'[x] # "OUT_OF_SERVICE"
    BY <1>7
  <2>3. blocked' = blocked /\ \A c \in Bookings \ {b} : booking'[c] = booking[c]
    BY <1>1
  <2>4. QED
    BY <1>2, <1>3, <1>4, <1>8, <1>9, <2>1, <2>2, <2>3, OneBookingStep

-----------------------------------------------------------------------------
(* Stays. *)

\* Whoever has all the rooms asked for has one, and nobody else is in them.
LEMMA CheckInStep ==
  ASSUME StayInv, NEW b \in Bookings, CheckIn(b)
  PROVE  StayInv'
<1>1. /\ Is(b, {"CONFIRMED"})
      /\ Cardinality(RoomsOf(b)) >= booking[b].quantity
      /\ \A r \in RoomsOf(b) \ Stale(b) : room[r] = "VACANT"
      /\ booking' = WithStatus(b, "CHECKED_IN")
      /\ room' = SetRooms(RoomsOf(b), "OCCUPIED")
      /\ UNCHANGED <<assigned, blocked, reserved>>
  BY DEF CheckIn, CanCheckIn
<1>2. StayTypeOK'
  <2>1. booking' \in [Bookings -> Booking]
    BY <1>1, BookingType DEF StayInv, BookingStatuses
  <2>2. room' \in [Rooms -> RoomStatuses]
    BY <1>1 DEF StayInv, StayTypeOK, SetRooms, RoomStatuses
  <2>3. QED
    BY <1>1, <2>1, <2>2 DEF StayInv, StayTypeOK
<1>3. /\ \A c \in Bookings \ {b} : booking'[c] = booking[c]
      /\ booking'[b].status = "CHECKED_IN"
      /\ booking'[b].quantity = booking[b].quantity
      /\ Nights(b)' = Nights(b)
  BY <1>1 DEF StayInv, StayTypeOK, Booking, WithStatus, Nights
<1>4. booking[b].quantity \in Nat /\ booking[b].quantity > 0
  BY <1>1, BookingType DEF StayInv, WithinQuantity, Is, Open
<1>5. RoomsOf(b) # {}
  BY <1>1, <1>4, FS_EmptySet
<1>6. ASSUME NEW r \in Rooms, <<b, r>> \in assigned, NEW c \in Bookings \ {b},
             <<c, r>> \in assigned
      PROVE  ~Is(c, {"CHECKED_IN"})
  <2>1. CASE r \in Stale(b)
    BY <1>6, <2>1 DEF Stale, Guests
  <2>2. CASE r \notin Stale(b)
    BY <1>1, <1>6, <2>2 DEF StayInv, GuestsInside, RoomsOf
  <2>3. QED
    BY <2>1, <2>2
<1>7. Cardinality(RoomsOf(b)') <= booking'[b].quantity
  BY <1>1, <1>3 DEF StayInv, WithinQuantity, RoomsOf
<1>8. \A r \in Rooms : <<b, r>> \in assigned' =>
        /\ \A c \in Bookings \ {b} : <<c, r>> \in assigned => Nights(b)' \cap Nights(c) = {}
        /\ blocked[r] \cap Nights(b)' = {}
        /\ room'[r] = "OCCUPIED"
  BY <1>1, <1>3 DEF StayInv, StaysApart, RoomsUsable, SetRooms, RoomsOf
<1>9. /\ \E r \in Rooms : <<b, r>> \in assigned'
      /\ (b \in Reserving)'
  BY <1>1, <1>3, <1>5 DEF RoomsOf, Reserving, Is
<1>10. \A c \in Bookings \ {b}, r \in Rooms : <<c, r>> \in assigned =>
         /\ Is(c, {"CHECKED_IN"}) => room'[r] = "OCCUPIED"
         /\ room'[r] = "OUT_OF_SERVICE" => room[r] = "OUT_OF_SERVICE"
  BY <1>1 DEF StayInv, GuestsInside, SetRooms
<1>11. QED
  BY <1>1, <1>2, <1>3, <1>4, <1>6, <1>7, <1>8, <1>9, <1>10, OneBookingStep

\* The rooms of a guest who leaves are cleaned, and nobody else was in them.
LEMMA CheckOutStep ==
  ASSUME StayInv, NEW b \in Bookings, CheckOut(b)
  PROVE  StayInv'
<1>1. /\ Is(b, {"CHECKED_IN"})
      /\ CanGiveBack(b, booking[b].quantity)
      /\ booking' = WithStatus(b, "CHECKED_OUT")
      /\ room' = SetRooms(RoomsOf(b), "CLEANING")
      /\ assigned' = assigned \ ({b} \X RoomsOf(b))
      /\ reserved' = Charge(Nights(b), -booking[b].quantity)
      /\ blocked' = blocked
  BY DEF CheckOut, CheckOutFrom
<1>2. booking[b].quantity \in Nat /\ booking' \in [Bookings -> Booking]
  BY <1>1, BookingType DEF StayInv, BookingStatuses
<1>3. StayTypeOK'
  <2>1. reserved' \in [Days -> Nat]
    <3>1. -booking[b].quantity \in Int
      BY <1>2
    <3>2. \A d \in Days \cap Nights(b) : reserved[d] + (-booking[b].quantity) >= 0
      BY <1>1, <1>2 DEF CanGiveBack, StayInv, StayTypeOK
    <3>3. QED
      BY <1>1, <3>1, <3>2, ChargeType DEF StayInv
  <2>2. room' \in [Rooms -> RoomStatuses]
    BY <1>1 DEF StayInv, StayTypeOK, SetRooms, RoomStatuses
  <2>3. QED
    BY <1>1, <1>2, <2>1, <2>2 DEF StayInv, StayTypeOK
<1>4. /\ \A c \in Bookings \ {b} : booking'[c] = booking[c]
      /\ booking'[b].status = "CHECKED_OUT"
      /\ booking'[b].quantity = booking[b].quantity
  BY <1>1 DEF StayInv, StayTypeOK, Booking, WithStatus
<1>5. /\ ~Is(b, {"CHECKED_IN"})'
      /\ b \notin Open'
  BY <1>4 DEF Is, Open
<1>6. /\ \A r \in Rooms : <<b, r>> \notin assigned'
      /\ \A c \in Bookings \ {b}, r \in Rooms : <<c, r>> \in assigned' <=> <<c, r>> \in assigned
  BY <1>1 DEF RoomsOf
<1>7. Cardinality(RoomsOf(b)') <= booking'[b].quantity
  <2>1. RoomsOf(b)' = {}
    BY <1>6 DEF RoomsOf
  <2>2. QED
    BY <1>2, <1>4, <2>1, FS_EmptySet
<1>8. \A c \in Bookings \ {b}, r \in Rooms : <<c, r>> \in assigned =>
        /\ Is(c, {"CHECKED_IN"}) => room'[r] = "OCCUPIED"
        /\ room'[r] = "OUT_OF_SERVICE" => room[r] = "OUT_OF_SERVICE"
  BY <1>1 DEF StayInv, GuestsInside, SetRooms, RoomsOf
<1>9. QED
  BY <1>1, <1>3, <1>4, <1>5, <1>6, <1>7, <1>8, OneBookingStep

\* A guest who gives one room back keeps the others, or leaves.
LEMMA CheckOutRoomStep ==
  ASSUME StayInv, NEW b \in Bookings, NEW r \in Rooms, CheckOutRoom(b, r)
  PROVE  StayInv'
<1>1. /\ Is(b, {"CHECKED_IN"})
      /\ r \in RoomsOf(b)
      /\ CanGiveBack(b, 1)
      /\ room' = [room EXCEPT ![r] = "CLEANING"]
      /\ assigned' = assigned \ {<<b, r>>}
      /\ booking' = IF RoomsOf(b) = {r} THEN WithStatus(b, "CHECKED_OUT") ELSE booking
      /\ reserved' = Charge(Nights(b), -1)
      /\ blocked' = blocked
  BY DEF CheckOutRoom
<1>2. booking[b].quantity \in Nat /\ booking' \in [Bookings -> Booking]
  BY <1>1, BookingType DEF StayInv, StayTypeOK, BookingStatuses
<1>3. StayTypeOK'
  <2>1. reserved' \in [Days -> Nat]
    <3>1. \A d \in Days \cap Nights(b) : reserved[d] + (-1) >= 0
      BY <1>1 DEF CanGiveBack, StayInv, StayTypeOK
    <3>2. -1 \in Int
      OBVIOUS
    <3>3. QED
      BY <1>1, <3>1, <3>2, ChargeType DEF StayInv
  <2>2. room' \in [Rooms -> RoomStatuses]
    BY <1>1 DEF StayInv, StayTypeOK, RoomStatuses
  <2>3. QED
    BY <1>1, <1>2, <2>1, <2>2 DEF StayInv, StayTypeOK
<1>4. /\ \A c \in Bookings \ {b} : booking'[c] = booking[c]
      /\ booking'[b].quantity = booking[b].quantity
      /\ booking'[b].status = IF RoomsOf(b) = {r} THEN "CHECKED_OUT" ELSE "CHECKED_IN"
      /\ Nights(b)' = Nights(b)
  BY <1>1 DEF StayInv, StayTypeOK, Booking, WithStatus, Nights, Is
<1>5. /\ \A x \in Rooms : <<b, x>> \in assigned' <=> <<b, x>> \in assigned /\ x # r
      /\ \A c \in Bookings \ {b}, x \in Rooms : <<c, x>> \in assigned' <=> <<c, x>> \in assigned
  BY <1>1
<1>6. Is(b, {"CHECKED_IN"})' => \E x \in Rooms : <<b, x>> \in assigned'
  BY <1>1, <1>4, <1>5 DEF RoomsOf, Is
<1>7. \A x \in Rooms : <<b, x>> \in assigned' => (b \in Reserving)'
  BY <1>1, <1>4, <1>5 DEF RoomsOf, Is, Reserving
<1>8. Cardinality(RoomsOf(b)') <= booking'[b].quantity
  <2>1. RoomsOf(b)' \subseteq RoomsOf(b)
    BY <1>5 DEF RoomsOf
  <2>2. IsFiniteSet(RoomsOf(b)) /\ Cardinality(RoomsOf(b)) <= booking[b].quantity
    BY RoomsFinite DEF StayInv, WithinQuantity
  <2>3. /\ Cardinality(RoomsOf(b)') <= Cardinality(RoomsOf(b))
        /\ Cardinality(RoomsOf(b)') \in Int /\ Cardinality(RoomsOf(b)) \in Int
    BY <2>1, <2>2, FS_Subset, FS_CardinalityType
  <2>4. QED
    BY <1>2, <1>4, <2>2, <2>3
<1>9. booking[b].quantity > 0
  BY <1>1 DEF StayInv, WithinQuantity, Is, Open
<1>10. ASSUME NEW x \in Rooms, <<b, x>> \in assigned, x # r
       PROVE  /\ \A c \in Bookings \ {b} : <<c, x>> \in assigned =>
                   Nights(b) \cap Nights(c) = {} /\ ~Is(c, {"CHECKED_IN"})
              /\ blocked[x] \cap Nights(b) = {}
              /\ room'[x] = "OCCUPIED"
  <2>1. /\ room[x] = "OCCUPIED"
        /\ \A c \in Bookings : <<c, x>> \in assigned /\ Is(c, {"CHECKED_IN"}) => c = b
    BY <1>1, <1>10 DEF StayInv, GuestsInside
  <2>2. room'[x] = "OCCUPIED"
    BY <1>1, <1>10, <2>1 DEF StayInv, StayTypeOK
  <2>3. QED
    BY <1>10, <2>1, <2>2 DEF StayInv, StaysApart, RoomsUsable
<1>11. \A c \in Bookings \ {b}, x \in Rooms : <<c, x>> \in assigned =>
         /\ Is(c, {"CHECKED_IN"}) => room'[x] = "OCCUPIED"
         /\ room'[x] = "OUT_OF_SERVICE" => room[x] = "OUT_OF_SERVICE"
  BY <1>1 DEF StayInv, StayTypeOK, GuestsInside, RoomsOf
<1>12. \A x \in Rooms : <<b, x>> \in assigned' =>
         /\ \A c \in Bookings \ {b} : <<c, x>> \in assigned => Nights(b)' \cap Nights(c) = {}
         /\ blocked[x] \cap Nights(b)' = {}
         /\ room'[x] # "OUT_OF_SERVICE"
  BY <1>4, <1>5, <1>10
<1>13. \A x \in Rooms : <<b, x>> \in assigned' =>
         /\ room'[x] = "OCCUPIED"
         /\ \A c \in Bookings \ {b} : <<c, x>> \in assigned => ~Is(c, {"CHECKED_IN"})
  BY <1>5, <1>10
<1>14. QED
  BY <1>1, <1>3, <1>4, <1>5, <1>6, <1>7, <1>8, <1>9, <1>11, <1>12, <1>13, OneBookingStep

-----------------------------------------------------------------------------
(* Housekeeping. *)

\* A room that is marked has no guest in it, and none is marked OUT_OF_SERVICE
\* under a reservation.
LEMMA MarkRoomStep ==
  ASSUME StayInv, NEW r \in Rooms, NEW status \in RoomStatuses, MarkRoom(r, status)
  PROVE  StayInv'
<1>1. /\ room[r] # "OCCUPIED"
      /\ status = "OUT_OF_SERVICE" => \A b \in Reserving : <<b, r>> \notin assigned
      /\ room' = [room EXCEPT ![r] = status]
      /\ UNCHANGED <<booking, assigned, blocked, reserved>>
  BY DEF MarkRoom, MayMark, Mark
<1>2. StayTypeOK'
  BY <1>1 DEF StayInv, StayTypeOK
<1>3. RoomsAreReserved' /\ WithinQuantity' /\ StaysApart'
  BY <1>1 DEF StayInv, RoomsAreReserved, WithinQuantity, StaysApart, Reserving, Open, Is, RoomsOf,
              Nights
<1>4. GuestsInside'
  BY <1>1 DEF StayInv, StayTypeOK, GuestsInside, Is
<1>5. RoomsUsable'
  <2> SUFFICES ASSUME NEW b \in Bookings, NEW x \in Rooms, <<b, x>> \in assigned
               PROVE  blocked[x] \cap Nights(b) = {} /\ room'[x] # "OUT_OF_SERVICE"
    BY <1>1 DEF RoomsUsable, Nights
  <2>1. /\ blocked[x] \cap Nights(b) = {} /\ room[x] # "OUT_OF_SERVICE"
        /\ b \in Reserving
    BY DEF StayInv, RoomsUsable, RoomsAreReserved
  <2>2. QED
    BY <1>1, <2>1 DEF StayInv, StayTypeOK
<1>6. QED
  BY <1>2, <1>3, <1>4, <1>5 DEF StayInv

\* A block that is made or taken away crosses no reservation.
LEMMA BlockStep ==
  ASSUME StayInv, NEW r \in Rooms, NEW nights \in SUBSET Days,
         Overlapping(r, nights, Reserving) = {}, Block(r, nights)
  PROVE  StayInv'
<1>1. /\ blocked' = [blocked EXCEPT ![r] = nights]
      /\ UNCHANGED <<booking, room, assigned, reserved>>
  BY DEF Block
<1>2. StayTypeOK'
  BY <1>1 DEF StayInv, StayTypeOK
<1>3. RoomsAreReserved' /\ WithinQuantity' /\ StaysApart' /\ GuestsInside'
  BY <1>1 DEF StayInv, RoomsAreReserved, WithinQuantity, StaysApart, GuestsInside, Reserving, Open,
              Is, RoomsOf, Nights
<1>4. RoomsUsable'
  <2> SUFFICES ASSUME NEW b \in Bookings, NEW x \in Rooms, <<b, x>> \in assigned
               PROVE  blocked'[x] \cap Nights(b) = {} /\ room[x] # "OUT_OF_SERVICE"
    BY <1>1 DEF RoomsUsable, Nights
  <2>1. /\ blocked[x] \cap Nights(b) = {} /\ room[x] # "OUT_OF_SERVICE"
        /\ b \in Reserving
    BY DEF StayInv, RoomsUsable, RoomsAreReserved
  <2>2. \A c \in Reserving : <<c, r>> \in assigned => Nights(c) \cap nights = {}
    BY OverlapNone
  <2>3. QED
    BY <1>1, <2>1, <2>2 DEF StayInv, StayTypeOK
<1>5. QED
  BY <1>2, <1>3, <1>4 DEF StayInv

-----------------------------------------------------------------------------
(* The invariant. *)

LEMMA StayInitInv == StayInit => StayInv
<1> SUFFICES ASSUME StayInit PROVE StayInv
  OBVIOUS
<1>1. StayTypeOK
  BY RoomsAssumption DEF StayInit, StayTypeOK, Stay, Booking, BookingStatuses, RoomStatuses, Days
<1>2. \A b \in Bookings : RoomsOf(b) = {} /\ booking[b].quantity = 0 /\ b \notin Open
                         /\ ~Is(b, {"CHECKED_IN"})
  BY DEF StayInit, RoomsOf, Stay, Open, Is
<1>3. WithinQuantity
  BY <1>2, FS_EmptySet DEF WithinQuantity
<1>4. RoomsAreReserved /\ StaysApart /\ GuestsInside /\ RoomsUsable
  BY <1>2 DEF StayInit, RoomsAreReserved, StaysApart, GuestsInside, RoomsUsable
<1>5. QED
  BY <1>1, <1>3, <1>4 DEF StayInv

LEMMA StayNextInv == StayInv /\ [StayNext]_stayVars => StayInv'
<1> SUFFICES ASSUME StayInv, [StayNext]_stayVars PROVE StayInv'
  OBVIOUS
<1>1. CASE UNCHANGED stayVars
  BY <1>1 DEF stayVars, StayInv, StayTypeOK, RoomsAreReserved, WithinQuantity, StaysApart,
              GuestsInside, RoomsUsable, Reserving, Open, Is, RoomsOf, Nights
<1>2. ASSUME NEW b \in Bookings, Reservations(b) PROVE StayInv'
  BY <1>2, CreateBookingStep, ReserveAtDeskStep, WalkInStep, RecordPaymentStep, CancelBookingStep
     DEF Reservations
<1>3. ASSUME NEW b \in Bookings, Corrections(b) PROVE StayInv'
  BY <1>3, CorrectReservationStep DEF Corrections
<1>4. ASSUME NEW b \in Bookings, Assigning(b) PROVE StayInv'
  BY <1>4, AssignRoomStep DEF Assigning
<1>5. ASSUME NEW b \in Bookings, Stays(b) PROVE StayInv'
  BY <1>5, CheckInStep, CheckOutStep, UnassignRoomStep, CheckOutRoomStep, ChangeRoomStep DEF Stays
<1>6. ASSUME NEW r \in Rooms, Housekeeping(r) PROVE StayInv'
  <2>1. CASE \E status \in RoomStatuses : MarkRoom(r, status)
    BY <2>1, MarkRoomStep
  <2>2. CASE \E nights \in Intervals : BlockRoom(r, nights)
    <3>1. Intervals \subseteq SUBSET Days
      BY RoomsAssumption DEF Intervals, Days
    <3>2. QED
      BY <2>2, <3>1, BlockStep DEF BlockRoom, MayBlock
  <2>3. CASE UnblockRoom(r)
    <3>1. Overlapping(r, {}, Reserving) = {}
      BY DEF Overlapping
    <3>2. QED
      BY <2>3, <3>1, BlockStep DEF UnblockRoom
  <2>4. QED
    BY <1>6, <2>1, <2>2, <2>3 DEF Housekeeping
<1>7. QED
  BY <1>1, <1>2, <1>3, <1>4, <1>5, <1>6 DEF StayNext

\* StayInv holds in every state of the hotel.
THEOREM StaysInvariant == StaySpec => []StayInv
<1>1. QED
  BY StayInitInv, StayNextInv, PTL DEF StaySpec

-----------------------------------------------------------------------------
(* What the hotel promises. *)

\* A set whose members are all the same has one, if any.
LEMMA OnlyOne ==
  ASSUME NEW S, \A x, y \in S : x = y
  PROVE  /\ Cardinality(S) <= 1
         /\ S # {} => Cardinality(S) = 1
<1>1. CASE S = {}
  BY <1>1, FS_EmptySet
<1>2. CASE S # {}
  <2>1. PICK x \in S : TRUE
    BY <1>2
  <2>2. S = {x}
    BY <2>1
  <2>3. Cardinality({x}) = 1
    BY FS_Singleton
  <2>4. QED
    BY <2>2, <2>3
<1>3. QED
  BY <1>1, <1>2

\* Two reservations never have the same physical room on the same night,
\* whichever requests of StaySpec gave it, one after the other.
THEOREM NeverPromisedTwice == StaySpec => []NoRoomPromisedTwice
<1>1. StayInv => NoRoomPromisedTwice
  <2> SUFFICES ASSUME StayInv, NEW r \in Rooms, NEW d \in Days
               PROVE  Cardinality({b \in Reserving : <<b, r>> \in assigned /\ d \in Nights(b)}) <= 1
    BY DEF NoRoomPromisedTwice
  <2> DEFINE S == {b \in Reserving : <<b, r>> \in assigned /\ d \in Nights(b)}
  <2>1. \A b, c \in S : b = c
    BY DEF StayInv, StaysApart, Reserving
  <2>2. QED
    BY <2>1, OnlyOne
<1>2. QED
  BY <1>1, StaysInvariant, PTL

\* A guest who is checked in has a room, and every room of theirs is OCCUPIED
\* by them alone.
THEOREM GuestsAreHoused == StaySpec => []GuestsHaveTheirRooms
<1>1. StayInv => GuestsHaveTheirRooms
  BY DEF StayInv, GuestsInside, GuestsHaveTheirRooms, RoomsOf, Guests
<1>2. QED
  BY <1>1, StaysInvariant, PTL

\* No booking has more rooms than it paid for, and none has any once closed.
THEOREM NoRoomTooMany == StaySpec => []RoomsWithinBooking
<1>1. StayInv => RoomsWithinBooking
  <2> SUFFICES ASSUME StayInv, NEW b \in Bookings
               PROVE  Cardinality(RoomsOf(b)) <= IF b \in Reserving THEN booking[b].quantity ELSE 0
    BY DEF RoomsWithinBooking
  <2>1. CASE b \in Reserving
    BY <2>1 DEF StayInv, WithinQuantity
  <2>2. CASE b \notin Reserving
    BY <2>2, NoRoomsYet, FS_EmptySet
  <2>3. QED
    BY <2>1, <2>2
<1>2. QED
  BY <1>1, StaysInvariant, PTL

\* No reservation is left on a room that is blocked for one of its nights or out
\* of service.
THEOREM RoomsStayUsable == StaySpec => []ReservedRoomsUsable
<1>1. StayInv => ReservedRoomsUsable
  BY DEF StayInv, RoomsUsable, ReservedRoomsUsable, RoomsOf, Reserving
<1>2. QED
  BY <1>1, StaysInvariant, PTL

-----------------------------------------------------------------------------
(* The board.  Its specification adds to a step of the hotel only what is    *)
(* remembered of it.                                                         *)

\* Every step the board sees is one of the hotel's.
LEMMA BoardStepIsStayStep == BoardNext => StayNext
<1> SUFFICES ASSUME BoardNext PROVE StayNext
  OBVIOUS
<1>1. CASE \E b \in Bookings : CorrectedBooking(b)
  BY <1>1 DEF CorrectedBooking, StayNext
<1>2. CASE \E r \in Rooms : HouseRoom(r)
  BY <1>2 DEF HouseRoom, Housekeeping, StayNext
<1>3. ASSUME NEW b \in Bookings, NEW check_in \in Days, NEW check_out \in 1 .. LastDay + 1,
             \/ \E quantity \in 1 .. MaxQuantity : OtaBooking(b, check_in, check_out, quantity)
             \/ AdminReservation(b, check_in, check_out)
             \/ WalkInBooking(b, check_in, check_out)
      PROVE  StayNext
  <2>1. Reservations(b)
    BY <1>3 DEF OtaBooking, AdminReservation, WalkInBooking, Reservations
  <2>2. QED
    BY <2>1 DEF StayNext
<1>4. ASSUME NEW b \in Bookings, PayOrCancel(b) \/ RoomOfBooking(b) \/ GuestOfBooking(b)
      PROVE  StayNext
  <2>1. Reservations(b) \/ Assigning(b) \/ Stays(b)
    BY <1>4 DEF PayOrCancel, RoomOfBooking, GuestOfBooking, Reservations, Assigning, Stays
  <2>2. QED
    BY <2>1 DEF StayNext
<1>5. QED
  BY <1>1, <1>2, <1>3, <1>4 DEF BoardNext

\* What is proved of the hotel holds of the hotel with its board: RoomBoard
\* implements RoomStays.
THEOREM BoardImplementsStays == BoardSpec => StaySpec
<1>1. BoardInit => StayInit
  BY DEF BoardInit
<1>2. [BoardNext]_boardVars => [StayNext]_stayVars
  BY BoardStepIsStayStep DEF boardVars, stayVars
<1>3. QED
  BY <1>1, <1>2, PTL DEF BoardSpec, StaySpec

\* A room marked OCCUPIED has a guest in it, while requests do not overlap.
OccupiedByGuest == \A r \in Rooms : room[r] = "OCCUPIED" => Guests(r) # {}

\* Bookings that are open have a night.
DatesInOrder == \A b \in Open : booking[b].check_in < booking[b].check_out

BoardInv == StayInv /\ BoardTypeOK /\ OccupiedByGuest /\ DatesInOrder /\ HistoryTellsStatus

\* A step that changes one booking keeps both, if it leaves no room OCCUPIED that
\* loses its guest.
LEMMA OneGuestStep ==
  ASSUME DatesInOrder, OccupiedByGuest, NEW b \in Bookings,
         \A c \in Bookings \ {b} : booking'[c] = booking[c],
         \A c \in Bookings \ {b}, r \in Rooms : <<c, r>> \in assigned' <=> <<c, r>> \in assigned,
         (b \in Open)' => booking'[b].check_in < booking'[b].check_out,
         \A r \in Rooms :
           room'[r] = "OCCUPIED" /\ ~(<<b, r>> \in assigned' /\ Is(b, {"CHECKED_IN"})') =>
             room[r] = "OCCUPIED" /\ ~(<<b, r>> \in assigned /\ Is(b, {"CHECKED_IN"}))
  PROVE  DatesInOrder' /\ OccupiedByGuest'
<1>1. DatesInOrder'
  BY DEF DatesInOrder, Open, Is
<1>2. OccupiedByGuest'
  <2> SUFFICES ASSUME NEW r \in Rooms, room'[r] = "OCCUPIED"
               PROVE  \E c \in Bookings : <<c, r>> \in assigned' /\ Is(c, {"CHECKED_IN"})'
    BY DEF OccupiedByGuest, Guests
  <2>1. CASE <<b, r>> \in assigned' /\ Is(b, {"CHECKED_IN"})'
    BY <2>1
  <2>2. CASE ~(<<b, r>> \in assigned' /\ Is(b, {"CHECKED_IN"})')
    <3>1. room[r] = "OCCUPIED" /\ ~(<<b, r>> \in assigned /\ Is(b, {"CHECKED_IN"}))
      BY <2>2
    <3>2. PICK c \in Bookings : <<c, r>> \in assigned /\ Is(c, {"CHECKED_IN"})
      BY <3>1 DEF OccupiedByGuest, Guests
    <3>3. c # b /\ Is(c, {"CHECKED_IN"})'
      BY <3>1, <3>2 DEF Is
    <3>4. QED
      BY <3>2, <3>3
  <2>3. QED
    BY <2>1, <2>2
<1>3. QED
  BY <1>1, <1>2

\* Whatever is done to one booking.
LEMMA BookingGuestStep ==
  ASSUME StayInv, DatesInOrder, OccupiedByGuest, NEW b \in Bookings,
         Reservations(b) \/ Corrections(b) \/ Assigning(b) \/ Stays(b)
  PROVE  DatesInOrder' /\ OccupiedByGuest'
<1> USE DEF StayInv, StayTypeOK
<1>1. ASSUME NEW check_in \in Days, NEW check_out \in 1 .. LastDay + 1,
             NEW quantity \in 1 .. MaxQuantity, CreateBooking(b, check_in, check_out, quantity)
      PROVE  DatesInOrder' /\ OccupiedByGuest'
  <2>1. /\ ~Is(b, {"CHECKED_IN"})
        /\ check_in < check_out
        /\ booking' = [booking EXCEPT ![b] = Stay("PENDING_PAYMENT", check_in, check_out, quantity)]
        /\ UNCHANGED <<room, assigned>>
    BY <1>1 DEF CreateBooking, Accepts, Is
  <2>2. /\ \A c \in Bookings \ {b} : booking'[c] = booking[c]
        /\ booking'[b].check_in < booking'[b].check_out
        /\ ~Is(b, {"CHECKED_IN"})'
    BY <2>1 DEF Stay, Is
  <2>3. QED
    BY <2>1, <2>2, OneGuestStep
<1>2. ASSUME NEW check_in \in Days, NEW check_out \in 1 .. LastDay + 1, NEW quantity,
             NEW S \in SUBSET Rooms, NEW pool, NEW status \in {"CONFIRMED", "CHECKED_IN"},
             AtDesk(b, status, check_in, check_out, quantity, S, pool),
             room' = IF status = "CHECKED_IN" THEN SetRooms(S, "OCCUPIED") ELSE room
      PROVE  DatesInOrder' /\ OccupiedByGuest'
  <2>1. /\ ~Is(b, {"CHECKED_IN"})
        /\ check_in < check_out
        /\ booking' = [booking EXCEPT ![b] = Stay(status, check_in, check_out, quantity)]
        /\ assigned' = assigned \cup ({b} \X S)
    BY <1>2 DEF AtDesk, Accepts, Is
  <2>2. /\ \A c \in Bookings \ {b} : booking'[c] = booking[c]
        /\ booking'[b].check_in < booking'[b].check_out
        /\ Is(b, {"CHECKED_IN"})' <=> status = "CHECKED_IN"
    BY <2>1 DEF Stay, Is
  <2>3. \A c \in Bookings \ {b}, r \in Rooms : <<c, r>> \in assigned' <=> <<c, r>> \in assigned
    BY <2>1
  <2>4. \A r \in Rooms :
          room'[r] = "OCCUPIED" /\ ~(<<b, r>> \in assigned' /\ Is(b, {"CHECKED_IN"})') =>
            room[r] = "OCCUPIED"
    BY <1>2, <2>1, <2>2 DEF SetRooms
  <2>5. QED
    BY <2>1, <2>2, <2>3, <2>4, OneGuestStep
<1>3. ASSUME NEW check_in \in Days, NEW check_out \in 1 .. LastDay + 1,
             NEW quantity \in 1 .. MaxQuantity, NEW S \in SUBSET Rooms,
             ReserveAtDesk(b, check_in, check_out, quantity, S)
      PROVE  DatesInOrder' /\ OccupiedByGuest'
  <2>1. /\ AtDesk(b, "CONFIRMED", check_in, check_out, quantity, S, reserved)
        /\ room' = room
    BY <1>3 DEF ReserveAtDesk
  <2>2. QED
    BY <1>2, <2>1
<1>4. ASSUME NEW check_in \in Days, NEW check_out \in 1 .. LastDay + 1,
             NEW S \in SUBSET Rooms, NEW immediately \in BOOLEAN,
             WalkIn(b, check_in, check_out, S, immediately)
      PROVE  DatesInOrder' /\ OccupiedByGuest'
  <2> DEFINE status == IF immediately THEN "CHECKED_IN" ELSE "CONFIRMED"
             pool == [d \in Days |-> QuantityOn(Reserving, d)]
  <2>1. /\ AtDesk(b, status, check_in, check_out, Cardinality(S), S, pool)
        /\ room' = IF status = "CHECKED_IN" THEN SetRooms(S, "OCCUPIED") ELSE room
        /\ status \in {"CONFIRMED", "CHECKED_IN"}
    BY <1>4 DEF WalkIn
  <2> HIDE DEF status, pool
  <2>2. QED
    BY <1>2, <2>1
<1>5. ASSUME RecordPayment(b)
      PROVE  DatesInOrder' /\ OccupiedByGuest'
  <2>1. /\ Is(b, {"PENDING_PAYMENT"})
        /\ booking' = WithStatus(b, "CONFIRMED")
        /\ room' = room
        /\ \E S : assigned' = assigned \cup ({b} \X S)
    BY <1>5 DEF RecordPayment, Confirm
  <2>2. /\ \A c \in Bookings \ {b} : booking'[c] = booking[c]
        /\ booking'[b].check_in < booking'[b].check_out
        /\ ~Is(b, {"CHECKED_IN"})
    BY <2>1 DEF WithStatus, Booking, DatesInOrder, Open, Is
  <2>3. \A c \in Bookings \ {b}, r \in Rooms : <<c, r>> \in assigned' <=> <<c, r>> \in assigned
    BY <2>1
  <2>4. QED
    BY <2>1, <2>2, <2>3, OneGuestStep
<1>6. ASSUME CancelBooking(b)
      PROVE  DatesInOrder' /\ OccupiedByGuest'
  <2>1. /\ Is(b, {"PENDING_PAYMENT", "CONFIRMED"})
        /\ booking' = WithStatus(b, "CANCELED")
        /\ assigned' = assigned \ ({b} \X RoomsOf(b))
        /\ room' = SetRooms({r \in RoomsOf(b) : room[r] = "OCCUPIED" /\ Guests(r) = {}}, "VACANT")
    BY <1>6 DEF CancelBooking, Cancel
  <2>2. /\ \A c \in Bookings \ {b} : booking'[c] = booking[c]
        /\ b \notin Open'
        /\ ~Is(b, {"CHECKED_IN"})
    BY <2>1 DEF WithStatus, Booking, Open, Is
  <2>3. /\ \A c \in Bookings \ {b}, r \in Rooms : <<c, r>> \in assigned' <=> <<c, r>> \in assigned
        /\ \A r \in Rooms : room'[r] = "OCCUPIED" => room[r] = "OCCUPIED"
    BY <2>1 DEF SetRooms
  <2>4. QED
    BY <2>2, <2>3, OneGuestStep
<1>7. ASSUME Corrections(b)
      PROVE  DatesInOrder' /\ OccupiedByGuest'
  <2>1. PICK check_in \in Days, check_out \in 1 .. LastDay + 1, quantity \in 1 .. MaxQuantity,
             S \in SUBSET Rooms : CorrectReservation(b, check_in, check_out, quantity, S)
    BY <1>7 DEF Corrections
  <2>2. /\ Is(b, {"PENDING_PAYMENT", "CONFIRMED"})
        /\ check_in < check_out
        /\ booking' = [booking EXCEPT ![b] = Stay(@.status, check_in, check_out, quantity)]
        /\ assigned' = (assigned \ ({b} \X Rooms)) \cup ({b} \X S)
        /\ room' = room
    BY <2>1 DEF CorrectReservation
  <2>3. /\ \A c \in Bookings \ {b} : booking'[c] = booking[c]
        /\ booking'[b].check_in < booking'[b].check_out
        /\ ~Is(b, {"CHECKED_IN"})
    BY <2>2 DEF Stay, Is
  <2>4. \A c \in Bookings \ {b}, r \in Rooms : <<c, r>> \in assigned' <=> <<c, r>> \in assigned
    BY <2>2
  <2>5. QED
    BY <2>2, <2>3, <2>4, OneGuestStep
<1>8. ASSUME NEW r \in Rooms, AssignRoom(b, r) \/ UnassignRoom(b, r)
      PROVE  DatesInOrder' /\ OccupiedByGuest'
  <2>1. /\ UNCHANGED <<booking, room>>
        /\ ~Is(b, {"CHECKED_IN"})
        /\ (b \in Open)' => booking'[b].check_in < booking'[b].check_out
    BY <1>8 DEF AssignRoom, UnassignRoom, Unassign, Is, DatesInOrder, Open
  <2>2. \A c \in Bookings \ {b}, x \in Rooms : <<c, x>> \in assigned' <=> <<c, x>> \in assigned
    BY <1>8 DEF AssignRoom, UnassignRoom, Unassign
  <2>3. QED
    BY <2>1, <2>2, OneGuestStep
<1>9. ASSUME NEW from \in Rooms, NEW to \in Rooms, ChangeRoom(b, from, to)
      PROVE  DatesInOrder' /\ OccupiedByGuest'
  <2>1. /\ <<b, from>> \in assigned
        /\ assigned' = (assigned \ {<<b, from>>}) \cup {<<b, to>>}
        /\ room' = IF Is(b, {"CHECKED_IN"})
                   THEN [room EXCEPT ![from] = "CLEANING", ![to] = "OCCUPIED"] ELSE room
        /\ booking' = booking
    BY <1>9, Zenon DEF ChangeRoom, Change, Is
  <2>2. /\ (b \in Open)' => booking'[b].check_in < booking'[b].check_out
        /\ Is(b, {"CHECKED_IN"})' <=> Is(b, {"CHECKED_IN"})
    BY <2>1 DEF DatesInOrder, Open, Is
  <2>3. \A c \in Bookings \ {b}, x \in Rooms : <<c, x>> \in assigned' <=> <<c, x>> \in assigned
    BY <2>1
  <2>4. \A x \in Rooms :
          room'[x] = "OCCUPIED" /\ ~(<<b, x>> \in assigned' /\ Is(b, {"CHECKED_IN"})') =>
            room[x] = "OCCUPIED" /\ ~(<<b, x>> \in assigned /\ Is(b, {"CHECKED_IN"}))
    BY <2>1, <2>2
  <2>5. QED
    BY <2>1, <2>2, <2>3, <2>4, OneGuestStep
<1>10. ASSUME CheckIn(b)
       PROVE  DatesInOrder' /\ OccupiedByGuest'
  <2>1. /\ Is(b, {"CONFIRMED"})
        /\ booking' = WithStatus(b, "CHECKED_IN")
        /\ room' = SetRooms(RoomsOf(b), "OCCUPIED")
        /\ assigned' = assigned
    BY <1>10 DEF CheckIn, CanCheckIn
  <2>2. /\ \A c \in Bookings \ {b} : booking'[c] = booking[c]
        /\ booking'[b].check_in < booking'[b].check_out
        /\ ~Is(b, {"CHECKED_IN"})
        /\ Is(b, {"CHECKED_IN"})'
    BY <2>1 DEF WithStatus, Booking, DatesInOrder, Open, Is
  <2>3. \A x \in Rooms : room'[x] = "OCCUPIED" /\ <<b, x>> \notin assigned => room[x] = "OCCUPIED"
    BY <2>1 DEF SetRooms, RoomsOf
  <2>4. QED
    BY <2>1, <2>2, <2>3, OneGuestStep
<1>11. ASSUME CheckOut(b)
       PROVE  DatesInOrder' /\ OccupiedByGuest'
  <2>1. /\ booking' = WithStatus(b, "CHECKED_OUT")
        /\ room' = SetRooms(RoomsOf(b), "CLEANING")
        /\ assigned' = assigned \ ({b} \X RoomsOf(b))
    BY <1>11 DEF CheckOut, CheckOutFrom
  <2>2. /\ \A c \in Bookings \ {b} : booking'[c] = booking[c]
        /\ b \notin Open'
    BY <2>1 DEF WithStatus, Booking, Open, Is
  <2>3. /\ \A c \in Bookings \ {b}, r \in Rooms : <<c, r>> \in assigned' <=> <<c, r>> \in assigned
        /\ \A x \in Rooms : room'[x] = "OCCUPIED" => room[x] = "OCCUPIED" /\ <<b, x>> \notin assigned
    BY <2>1 DEF SetRooms, RoomsOf
  <2>4. QED
    BY <2>2, <2>3, OneGuestStep
<1>12. ASSUME NEW r \in Rooms, CheckOutRoom(b, r)
       PROVE  DatesInOrder' /\ OccupiedByGuest'
  <2>1. /\ Is(b, {"CHECKED_IN"})
        /\ r \in RoomsOf(b)
        /\ room' = [room EXCEPT ![r] = "CLEANING"]
        /\ assigned' = assigned \ {<<b, r>>}
        /\ booking' = IF RoomsOf(b) = {r} THEN WithStatus(b, "CHECKED_OUT") ELSE booking
    BY <1>12 DEF CheckOutRoom
  <2>2. /\ \A c \in Bookings \ {b} : booking'[c] = booking[c]
        /\ booking'[b].check_in < booking'[b].check_out
        /\ Is(b, {"CHECKED_IN"})' \/ RoomsOf(b) = {r}
    BY <2>1 DEF WithStatus, Booking, DatesInOrder, Open, Is
  <2>3. /\ \A c \in Bookings \ {b}, x \in Rooms : <<c, x>> \in assigned' <=> <<c, x>> \in assigned
        /\ \A x \in Rooms : <<b, x>> \in assigned' <=> x \in RoomsOf(b) \ {r}
    BY <2>1 DEF RoomsOf
  <2>4. \A x \in Rooms :
          room'[x] = "OCCUPIED" /\ ~(<<b, x>> \in assigned' /\ Is(b, {"CHECKED_IN"})') =>
            room[x] = "OCCUPIED" /\ <<b, x>> \notin assigned
    BY <2>1, <2>2, <2>3 DEF RoomsOf
  <2>5. QED
    BY <2>2, <2>3, <2>4, OneGuestStep
<1>13. QED
  BY <1>1, <1>3, <1>4, <1>5, <1>6, <1>7, <1>8, <1>9, <1>10, <1>11, <1>12
     DEF Reservations, Assigning, Stays

\* Housekeeping makes no room OCCUPIED, and no guest's room anything else.
LEMMA HousekeepingGuestStep ==
  ASSUME StayInv, DatesInOrder, OccupiedByGuest, NEW r \in Rooms, Housekeeping(r)
  PROVE  DatesInOrder' /\ OccupiedByGuest'
<1>1. /\ UNCHANGED <<booking, assigned>>
      /\ \A x \in Rooms : room'[x] = "OCCUPIED" => room[x] = "OCCUPIED"
  BY DEF Housekeeping, MarkRoom, MayMark, Mark, BlockRoom, UnblockRoom, Block, StayInv, StayTypeOK
<1>2. QED
  BY <1>1 DEF DatesInOrder, OccupiedByGuest, Open, Guests, Is

\* A handler that touches only rooms it logs leaves the log up to date.
LEMMA LoggedStep ==
  ASSUME StayTypeOK, StayTypeOK', HistoryTellsStatus, NEW S,
         \A r \in Rooms \ S : room'[r] = room[r],
         Logged(S)
  PROVE  HistoryTellsStatus'
<1>1. told' = [r \in Rooms |-> room'[r]]
  BY DEF Logged, HistoryTellsStatus
<1>2. QED
  BY <1>1 DEF StayTypeOK, HistoryTellsStatus

\* Every handler logs the rooms whose status it changes.  A cancellation logs
\* none, and rightly: no room of a reservation is OCCUPIED without a guest.
LEMMA HistoryStep ==
  ASSUME StayInv, StayTypeOK', OccupiedByGuest, HistoryTellsStatus, BoardNext
  PROVE  HistoryTellsStatus'
<1> USE DEF StayInv
<1>1. ASSUME NEW b \in Bookings, NEW check_in \in Days, NEW check_out \in 1 .. LastDay + 1,
             NEW quantity \in 1 .. MaxQuantity, OtaBooking(b, check_in, check_out, quantity)
      PROVE  HistoryTellsStatus'
  <2>1. room' = room /\ Logged({})
    BY <1>1 DEF OtaBooking, CreateBooking
  <2>2. QED
    BY <2>1, LoggedStep
<1>2. ASSUME NEW b \in Bookings, NEW check_in \in Days, NEW check_out \in 1 .. LastDay + 1,
             AdminReservation(b, check_in, check_out)
      PROVE  HistoryTellsStatus'
  <2>1. room' = room /\ Logged(Taken)
    BY <1>2 DEF AdminReservation, ReserveAtDesk
  <2>2. QED
    BY <2>1, LoggedStep
<1>3. ASSUME NEW b \in Bookings, NEW check_in \in Days, NEW check_out \in 1 .. LastDay + 1,
             WalkInBooking(b, check_in, check_out)
      PROVE  HistoryTellsStatus'
  <2>1. PICK S \in SUBSET Rooms :
          \/ WalkIn(b, check_in, check_out, S, TRUE) /\ Logged(Taken)
          \/ /\ WalkIn(b, check_in, check_out, S, FALSE)
             /\ \E workflow \in {"reservation", "check_in"} :
                  Logged(IF workflow = "reservation" THEN Taken ELSE {})
    BY <1>3 DEF WalkInBooking
  <2>2. CASE WalkIn(b, check_in, check_out, S, TRUE) /\ Logged(Taken)
    <3>1. /\ room' = SetRooms(S, "OCCUPIED")
          /\ assigned' = assigned \cup ({b} \X S)
          /\ b \notin Reserving
      BY <2>2 DEF WalkIn, AtDesk, Accepts, Is, Reserving
    <3>2. \A r \in S : <<b, r>> \in assigned' \ assigned
      BY <3>1, NoRoomsYet
    <3>3. \A r \in Rooms \ Taken : room'[r] = room[r]
      BY <3>1, <3>2 DEF SetRooms, Taken
    <3>4. QED
      BY <2>2, <3>3, LoggedStep
  <2>3. CASE /\ WalkIn(b, check_in, check_out, S, FALSE)
             /\ \E workflow \in {"reservation", "check_in"} :
                  Logged(IF workflow = "reservation" THEN Taken ELSE {})
    <3>1. room' = room /\ (Logged(Taken) \/ Logged({}))
      BY <2>3 DEF WalkIn
    <3>2. QED
      BY <3>1, LoggedStep
  <2>4. QED
    BY <2>1, <2>2, <2>3
<1>4. ASSUME NEW b \in Bookings, PayOrCancel(b)
      PROVE  HistoryTellsStatus'
  <2>1. CASE RecordPayment(b) /\ Logged(Taken)
    BY <2>1, LoggedStep DEF RecordPayment, Confirm
  <2>2. CASE CancelBooking(b) /\ Logged({})
    <3>1. /\ room' = SetRooms({r \in RoomsOf(b) : room[r] = "OCCUPIED" /\ Guests(r) = {}}, "VACANT")
          /\ {r \in RoomsOf(b) : room[r] = "OCCUPIED" /\ Guests(r) = {}} = {}
      BY <2>2 DEF CancelBooking, Cancel, OccupiedByGuest, RoomsOf
    <3>2. \A r \in Rooms \ {} : room'[r] = room[r]
      BY <3>1 DEF SetRooms
    <3>3. QED
      BY <2>2, <3>2, LoggedStep
  <2>3. QED
    BY <1>4, <2>1, <2>2 DEF PayOrCancel
<1>5. ASSUME NEW b \in Bookings, RoomOfBooking(b)
      PROVE  HistoryTellsStatus'
  <2>1. CASE \E r \in Rooms : AssignRoom(b, r) /\ Logged({r})
    BY <2>1, LoggedStep DEF AssignRoom
  <2>2. CASE \E r \in Rooms : UnassignRoom(b, r) /\ Logged({})
    BY <2>2, LoggedStep DEF UnassignRoom, Unassign
  <2>3. CASE \E from, to \in Rooms : ChangeRoom(b, from, to) /\ LoggedMove(from, to)
    <3>1. PICK from \in Rooms, to \in Rooms : ChangeRoom(b, from, to) /\ Logged({from, to})
      BY <2>3 DEF LoggedMove
    <3>2. \A r \in Rooms \ {from, to} : room'[r] = room[r]
      BY <3>1 DEF ChangeRoom, Change, StayTypeOK
    <3>3. QED
      BY <3>1, <3>2, LoggedStep
  <2>4. QED
    BY <1>5, <2>1, <2>2, <2>3 DEF RoomOfBooking
<1>6. ASSUME NEW b \in Bookings, GuestOfBooking(b)
      PROVE  HistoryTellsStatus'
  <2>1. CASE \/ CheckIn(b) /\ Logged(RoomsOf(b))
             \/ CheckOut(b) /\ Logged(RoomsOf(b))
    <3>1. (\A r \in Rooms \ RoomsOf(b) : room'[r] = room[r]) /\ Logged(RoomsOf(b))
      BY <2>1 DEF CheckIn, CheckOut, CheckOutFrom, SetRooms
    <3>2. QED
      BY <3>1, LoggedStep
  <2>2. CASE \E r \in Rooms : CheckOutRoom(b, r) /\ Logged({r})
    <3>1. PICK r \in Rooms : CheckOutRoom(b, r) /\ Logged({r})
      BY <2>2
    <3>2. \A x \in Rooms \ {r} : room'[x] = room[x]
      BY <3>1 DEF CheckOutRoom, StayTypeOK
    <3>3. QED
      BY <3>1, <3>2, LoggedStep
  <2>3. QED
    BY <1>6, <2>1, <2>2 DEF GuestOfBooking
<1>7. ASSUME NEW r \in Rooms, HouseRoom(r)
      PROVE  HistoryTellsStatus'
  <2>1. \/ Logged({r}) /\ \A x \in Rooms \ {r} : room'[x] = room[x]
        \/ Logged({}) /\ room' = room
    BY <1>7 DEF HouseRoom, MarkRoom, Mark, BlockRoom, UnblockRoom, Block, StayTypeOK
  <2>2. QED
    BY <2>1, LoggedStep
<1>8. ASSUME NEW b \in Bookings, CorrectedBooking(b)
      PROVE  HistoryTellsStatus'
  <2>1. room' = room /\ Logged({})
    BY <1>8 DEF CorrectedBooking, Corrections, CorrectReservation
  <2>2. QED
    BY <2>1, LoggedStep
<1>9. QED
  BY <1>1, <1>2, <1>3, <1>4, <1>5, <1>6, <1>7, <1>8 DEF BoardNext

\* What the board remembers keeps its type.
LEMMA BoardTypeStep ==
  ASSUME BoardTypeOK, StayTypeOK', HistoryTellsStatus', BoardNext
  PROVE  BoardTypeOK'
<1>1. ota' \subseteq Bookings
  BY DEF BoardTypeOK, BoardNext, OtaBooking, AdminReservation, WalkInBooking, PayOrCancel,
         RoomOfBooking, GuestOfBooking, HouseRoom, CorrectedBooking
<1>2. released' \subseteq Bookings \X Rooms
  BY DEF BoardTypeOK, StayTypeOK, BoardNext, CorrectedBooking
<1>3. told' \in [Rooms -> RoomStatuses]
  BY DEF StayTypeOK, HistoryTellsStatus
<1>4. QED
  BY <1>1, <1>2, <1>3 DEF BoardTypeOK

\* BoardInv holds in every state of the hotel and its board.
THEOREM BoardInvariant == BoardSpec => []BoardInv
<1>1. BoardInit => BoardInv
  <2> SUFFICES ASSUME BoardInit PROVE BoardInv
    OBVIOUS
  <2>1. StayInv
    BY StayInitInv DEF BoardInit
  <2>2. BoardTypeOK
    BY <2>1 DEF BoardInit, BoardTypeOK, StayInv, StayTypeOK
  <2>3. OccupiedByGuest /\ DatesInOrder
    BY DEF BoardInit, StayInit, OccupiedByGuest, DatesInOrder, Stay, Open, Is
  <2>4. QED
    BY <2>1, <2>2, <2>3 DEF BoardInv, BoardInit, HistoryTellsStatus
<1>2. BoardInv /\ [BoardNext]_boardVars => BoardInv'
  <2> SUFFICES ASSUME BoardInv, [BoardNext]_boardVars PROVE BoardInv'
    OBVIOUS
  <2>1. StayInv'
    BY BoardStepIsStayStep, StayNextInv DEF BoardInv, boardVars, stayVars
  <2>2. CASE BoardNext
    <3>1. DatesInOrder' /\ OccupiedByGuest'
      <4>1. StayNext
        BY <2>2, BoardStepIsStayStep
      <4>2. QED
        BY <4>1, BookingGuestStep, HousekeepingGuestStep DEF StayNext, BoardInv
    <3>2. HistoryTellsStatus'
      BY <2>1, <2>2, HistoryStep DEF BoardInv, StayInv
    <3>3. BoardTypeOK'
      BY <2>1, <2>2, <3>2, BoardTypeStep DEF BoardInv, StayInv
    <3>4. QED
      BY <2>1, <3>1, <3>2, <3>3 DEF BoardInv
  <2>3. CASE UNCHANGED boardVars
    BY <2>1, <2>3 DEF boardVars, BoardInv, StayInv, BoardTypeOK, DatesInOrder, OccupiedByGuest,
                      HistoryTellsStatus, Open, Guests, Is
  <2>4. QED
    BY <2>2, <2>3
<1>3. QED
  BY <1>1, <1>2, PTL DEF BoardSpec

\* The last event in a room's log that names a status names the one the room is
\* in, whichever handlers wrote it and whichever events name none.
THEOREM LogsTellStatus == BoardSpec => []HistoryTellsStatus
<1>1. BoardInv => HistoryTellsStatus
  BY DEF BoardInv
<1>2. QED
  BY <1>1, BoardInvariant, PTL

\* The number of bookings on the OTA card is the number of different bookings in
\* the records of its rooms, and each is in the records of the rooms named for it.
THEOREM OtaTotalsMatch == BoardSpec => []TotalsMatchRecords
<1>1. BoardInv => TotalsMatchRecords
  <2> SUFFICES ASSUME BoardInv, NEW today \in Days, NEW timeline \in Timelines
               PROVE  LET listed == UNION {Records(r, timeline, today) : r \in Rooms}
                      IN  /\ TotalBookings(timeline, today) = Cardinality(listed)
                          /\ \A b \in listed : \A r \in RecordRooms(b) :
                               b \in Records(r, timeline, today)
    BY DEF TotalsMatchRecords, BoardInv
  <2> DEFINE listed == UNION {Records(r, timeline, today) : r \in Rooms}
  <2>1. listed = {b \in Visible : /\ \E r \in Rooms : <<b, r>> \in assigned \cup released
                                  /\ TimelineStatus(b, today) = timeline}
    <3>1. \A b : b \in listed <=> \E r \in Rooms : b \in Records(r, timeline, today)
      OBVIOUS
    <3>2. \A b : b \in listed <=> /\ b \in Visible
                                  /\ \E r \in Rooms : <<b, r>> \in assigned \cup released
                                  /\ TimelineStatus(b, today) = timeline
      BY <3>1 DEF Records, RecordsOf, Visible
    <3> HIDE DEF listed
    <3>3. QED
      BY <3>2
  <2>2. TotalBookings(timeline, today) = Cardinality(listed)
    BY <2>1 DEF TotalBookings
  <2>3. ASSUME NEW b \in listed, NEW r \in RecordRooms(b)
        PROVE  b \in Records(r, timeline, today)
    BY <2>1 DEF RecordRooms, RoomsOf, Records, RecordsOf, Visible
  <2>4. QED
    BY <2>2, <2>3
<1>2. QED
  BY <1>1, BoardInvariant, PTL

\* What the board shows of a room and a date is true of its guests and of its
\* reservations, on that date and until the next one.
THEOREM BoardTellsTruth == BoardSpec => []BoardTellsStays
<1>1. BoardInv => BoardTellsStays
  <2> SUFFICES ASSUME BoardInv, NEW r \in Rooms, NEW d \in Days
               PROVE  LET row  == Board(d).rows[r]
                          line == row.timeline
                      IN  /\ Guests(r) # {} <=> row.detail.display = "occupied"
                          /\ Guests(r) # {} => line.stay = Guests(r) /\ DOMAIN row.detail.current = Guests(r)
                          /\ \A days \in line.vacant : Overlapping(r, days, Reserving) = {}
                          /\ line.next # {} => Cardinality(line.next) = 1
                          /\ line.type = "reserved" => Cardinality(line.stay) = 1
                          /\ \A b \in line.left : RoomsOf(b) = {}
    BY DEF BoardTellsStays
  <2> DEFINE line == Timeline(r, d)
             shown == DisplayStatus(r, d)
  <2>1. /\ Board(d).rows[r].timeline = line
        /\ Board(d).rows[r].detail.display = shown
        /\ DOMAIN Board(d).rows[r].detail.current = Current(r, d)
    BY DEF Board, BoardRow, RoomDetail, CurrentBooking
  <2>2. /\ line.type = shown
        /\ line.stay = IF shown \in {"occupied", "reserved"} THEN Current(r, d) ELSE {}
        /\ line.next = IF shown = "available" THEN Earliest(NextReservations(r, d)) ELSE {}
        /\ line.vacant = IF shown = "available"
                         THEN {d .. booking[b].check_in - 1 : b \in Earliest(NextReservations(r, d))}
                         ELSE {}
        /\ line.left = IF shown = "cleaning" THEN LastCheckouts(r, d) ELSE {}
    BY DEF Timeline
  <2> HIDE DEF line
  <2>3. Guests(r) # {} => Current(r, d) = Guests(r) /\ shown = "occupied"
    <3> SUFFICES ASSUME NEW b \in Guests(r)
                 PROVE  Current(r, d) = Guests(r) /\ shown = "occupied"
      OBVIOUS
    <3>1. Current(r, d) = Guests(r) /\ Is(b, {"CHECKED_IN"}) /\ b \in Current(r, d)
      BY DEF Current, Guests
    <3>2. room[r] = "OCCUPIED"
      BY DEF Guests, BoardInv, StayInv, GuestsInside
    <3>3. QED
      BY <3>1, <3>2 DEF DisplayStatus
  <2>4. Guests(r) = {} => /\ Current(r, d) = Overlapping(r, {d}, Reserving)
                          /\ room[r] # "OCCUPIED"
                          /\ \A b \in Current(r, d) : ~Is(b, {"CHECKED_IN"})
                          /\ shown # "occupied"
    <3> SUFFICES ASSUME Guests(r) = {}
                 PROVE  /\ Current(r, d) = Overlapping(r, {d}, Reserving)
                        /\ room[r] # "OCCUPIED"
                        /\ \A b \in Current(r, d) : ~Is(b, {"CHECKED_IN"})
                        /\ shown # "occupied"
      OBVIOUS
    <3>1. Current(r, d) = Overlapping(r, {d}, Reserving) /\ room[r] # "OCCUPIED"
      BY DEF Current, BoardInv, OccupiedByGuest
    <3>2. \A b \in Current(r, d) : ~Is(b, {"CHECKED_IN"})
      BY <3>1 DEF Overlapping, Reserving, Guests
    <3>3. QED
      BY <3>1, <3>2 DEF DisplayStatus
  <2>5. \A b, c \in Bookings :
          <<b, r>> \in assigned /\ <<c, r>> \in assigned /\ Nights(b) \cap Nights(c) # {} => b = c
    BY DEF BoardInv, StayInv, StaysApart
  <2>6. shown = "reserved" => Cardinality(line.stay) = 1
    <3> SUFFICES ASSUME shown = "reserved" PROVE Cardinality(line.stay) = 1
      OBVIOUS
    <3>1. Guests(r) = {} /\ line.stay = Current(r, d)
      BY <2>2, <2>3
    <3>2. line.stay # {}
      BY <3>1 DEF DisplayStatus
    <3>3. line.stay = Overlapping(r, {d}, Reserving)
      BY <2>4, <3>1
    <3>4. \A b, c \in line.stay : b = c
      BY <2>5, <3>3 DEF Overlapping, Reserving
    <3>5. QED
      BY <3>2, <3>4, OnlyOne
  <2>7. line.next # {} => Cardinality(line.next) = 1
    <3>1. \A b, c \in Earliest(NextReservations(r, d)) : b = c
      <4> SUFFICES ASSUME NEW b \in Earliest(NextReservations(r, d)),
                          NEW c \in Earliest(NextReservations(r, d))
                   PROVE  b = c
        OBVIOUS
      <4>1. /\ b \in Open /\ c \in Open
            /\ <<b, r>> \in assigned /\ <<c, r>> \in assigned
            /\ booking[b].check_in <= booking[c].check_in
            /\ booking[c].check_in <= booking[b].check_in
        BY DEF Earliest, NextReservations, Open, Is
      <4>2. /\ booking[b].check_in \in Days /\ booking[c].check_in \in Days
            /\ booking[b].check_out \in Int /\ booking[c].check_out \in Int
            /\ booking[b].check_in < booking[b].check_out
            /\ booking[c].check_in < booking[c].check_out
        BY <4>1, RoomsAssumption DEF BoardInv, StayInv, StayTypeOK, DatesInOrder, Booking, Open
      <4>3. booking[b].check_in = booking[c].check_in
        BY <4>1, <4>2, RoomsAssumption DEF Days
      <4>4. booking[b].check_in \in Nights(b) \cap Nights(c)
        BY <4>2, <4>3, RoomsAssumption DEF Nights, Days
      <4>5. QED
        BY <2>5, <4>1, <4>4 DEF Open
    <3>2. \A b, c \in line.next : b = c
      BY <2>2, <3>1
    <3>3. QED
      BY <3>2, OnlyOne
  <2>8. \A days \in line.vacant : Overlapping(r, days, Reserving) = {}
    <3> SUFFICES ASSUME shown = "available", NEW b \in Earliest(NextReservations(r, d)),
                        NEW c \in Reserving, <<c, r>> \in assigned,
                        NEW e \in Nights(c), e \in d .. booking[b].check_in - 1
                 PROVE  FALSE
      <4>1. ASSUME NEW days \in line.vacant
            PROVE  Overlapping(r, days, Reserving) = {}
        <5>1. shown = "available"
          BY <2>2, <4>1
        <5>2. PICK b \in Earliest(NextReservations(r, d)) : days = d .. booking[b].check_in - 1
          BY <2>2, <4>1, <5>1
        <5>3. \A c \in Reserving : <<c, r>> \in assigned =>
                \A e \in Nights(c) : e \notin d .. booking[b].check_in - 1
          BY <5>1
        <5>4. QED
          BY <5>2, <5>3 DEF Overlapping
      <4>2. QED
        BY <4>1
    <3>1. Guests(r) = {} /\ Current(r, d) = {}
      BY <2>3 DEF DisplayStatus
    <3>2. Is(c, {"CONFIRMED"}) /\ c \in Bookings
      BY <3>1 DEF Guests, Reserving, Is
    <3>3. /\ booking[c].check_in \in Int /\ booking[c].check_out \in Int
          /\ booking[b].check_in \in Int
          /\ d \in Int /\ e \in Int
          /\ booking[c].check_in <= e /\ e < booking[c].check_out
          /\ d <= e /\ e < booking[b].check_in
      <4>1. booking[c] \in Booking /\ b \in Bookings
        BY <3>2 DEF BoardInv, StayInv, StayTypeOK, Earliest, NextReservations
      <4>2. booking[b] \in Booking
        BY <4>1 DEF BoardInv, StayInv, StayTypeOK
      <4>3. /\ booking[c].check_in \in Int /\ booking[c].check_out \in Int
            /\ booking[b].check_in \in Int
        BY <4>1, <4>2, RoomsAssumption DEF Booking, Days
      <4>4. d \in Int /\ e \in Int /\ booking[c].check_in <= e /\ e < booking[c].check_out
        BY RoomsAssumption DEF Nights, Days
      <4>5. QED
        BY <4>3, <4>4
    <3>4. CASE booking[c].check_in >= d
      <4>1. c \in NextReservations(r, d)
        BY <3>2, <3>4 DEF NextReservations
      <4>2. booking[b].check_in <= booking[c].check_in
        BY <4>1 DEF Earliest
      <4>3. QED
        BY <3>3, <4>2
    <3>5. CASE booking[c].check_in < d
      <4>1. d \in Nights(c)
        BY <3>3, <3>5 DEF Nights
      <4>2. c \in Overlapping(r, {d}, Reserving)
        BY <4>1 DEF Overlapping
      <4>3. QED
        BY <2>4, <3>1, <4>2
    <3>6. QED
      BY <3>3, <3>4, <3>5
  <2>9. \A b \in line.left : RoomsOf(b) = {}
    <3>1. \A b \in line.left : b \in Bookings /\ b \notin Reserving
      BY <2>2 DEF LastCheckouts, Reserving, Is
    <3>2. QED
      BY <3>1, NoRoomsYet DEF BoardInv
  <2> HIDE DEF shown
  <2>10. Guests(r) # {} => line.stay = Guests(r)
    BY <2>2, <2>3
  <2>11. Guests(r) # {} <=> shown = "occupied"
    BY <2>3, <2>4
  <2>12. line.type = "reserved" => Cardinality(line.stay) = 1
    BY <2>2, <2>6
  <2>13. QED
    BY <2>1, <2>3, <2>7, <2>8, <2>9, <2>10, <2>11, <2>12
<1>2. QED
  BY <1>1, BoardInvariant, PTL

\* A room is shown as available on a date when it is vacant and nobody's that
\* night, waiting bookings included: they have no room yet.
LEMMA ShownAvailable ==
  ASSUME BoardInv, NEW r \in Rooms, NEW d \in Days
  PROVE  DisplayStatus(r, d) = "available" <=> room[r] = "VACANT" /\ Free(r, {d})
<1>1. room[r] \in RoomStatuses
  BY DEF BoardInv, StayInv, StayTypeOK
<1>2. Overlapping(r, {d}, Open) = Overlapping(r, {d}, Reserving)
  BY DEF BoardInv, StayInv, RoomsAreReserved, Overlapping, Open, Reserving, Is
<1>3. CASE Guests(r) # {}
  <2>1. room[r] = "OCCUPIED" /\ \E b \in Current(r, d) : Is(b, {"CHECKED_IN"})
    BY <1>3 DEF Current, Guests, BoardInv, StayInv, GuestsInside
  <2>2. QED
    BY <2>1 DEF DisplayStatus
<1>4. CASE Guests(r) = {}
  <2>1. Current(r, d) = Overlapping(r, {d}, Reserving)
    BY <1>4 DEF Current
  <2>2. \A b \in Current(r, d) : ~Is(b, {"CHECKED_IN"})
    BY <1>4, <2>1 DEF Overlapping, Reserving, Guests
  <2>3. Free(r, {d}) <=> Current(r, d) = {} /\ d \notin blocked[r]
    BY <1>2, <2>1 DEF Free
  <2>4. QED
    BY <1>1, <2>2, <2>3 DEF DisplayStatus, RoomStatuses
<1>5. QED
  BY <1>3, <1>4

\* The search for a guest at the door offers what the board of every night shows
\* as available.
LEMMA SearchedIsShown ==
  ASSUME BoardInv, NEW check_in \in Days, NEW check_out \in 1 .. LastDay + 1, check_in < check_out
  PROVE  Searched(check_in, check_out, "check_in") =
           {r \in Rooms : \A d \in check_in .. check_out - 1 : DisplayStatus(r, d) = "available"}
<1> DEFINE nights == check_in .. check_out - 1
<1>1. nights # {} /\ nights \subseteq Days
  BY RoomsAssumption DEF Days
<1> HIDE DEF nights
<1>2. ASSUME NEW r \in Rooms
      PROVE  /\ room[r] # "OUT_OF_SERVICE"
             /\ Free(r, nights)
             /\ "check_in" = "check_in" => room[r] = "VACANT"
             <=> \A d \in nights : DisplayStatus(r, d) = "available"
  <2>1. (\A d \in nights : DisplayStatus(r, d) = "available")
          <=> \A d \in nights : room[r] = "VACANT" /\ Free(r, {d})
    BY <1>1, ShownAvailable
  <2>2. Free(r, nights) <=> \A d \in nights : Free(r, {d})
    BY DEF Free, Overlapping
  <2>3. QED
    BY <1>1, <2>1, <2>2
<1>3. QED
  BY <1>2 DEF Searched, nights

\* The form calls a booking ready exactly when check_in would let it in: no room
\* of a reservation is left OCCUPIED by nobody, so check_in repairs none.
LEMMA ReadyIsLetIn ==
  ASSUME BoardInv, NEW b \in Bookings
  PROVE  Ready(b) <=> CanCheckIn(b)
<1>1. CASE Is(b, {"CONFIRMED"})
  <2>1. ASSUME NEW r \in RoomsOf(b), room[r] = "OCCUPIED"
        PROVE  r \notin Stale(b)
    <3>1. PICK c \in Bookings : c \in Guests(r)
      BY <2>1 DEF BoardInv, OccupiedByGuest, RoomsOf, Guests
    <3>2. c # b
      BY <1>1, <3>1 DEF Guests, Is
    <3>3. QED
      BY <3>1, <3>2 DEF Stale
  <2>2. Stale(b) = {}
    BY <2>1 DEF Stale
  <2>3. QED
    BY <2>2 DEF Ready, CanCheckIn
<1>2. CASE ~Is(b, {"CONFIRMED"})
  BY <1>2 DEF Ready, CanCheckIn
<1>3. QED
  BY <1>1, <1>2

\* The board, the search, the bills, the form and the handlers tell the same of
\* every room and booking.
THEOREM ViewsTellTheSame == BoardSpec => []ViewsAgree
<1>1. BoardInv => ViewsAgree
  <2> SUFFICES ASSUME BoardInv PROVE ViewsAgree
    OBVIOUS
  <2>1. ASSUME NEW r \in Rooms, NEW d \in Days
        PROVE  RoomDetail(r, d).display = "available" <=> room[r] = "VACANT" /\ Free(r, {d})
    BY ShownAvailable DEF RoomDetail
  <2>2. ASSUME NEW check_in \in Days, NEW check_out \in 1 .. LastDay + 1, check_in < check_out
        PROVE  Searched(check_in, check_out, "check_in") =
                 {r \in Rooms : \A d \in check_in .. check_out - 1 : DisplayStatus(r, d) = "available"}
    BY <2>2, SearchedIsShown
  <2>3. ASSUME NEW d \in Days
        PROVE  Board(d).counts["available"] = Cardinality(Searched(d, d + 1, "check_in"))
    <3>1. Board(d).counts["available"] = Cardinality({r \in Rooms : DisplayStatus(r, d) = "available"})
      BY DEF Board, Counts, DisplayStatuses
    <3>2. d + 1 \in 1 .. LastDay + 1 /\ d < d + 1 /\ d .. (d + 1) - 1 = {d}
      BY RoomsAssumption DEF Days
    <3>3. Searched(d, d + 1, "check_in") =
            {r \in Rooms : \A e \in d .. (d + 1) - 1 : DisplayStatus(r, e) = "available"}
      BY <3>2, SearchedIsShown
    <3>4. Searched(d, d + 1, "check_in") = {r \in Rooms : DisplayStatus(r, d) = "available"}
      BY <3>2, <3>3
    <3>5. QED
      BY <3>1, <3>4
  <2>4. ASSUME NEW r \in Rooms, NEW b \in Billing(r)
        PROVE  b \in UNION {Current(r, d) \cup NextReservations(r, d) : d \in Days}
    <3>1. 0 \in Days
      BY RoomsAssumption DEF Days
    <3>2. b \in Current(r, 0) \cup NextReservations(r, 0)
      <4>1. booking[b].check_in >= 0 /\ b \in Bookings /\ <<b, r>> \in assigned
        BY <2>4, RoomsAssumption DEF Billing, Reserving, BoardInv, StayInv, StayTypeOK, Booking, Days
      <4>2. CASE Is(b, {"CONFIRMED"})
        BY <4>1, <4>2 DEF NextReservations
      <4>3. CASE Is(b, {"CHECKED_IN"})
        BY <4>1, <4>3 DEF Current, Guests
      <4>4. QED
        BY <2>4, <4>2, <4>3 DEF Billing, Reserving, Is
    <3>3. QED
      BY <3>1, <3>2
  <2>5. ASSUME NEW b \in Bookings, NEW d \in Nights(b), Ready(b)
        PROVE  Board(d).unassigned[b] = 0
    <3>1. Is(b, {"CONFIRMED"}) /\ Cardinality(RoomsOf(b)) >= booking[b].quantity
      BY <2>5 DEF Ready
    <3>2. Cardinality(RoomsOf(b)) \in Nat /\ booking[b].quantity \in Nat
      BY RoomsFinite, BookingType, RoomsAssumption DEF BoardInv, StayInv
    <3>3. Cardinality(RoomsOf(b)) = booking[b].quantity
      BY <3>1, <3>2 DEF BoardInv, StayInv, WithinQuantity
    <3>4. Board(d).unassigned[b] = booking[b].quantity - Cardinality(RoomsOf(b))
      BY <3>1 DEF Board, Unassigned
    <3>5. QED
      BY <3>2, <3>3, <3>4
  <2>6. QED
    BY <2>1, <2>2, <2>3, <2>4, <2>5, ReadyIsLetIn DEF ViewsAgree
<1>2. QED
  BY <1>1, BoardInvariant, PTL

-----------------------------------------------------------------------------
(* The counter of the pool while requests overlap.  How many rooms bookings  *)
(* ask for, as a function of the table of bookings.                          *)

NightsOf(x) == {d \in Days : x.check_in <= d /\ d < x.check_out}
RoomsAsked(bk, S, d) ==
  {t \in S \X (1 .. MaxQuantity) : t[2] <= bk[t[1]].quantity /\ d \in NightsOf(bk[t[1]])}
Asked(bk, S, d) == Cardinality(RoomsAsked(bk, S, d))

\* What booking b of S adds to it.
Share(bk, S, b, d) == IF b \in S /\ d \in NightsOf(bk[b]) THEN bk[b].quantity ELSE 0

\* The rooms asked for are finite in number.
LEMMA AskedType ==
  ASSUME NEW bk, NEW S \in SUBSET Bookings, NEW d
  PROVE  /\ IsFiniteSet(RoomsAsked(bk, S, d))
         /\ Asked(bk, S, d) \in Nat
<1>1. IsFiniteSet(S) /\ IsFiniteSet(1 .. MaxQuantity)
  BY RoomsAssumption, FS_Subset, FS_Interval
<1>2. IsFiniteSet(S \X (1 .. MaxQuantity))
  BY <1>1, FS_Product
<1>3. RoomsAsked(bk, S, d) \in SUBSET (S \X (1 .. MaxQuantity))
  BY DEF RoomsAsked
<1>4. QED
  BY <1>2, <1>3, FS_Subset, FS_CardinalityType DEF Asked

\* One booking asks for its quantity on its nights.
LEMMA AskedOfOne ==
  ASSUME NEW bk, NEW b \in Bookings, NEW d, bk[b].quantity \in 0 .. MaxQuantity
  PROVE  Asked(bk, {b}, d) = IF d \in NightsOf(bk[b]) THEN bk[b].quantity ELSE 0
<1> DEFINE q == bk[b].quantity
<1>0. q \in Nat /\ q <= MaxQuantity /\ MaxQuantity \in Nat
  BY RoomsAssumption
<1>1. CASE d \in NightsOf(bk[b])
  <2>1. RoomsAsked(bk, {b}, d) = {b} \X (1 .. q)
    BY <1>0, <1>1, RoomsAssumption DEF RoomsAsked
  <2>2. IsFiniteSet({b}) /\ Cardinality({b}) = 1
    BY FS_Singleton
  <2>3. IsFiniteSet(1 .. q) /\ Cardinality(1 .. q) = q
    <3> HIDE DEF q
    <3>1. q \in Nat /\ q \in Int /\ 1 \in Int
      BY <1>0
    <3>2. IsFiniteSet(1 .. q) /\ Cardinality(1 .. q) = IF 1 > q THEN 0 ELSE q - 1 + 1
      BY <3>1, FS_Interval
    <3>3. QED
      BY <3>1, <3>2
  <2>4. Cardinality({b} \X (1 .. q)) = Cardinality({b}) * Cardinality(1 .. q)
    <3> HIDE DEF q
    <3>1. QED
      BY <2>2, <2>3, FS_Product
  <2>5. 1 * q = q
    BY <1>0
  <2>6. Cardinality(RoomsAsked(bk, {b}, d)) = q
    BY <2>1, <2>2, <2>3, <2>4, <2>5, Zenon
  <2>7. QED
    BY <1>1, <2>6 DEF Asked, q
<1>2. CASE d \notin NightsOf(bk[b])
  <2>1. RoomsAsked(bk, {b}, d) = {}
    BY <1>2 DEF RoomsAsked
  <2>2. QED
    BY <1>2, <2>1, FS_EmptySet DEF Asked
<1>3. QED
  BY <1>1, <1>2

\* A booking's share is apart from what the others ask for.
LEMMA AskedWithout ==
  ASSUME NEW bk, NEW S \in SUBSET Bookings, NEW b \in Bookings, NEW d,
         bk[b].quantity \in 0 .. MaxQuantity
  PROVE  Asked(bk, S, d) = Asked(bk, S \ {b}, d) + Share(bk, S, b, d)
<1>1. CASE b \notin S
  <2>1. S \ {b} = S
    BY <1>1
  <2>2. QED
    BY <1>1, <2>1, AskedType DEF Share
<1>2. CASE b \in S
  <2>1. RoomsAsked(bk, S, d) = RoomsAsked(bk, S \ {b}, d) \cup RoomsAsked(bk, {b}, d)
    BY <1>2 DEF RoomsAsked
  <2>2. RoomsAsked(bk, S \ {b}, d) \cap RoomsAsked(bk, {b}, d) = {}
    BY DEF RoomsAsked
  <2>3. IsFiniteSet(RoomsAsked(bk, S \ {b}, d)) /\ IsFiniteSet(RoomsAsked(bk, {b}, d))
    BY AskedType
  <2>4. Cardinality(RoomsAsked(bk, S \ {b}, d) \cup RoomsAsked(bk, {b}, d))
          = Cardinality(RoomsAsked(bk, S \ {b}, d)) + Cardinality(RoomsAsked(bk, {b}, d))
              - Cardinality({})
    BY <2>2, <2>3, FS_Union
  <2>5. /\ Cardinality({}) = 0
        /\ Cardinality(RoomsAsked(bk, S \ {b}, d)) \in Nat
        /\ Cardinality(RoomsAsked(bk, {b}, d)) \in Nat
    BY <2>3, FS_EmptySet, FS_CardinalityType
  <2>6. Asked(bk, S, d)
          = Cardinality(RoomsAsked(bk, S \ {b}, d) \cup RoomsAsked(bk, {b}, d))
    BY <2>1, Zenon DEF Asked
  <2>7. Asked(bk, S, d) = Asked(bk, S \ {b}, d) + Asked(bk, {b}, d)
    BY <2>4, <2>5, <2>6 DEF Asked
  <2>8. Asked(bk, {b}, d) = Share(bk, S, b, d)
    BY <1>2, AskedOfOne DEF Share
  <2>9. QED
    BY <2>7, <2>8
<1>3. QED
  BY <1>1, <1>2

\* When one booking changes, what is asked for changes by its share.
LEMMA AskedChange ==
  ASSUME NEW bk1 \in [Bookings -> Booking], NEW bk2 \in [Bookings -> Booking],
         NEW S1 \in SUBSET Bookings, NEW S2 \in SUBSET Bookings, NEW b \in Bookings, NEW d,
         S1 \ {b} = S2 \ {b}, \A c \in Bookings \ {b} : bk1[c] = bk2[c]
  PROVE  /\ Asked(bk2, S2, d) = Asked(bk1, S1, d) - Share(bk1, S1, b, d) + Share(bk2, S2, b, d)
         /\ Share(bk1, S1, b, d) \in Nat /\ Share(bk2, S2, b, d) \in Nat
<1>1. bk1[b].quantity \in 0 .. MaxQuantity /\ bk2[b].quantity \in 0 .. MaxQuantity
  BY DEF Booking
<1>2. RoomsAsked(bk1, S1 \ {b}, d) = RoomsAsked(bk2, S2 \ {b}, d)
  BY DEF RoomsAsked
<1>3. Asked(bk1, S1 \ {b}, d) = Asked(bk2, S2 \ {b}, d)
  BY <1>2 DEF Asked
<1>4. /\ Asked(bk1, S1, d) = Asked(bk1, S1 \ {b}, d) + Share(bk1, S1, b, d)
      /\ Asked(bk2, S2, d) = Asked(bk2, S2 \ {b}, d) + Share(bk2, S2, b, d)
  BY <1>1, AskedWithout
<1>5. Share(bk1, S1, b, d) \in Nat /\ Share(bk2, S2, b, d) \in Nat
  BY <1>1, RoomsAssumption DEF Share
<1>6. Asked(bk1, S1 \ {b}, d) \in Nat
  <2>1. S1 \ {b} \in SUBSET Bookings
    OBVIOUS
  <2>2. QED
    BY <2>1, AskedType
<1>7. QED
  BY <1>3, <1>4, <1>5, <1>6

\* No booking has more rooms than it asks for, one not created yet has none.
RoomsWithinStay ==
  \A b \in Bookings : /\ Cardinality(RoomsOf(b)) <= booking[b].quantity
                      /\ Is(b, {"NOT_CREATED"}) => RoomsOf(b) = {}

\* What holds of the rows whatever requests overlap.
PoolInv == StayTypeOK /\ PoolMatchesBookings /\ RoomsWithinStay

\* A step that changes one booking moves the pool by that booking's share.
LEMMA PoolStep ==
  ASSUME PoolInv, NEW b \in Bookings,
         booking' \in [Bookings -> Booking], room' \in [Rooms -> RoomStatuses],
         assigned' \subseteq Bookings \X Rooms, blocked' = blocked,
         reserved' = [d \in Days |-> reserved[d] - Share(booking, Reserving, b, d)
                                       + Share(booking', Reserving', b, d)],
         \A c \in Bookings \ {b} : booking'[c] = booking[c],
         \A c \in Bookings \ {b}, r \in Rooms : <<c, r>> \in assigned' <=> <<c, r>> \in assigned,
         Cardinality(RoomsOf(b)') <= booking'[b].quantity,
         ~Is(b, {"NOT_CREATED"})'
  PROVE  PoolInv'
<1>1. /\ Reserving \in SUBSET Bookings /\ Reserving' \in SUBSET Bookings
      /\ Reserving \ {b} = Reserving' \ {b}
  BY DEF Reserving, Is
<1>2. \A d \in Days : /\ reserved[d] = Asked(booking, Reserving, d)
                      /\ (QuantityOn(Reserving, d))' = Asked(booking', Reserving', d)
  BY DEF PoolInv, PoolMatchesBookings, QuantityOn, Asked, RoomsAsked, Nights, NightsOf
<1>3. \A d \in Days :
        /\ Asked(booking', Reserving', d) =
             Asked(booking, Reserving, d) - Share(booking, Reserving, b, d)
               + Share(booking', Reserving', b, d)
        /\ Asked(booking', Reserving', d) \in Nat
  <2> TAKE d \in Days
  <2> DEFINE bk1 == booking
             bk2 == booking'
             S1 == Reserving
             S2 == Reserving'
  <2>1. /\ bk1 \in [Bookings -> Booking] /\ bk2 \in [Bookings -> Booking]
        /\ S1 \in SUBSET Bookings /\ S2 \in SUBSET Bookings
        /\ S1 \ {b} = S2 \ {b}
        /\ \A c \in Bookings \ {b} : bk1[c] = bk2[c]
    BY <1>1 DEF PoolInv, StayTypeOK
  <2> HIDE DEF bk1, bk2, S1, S2
  <2>2. /\ Asked(bk2, S2, d) = Asked(bk1, S1, d) - Share(bk1, S1, b, d) + Share(bk2, S2, b, d)
        /\ Asked(bk2, S2, d) \in Nat
    BY <2>1, AskedChange, AskedType
  <2>3. QED
    BY <2>2 DEF bk1, bk2, S1, S2
<1>4. \A d \in Days : reserved'[d] = Asked(booking', Reserving', d) /\ reserved'[d] \in Nat
  BY <1>2, <1>3
<1>5. StayTypeOK'
  BY <1>4 DEF PoolInv, StayTypeOK
<1>6. PoolMatchesBookings'
  BY <1>2, <1>4 DEF PoolMatchesBookings
<1>7. RoomsWithinStay'
  <2>1. \A c \in Bookings \ {b} : RoomsOf(c)' = RoomsOf(c)
    BY DEF RoomsOf
  <2>2. QED
    BY <2>1 DEF PoolInv, RoomsWithinStay, Is
<1>8. QED
  BY <1>5, <1>6, <1>7 DEF PoolInv

\* A booking that keeps its dates, its quantity and its place among the
\* reservations leaves the pool alone.
LEMMA SamePoolStep ==
  ASSUME PoolInv, NEW b \in Bookings,
         booking' \in [Bookings -> Booking], room' \in [Rooms -> RoomStatuses],
         assigned' \subseteq Bookings \X Rooms, UNCHANGED <<blocked, reserved>>,
         \A c \in Bookings \ {b} : booking'[c] = booking[c],
         \A c \in Bookings \ {b}, r \in Rooms : <<c, r>> \in assigned' <=> <<c, r>> \in assigned,
         Cardinality(RoomsOf(b)') <= booking'[b].quantity,
         ~Is(b, {"NOT_CREATED"})',
         \A d \in Days : Share(booking', Reserving', b, d) = Share(booking, Reserving, b, d)
  PROVE  PoolInv'
<1>1. \A d \in Days : Share(booking, Reserving, b, d) \in Nat
  BY RoomsAssumption DEF PoolInv, StayTypeOK, Booking, Share
<1>2. reserved' = [d \in Days |-> reserved[d] - Share(booking, Reserving, b, d)
                                    + Share(booking', Reserving', b, d)]
  BY <1>1 DEF PoolInv, StayTypeOK
<1>3. QED
  BY <1>2, PoolStep

\* A charge of the nights of b, in terms of shares.
LEMMA ChargeShare ==
  ASSUME PoolInv, NEW b \in Bookings, NEW n
  PROVE  Charge(Nights(b), n) =
           [d \in Days |-> IF d \in NightsOf(booking[b]) THEN reserved[d] + n ELSE reserved[d]]
BY DEF Charge, Nights, NightsOf

\* Rooms taken from a booking, and rooms added.
LEMMA RoomCount ==
  ASSUME PoolInv, NEW b \in Bookings
  PROVE  /\ IsFiniteSet(RoomsOf(b))
         /\ Cardinality(RoomsOf(b)) \in Nat /\ booking[b].quantity \in Nat
         /\ Cardinality(RoomsOf(b)) <= booking[b].quantity
         /\ \A S \in SUBSET RoomsOf(b) : Cardinality(S) <= booking[b].quantity
<1>1. /\ IsFiniteSet(RoomsOf(b))
      /\ Cardinality(RoomsOf(b)) \in Nat
      /\ Cardinality(RoomsOf(b)) <= booking[b].quantity
  BY RoomsFinite DEF PoolInv, RoomsWithinStay
<1>2. booking[b].quantity \in Nat
  BY RoomsAssumption DEF PoolInv, StayTypeOK, Booking
<1>3. \A S \in SUBSET RoomsOf(b) : /\ Cardinality(S) <= Cardinality(RoomsOf(b))
                                   /\ Cardinality(S) \in Nat
  BY <1>1, FS_Subset, FS_CardinalityType
<1>4. QED
  BY <1>1, <1>2, <1>3

\* Requests that leave the pool alone.
LEMMA UnpooledSteps ==
  ASSUME PoolInv, NEW b \in Bookings
  PROVE  /\ \A check_in \in Days, check_out \in 1 .. LastDay + 1, quantity \in 1 .. MaxQuantity :
              CreateBooking(b, check_in, check_out, quantity) => PoolInv'
         /\ \A r \in Rooms : AssignRoom(b, r) => PoolInv'
         /\ \A seen : \A r \in Rooms : Unassign(b, r, seen) => PoolInv'
         /\ \A seen : \A from, to \in Rooms : Change(b, from, to, seen) => PoolInv'
         /\ CheckIn(b) => PoolInv'
<1> USE DEF PoolInv, StayTypeOK
<1>1. ASSUME NEW check_in \in Days, NEW check_out \in 1 .. LastDay + 1,
             NEW quantity \in 1 .. MaxQuantity, CreateBooking(b, check_in, check_out, quantity)
      PROVE  PoolInv'
  <2>1. /\ Is(b, {"NOT_CREATED"})
        /\ booking' = [booking EXCEPT ![b] = Stay("PENDING_PAYMENT", check_in, check_out, quantity)]
        /\ UNCHANGED <<room, assigned, blocked, reserved>>
    BY <1>1 DEF CreateBooking, Accepts
  <2>2. Stay("PENDING_PAYMENT", check_in, check_out, quantity) \in Booking /\ quantity > 0
    BY StayType DEF BookingStatuses
  <2>3. booking'[b] = Stay("PENDING_PAYMENT", check_in, check_out, quantity)
    BY <2>1
  <2>4. ~Is(b, {"NOT_CREATED"})' /\ b \notin Reserving /\ b \notin Reserving'
        /\ booking'[b].quantity = quantity
    BY <2>1, <2>3 DEF Stay, Is, Reserving
  <2>5. Cardinality(RoomsOf(b)') <= booking'[b].quantity
    <3>1. RoomsOf(b)' = {}
      BY <2>1 DEF RoomsOf, RoomsWithinStay
    <3>2. QED
      BY <2>2, <2>4, <3>1, FS_EmptySet
  <2>6. \A d \in Days : Share(booking', Reserving', b, d) = Share(booking, Reserving, b, d)
    BY <2>4 DEF Share
  <2>7. booking' \in [Bookings -> Booking] /\ \A c \in Bookings \ {b} : booking'[c] = booking[c]
    BY <2>1, <2>2
  <2>8. QED
    BY <2>1, <2>4, <2>5, <2>6, <2>7, SamePoolStep
<1>2. ASSUME booking' = booking, room' \in [Rooms -> RoomStatuses],
             assigned' \subseteq Bookings \X Rooms, UNCHANGED <<blocked, reserved>>,
             \A c \in Bookings \ {b}, r \in Rooms : <<c, r>> \in assigned' <=> <<c, r>> \in assigned,
             Cardinality(RoomsOf(b)') <= booking[b].quantity, ~Is(b, {"NOT_CREATED"})
      PROVE  PoolInv'
  <2>1. \A d \in Days : Share(booking', Reserving', b, d) = Share(booking, Reserving, b, d)
    BY <1>2 DEF Share, Reserving, Is
  <2>2. ~Is(b, {"NOT_CREATED"})'
    BY <1>2 DEF Is
  <2>3. QED
    BY <1>2, <2>1, <2>2, SamePoolStep
<1>3. ASSUME NEW r \in Rooms, AssignRoom(b, r)
      PROVE  PoolInv'
  <2>1. /\ Is(b, {"CONFIRMED"})
        /\ Cardinality(RoomsOf(b)) < booking[b].quantity
        /\ assigned' = assigned \cup {<<b, r>>}
        /\ UNCHANGED <<booking, room, blocked, reserved>>
    BY <1>3 DEF AssignRoom
  <2>2. RoomsOf(b)' = RoomsOf(b) \cup {r}
    BY <2>1 DEF RoomsOf
  <2>3. \/ Cardinality(RoomsOf(b)') = Cardinality(RoomsOf(b))
        \/ Cardinality(RoomsOf(b)') = Cardinality(RoomsOf(b)) + 1
    BY <2>2, RoomCount, FS_AddElement
  <2>4. Cardinality(RoomsOf(b)') <= booking[b].quantity
    BY <2>1, <2>3, RoomCount
  <2>5. QED
    BY <1>2, <2>1, <2>4 DEF Is
<1>4. ASSUME NEW r \in Rooms, NEW seen, Unassign(b, r, seen)
      PROVE  PoolInv'
  <2>1. /\ <<b, r>> \in assigned
        /\ assigned' = assigned \ {<<b, r>>}
        /\ UNCHANGED <<booking, room, blocked, reserved>>
    BY <1>4 DEF Unassign
  <2>2. RoomsOf(b)' \in SUBSET RoomsOf(b) /\ ~Is(b, {"NOT_CREATED"})
    BY <2>1 DEF RoomsOf, RoomsWithinStay
  <2>3. Cardinality(RoomsOf(b)') <= booking[b].quantity
    BY <2>2, RoomCount
  <2>4. QED
    BY <1>2, <2>1, <2>2, <2>3
<1>5. ASSUME NEW from \in Rooms, NEW to \in Rooms, NEW seen, Change(b, from, to, seen)
      PROVE  PoolInv'
  <2>1. /\ <<b, from>> \in assigned
        /\ assigned' = (assigned \ {<<b, from>>}) \cup {<<b, to>>}
        /\ UNCHANGED <<booking, blocked, reserved>>
        /\ room' \in [Rooms -> RoomStatuses]
    BY <1>5 DEF Change, RoomStatuses
  <2>2. /\ RoomsOf(b)' = (RoomsOf(b) \ {from}) \cup {to}
        /\ from \in RoomsOf(b)
        /\ ~Is(b, {"NOT_CREATED"})
    BY <2>1 DEF RoomsOf, RoomsWithinStay
  <2>3. /\ IsFiniteSet(RoomsOf(b) \ {from})
        /\ Cardinality(RoomsOf(b) \ {from}) = Cardinality(RoomsOf(b)) - 1
    BY <2>2, RoomCount, FS_RemoveElement
  <2>4. \/ Cardinality(RoomsOf(b)') = Cardinality(RoomsOf(b) \ {from})
        \/ Cardinality(RoomsOf(b)') = Cardinality(RoomsOf(b) \ {from}) + 1
    BY <2>2, <2>3, FS_AddElement
  <2>5. Cardinality(RoomsOf(b)') <= booking[b].quantity
    BY <2>3, <2>4, RoomCount
  <2>6. QED
    BY <1>2, <2>1, <2>2, <2>5
<1>6. ASSUME CheckIn(b)
      PROVE  PoolInv'
  <2>1. /\ Is(b, {"CONFIRMED"})
        /\ booking' = WithStatus(b, "CHECKED_IN")
        /\ room' = SetRooms(RoomsOf(b), "OCCUPIED")
        /\ UNCHANGED <<assigned, blocked, reserved>>
    BY <1>6 DEF CheckIn, CanCheckIn
  <2>2. /\ booking' \in [Bookings -> Booking]
        /\ room' \in [Rooms -> RoomStatuses]
    BY <2>1, BookingType DEF SetRooms, RoomStatuses, BookingStatuses
  <2>3. /\ \A c \in Bookings \ {b} : booking'[c] = booking[c]
        /\ booking'[b].status = "CHECKED_IN"
        /\ booking'[b].quantity = booking[b].quantity
        /\ NightsOf(booking'[b]) = NightsOf(booking[b])
    BY <2>1 DEF WithStatus, Booking, NightsOf
  <2>4. \A d \in Days : Share(booking', Reserving', b, d) = Share(booking, Reserving, b, d)
    BY <2>1, <2>3 DEF Share, Reserving, Is
  <2>5. Cardinality(RoomsOf(b)') <= booking'[b].quantity /\ ~Is(b, {"NOT_CREATED"})'
    BY <2>1, <2>3 DEF RoomsWithinStay, RoomsOf, Is
  <2>6. QED
    BY <2>1, <2>2, <2>3, <2>4, <2>5, SamePoolStep
<1>7. QED
  BY <1>1, <1>3, <1>4, <1>5, <1>6

\* A reservation at the desk charges the pool for its quantity on its nights.
LEMMA AtDeskPool ==
  ASSUME PoolInv, NEW b \in Bookings, NEW check_in \in Days, NEW check_out \in 1 .. LastDay + 1,
         NEW quantity \in 1 .. MaxQuantity, NEW S \in SUBSET Rooms, NEW pool,
         NEW status \in {"CONFIRMED", "CHECKED_IN"}, Cardinality(S) <= quantity,
         \A d \in Days : pool[d] = reserved[d],
         AtDesk(b, status, check_in, check_out, quantity, S, pool),
         room' = IF status = "CHECKED_IN" THEN SetRooms(S, "OCCUPIED") ELSE room
  PROVE  PoolInv'
<1> USE DEF PoolInv, StayTypeOK
<1> DEFINE nights == check_in .. check_out - 1
<1>1. /\ Is(b, {"NOT_CREATED"})
      /\ booking' = [booking EXCEPT ![b] = Stay(status, check_in, check_out, quantity)]
      /\ assigned' = assigned \cup ({b} \X S)
      /\ reserved' = [d \in Days |-> IF d \in nights THEN pool[d] + quantity ELSE reserved[d]]
      /\ blocked' = blocked
  BY DEF AtDesk, Accepts
<1>2. Stay(status, check_in, check_out, quantity) \in Booking
  BY StayType DEF BookingStatuses
<1>3. /\ booking' \in [Bookings -> Booking]
      /\ booking'[b] = Stay(status, check_in, check_out, quantity)
      /\ \A c \in Bookings \ {b} : booking'[c] = booking[c]
      /\ room' \in [Rooms -> RoomStatuses]
  BY <1>1, <1>2 DEF SetRooms, RoomStatuses
<1>4. /\ ~Is(b, {"NOT_CREATED"})' /\ b \in Reserving' /\ b \notin Reserving
      /\ booking'[b].quantity = quantity
      /\ \A d \in Days : d \in NightsOf(booking'[b]) <=> d \in nights
  BY <1>1, <1>3, RoomsAssumption DEF Stay, Is, Reserving, NightsOf, Days
<1>5. /\ RoomsOf(b)' = S
      /\ \A c \in Bookings \ {b}, r \in Rooms : <<c, r>> \in assigned' <=> <<c, r>> \in assigned
  BY <1>1 DEF RoomsOf, RoomsWithinStay
<1> HIDE DEF nights
<1>6. \A d \in Days : /\ Share(booking, Reserving, b, d) = 0
                      /\ Share(booking', Reserving', b, d) = IF d \in nights THEN quantity ELSE 0
  BY <1>4 DEF Share
<1>7. reserved' = [d \in Days |-> reserved[d] - Share(booking, Reserving, b, d)
                                    + Share(booking', Reserving', b, d)]
  <2>1. \A d \in Days : (IF d \in nights THEN pool[d] + quantity ELSE reserved[d])
                          = reserved[d] - Share(booking, Reserving, b, d)
                              + Share(booking', Reserving', b, d)
    BY <1>6
  <2>2. QED
    BY <1>1, <2>1
<1>8. QED
  BY <1>1, <1>3, <1>4, <1>5, <1>7, PoolStep

\* A payment charges the pool, whichever rooms it found.
LEMMA ConfirmPool ==
  ASSUME PoolInv, NEW b \in Bookings, NEW candidates \in SUBSET Rooms, Confirm(b, candidates)
  PROVE  PoolInv'
<1> USE DEF PoolInv, StayTypeOK
<1>1. PICK S \in SUBSET Rooms :
        /\ Cardinality(S) <= booking[b].quantity - Cardinality(RoomsOf(b))
        /\ assigned' = assigned \cup ({b} \X S)
  BY DEF Confirm
<1>2. /\ Is(b, {"PENDING_PAYMENT"})
      /\ booking' = WithStatus(b, "CONFIRMED")
      /\ reserved' = Charge(Nights(b), booking[b].quantity)
      /\ UNCHANGED <<room, blocked>>
  BY DEF Confirm
<1>3. /\ booking' \in [Bookings -> Booking]
      /\ \A c \in Bookings \ {b} : booking'[c] = booking[c]
      /\ booking'[b].status = "CONFIRMED"
      /\ booking'[b].quantity = booking[b].quantity
      /\ NightsOf(booking'[b]) = NightsOf(booking[b])
  <2>1. booking' \in [Bookings -> Booking]
    BY <1>2, BookingType DEF BookingStatuses
  <2>2. QED
    BY <1>2, <2>1 DEF WithStatus, Booking, NightsOf
<1>4. ~Is(b, {"NOT_CREATED"})' /\ b \in Reserving' /\ b \notin Reserving
  BY <1>2, <1>3 DEF Is, Reserving
<1>5. \A c \in Bookings \ {b}, r \in Rooms : <<c, r>> \in assigned' <=> <<c, r>> \in assigned
  BY <1>1
<1>6. Cardinality(RoomsOf(b)') <= booking'[b].quantity
  <2>1. RoomsOf(b)' = RoomsOf(b) \cup S
    BY <1>1 DEF RoomsOf
  <2>2. IsFiniteSet(S) /\ IsFiniteSet(RoomsOf(b)) /\ IsFiniteSet(RoomsOf(b) \cap S)
    BY RoomCount, RoomsAssumption, FS_Subset
  <2>3. /\ Cardinality(RoomsOf(b) \cup S)
             = Cardinality(RoomsOf(b)) + Cardinality(S) - Cardinality(RoomsOf(b) \cap S)
        /\ Cardinality(S) \in Nat /\ Cardinality(RoomsOf(b) \cap S) \in Nat
    BY <2>2, FS_Union, FS_CardinalityType
  <2>4. QED
    BY <1>1, <1>3, <2>1, <2>3, RoomCount
<1>7. reserved' = [d \in Days |-> reserved[d] - Share(booking, Reserving, b, d)
                                    + Share(booking', Reserving', b, d)]
  <2>1. \A d \in Days :
          (IF d \in NightsOf(booking[b]) THEN reserved[d] + booking[b].quantity ELSE reserved[d])
            = reserved[d] - Share(booking, Reserving, b, d) + Share(booking', Reserving', b, d)
    BY <1>3, <1>4, RoomCount DEF Share
  <2>2. QED
    BY <1>2, <2>1, ChargeShare
<1>8. QED
  BY <1>1, <1>2, <1>3, <1>4, <1>5, <1>6, <1>7, PoolStep

\* The pool gets back what a reservation that ends was charged.
LEMMA ReleasedPool ==
  ASSUME PoolInv, NEW b \in Bookings, NEW rooms \in SUBSET Rooms,
         NEW status \in {"CANCELED", "CHECKED_OUT"}, b \in Open,
         booking' = WithStatus(b, status),
         room' \in [Rooms -> RoomStatuses],
         assigned' = assigned \ ({b} \X rooms),
         blocked' = blocked,
         reserved' = IF b \in Reserving THEN Charge(Nights(b), -booking[b].quantity) ELSE reserved
  PROVE  PoolInv'
<1> USE DEF PoolInv, StayTypeOK
<1>1. /\ booking' \in [Bookings -> Booking]
      /\ \A c \in Bookings \ {b} : booking'[c] = booking[c]
      /\ booking'[b].status = status
      /\ booking'[b].quantity = booking[b].quantity
  <2>1. booking' \in [Bookings -> Booking]
    BY BookingType DEF BookingStatuses
  <2>2. QED
    BY <2>1 DEF WithStatus, Booking
<1>2. ~Is(b, {"NOT_CREATED"})' /\ b \notin Reserving'
  BY <1>1 DEF Is, Reserving
<1>3. \A c \in Bookings \ {b}, r \in Rooms : <<c, r>> \in assigned' <=> <<c, r>> \in assigned
  OBVIOUS
<1>4. Cardinality(RoomsOf(b)') <= booking'[b].quantity
  <2>1. RoomsOf(b)' \in SUBSET RoomsOf(b)
    BY DEF RoomsOf
  <2>2. QED
    BY <1>1, <2>1, RoomCount
<1>5. reserved' = [d \in Days |-> reserved[d] - Share(booking, Reserving, b, d)
                                    + Share(booking', Reserving', b, d)]
  <2>1. CASE b \in Reserving
    <3>1. \A d \in Days :
            (IF d \in NightsOf(booking[b]) THEN reserved[d] + (-booking[b].quantity) ELSE reserved[d])
              = reserved[d] - Share(booking, Reserving, b, d) + Share(booking', Reserving', b, d)
      BY <1>2, <2>1, RoomCount DEF Share
    <3>2. QED
      BY <2>1, <3>1, ChargeShare
  <2>2. CASE b \notin Reserving
    <3>1. \A d \in Days :
            reserved[d] = reserved[d] - Share(booking, Reserving, b, d)
                            + Share(booking', Reserving', b, d)
      BY <1>2, <2>2 DEF Share
    <3>2. QED
      BY <2>2, <3>1
  <2>3. QED
    BY <2>1, <2>2
<1>6. assigned' \subseteq Bookings \X Rooms
  OBVIOUS
<1>7. QED
  BY <1>1, <1>2, <1>3, <1>4, <1>5, <1>6, PoolStep

\* A cancellation, of the rooms read for it.
LEMMA CancelPool ==
  ASSUME PoolInv, NEW b \in Bookings, NEW rooms \in SUBSET Rooms, Cancel(b, rooms)
  PROVE  PoolInv'
<1>1. /\ Is(b, {"PENDING_PAYMENT", "CONFIRMED"})
      /\ booking' = WithStatus(b, "CANCELED")
      /\ assigned' = assigned \ ({b} \X rooms)
      /\ room' = SetRooms({r \in rooms : room[r] = "OCCUPIED" /\ Guests(r) = {}}, "VACANT")
      /\ reserved' = IF Is(b, {"CONFIRMED"}) THEN Charge(Nights(b), -booking[b].quantity)
                     ELSE reserved
      /\ blocked' = blocked
  BY DEF Cancel
<1>2. b \in Open /\ (b \in Reserving <=> Is(b, {"CONFIRMED"}))
  BY <1>1 DEF Open, Reserving, Is
<1>3. room' \in [Rooms -> RoomStatuses]
  BY <1>1 DEF PoolInv, StayTypeOK, SetRooms, RoomStatuses
<1>4. QED
  BY <1>1, <1>2, <1>3, ReleasedPool

\* A check-out, of the rooms read for it.
LEMMA CheckOutPool ==
  ASSUME PoolInv, NEW b \in Bookings, NEW rooms \in SUBSET Rooms, CheckOutFrom(b, rooms)
  PROVE  PoolInv'
<1>1. /\ Is(b, {"CHECKED_IN"})
      /\ booking' = WithStatus(b, "CHECKED_OUT")
      /\ room' = SetRooms(rooms, "CLEANING")
      /\ assigned' = assigned \ ({b} \X rooms)
      /\ reserved' = Charge(Nights(b), -booking[b].quantity)
      /\ blocked' = blocked
  BY DEF CheckOutFrom
<1>2. b \in Open /\ b \in Reserving
  BY <1>1 DEF Open, Reserving, Is
<1>3. room' \in [Rooms -> RoomStatuses]
  BY <1>1 DEF PoolInv, StayTypeOK, SetRooms, RoomStatuses
<1>4. QED
  BY <1>1, <1>2, <1>3, ReleasedPool

\* A correction gives the old stay back and charges the new one.
LEMMA CorrectionPool ==
  ASSUME PoolInv, NEW b \in Bookings, NEW check_in \in Days, NEW check_out \in 1 .. LastDay + 1,
         NEW quantity \in 1 .. MaxQuantity, NEW S \in SUBSET Rooms,
         CorrectReservation(b, check_in, check_out, quantity, S)
  PROVE  PoolInv'
<1> USE DEF PoolInv, StayTypeOK
<1> DEFINE nights == check_in .. check_out - 1
           sold == Is(b, {"CONFIRMED"})
           given == IF sold THEN Charge(Nights(b), -booking[b].quantity) ELSE reserved
<1>1. /\ Is(b, {"PENDING_PAYMENT", "CONFIRMED"})
      /\ Cardinality(S) <= quantity
      /\ booking' = [booking EXCEPT ![b] = Stay(@.status, check_in, check_out, quantity)]
      /\ assigned' = (assigned \ ({b} \X Rooms)) \cup ({b} \X S)
      /\ reserved' = [d \in Days |-> IF sold /\ d \in nights THEN given[d] + quantity
                                     ELSE given[d]]
      /\ UNCHANGED <<room, blocked>>
  BY DEF CorrectReservation
<1>2. Stay(booking[b].status, check_in, check_out, quantity) \in Booking
  BY StayType, BookingType
<1>3. /\ booking' \in [Bookings -> Booking]
      /\ booking'[b] = Stay(booking[b].status, check_in, check_out, quantity)
      /\ \A c \in Bookings \ {b} : booking'[c] = booking[c]
  BY <1>1, <1>2
<1>4. /\ ~Is(b, {"NOT_CREATED"})'
      /\ (b \in Reserving' <=> sold) /\ (b \in Reserving <=> sold)
      /\ booking'[b].quantity = quantity
      /\ \A d \in Days : d \in NightsOf(booking'[b]) <=> d \in nights
  BY <1>1, <1>3, RoomsAssumption DEF Stay, Is, Reserving, NightsOf, Days
<1>5. /\ RoomsOf(b)' = S
      /\ \A c \in Bookings \ {b}, r \in Rooms : <<c, r>> \in assigned' <=> <<c, r>> \in assigned
  BY <1>1 DEF RoomsOf
<1>6. \A d \in Days : given[d] = reserved[d] - Share(booking, Reserving, b, d)
  <2>1. CASE sold
    <3>1. given = [d \in Days |-> IF d \in NightsOf(booking[b]) THEN reserved[d] + (-booking[b].quantity)
                                  ELSE reserved[d]]
      BY <2>1, ChargeShare
    <3> HIDE DEF given
    <3>2. QED
      BY <1>4, <2>1, <3>1, RoomCount DEF Share
  <2>2. CASE ~sold
    BY <1>4, <2>2 DEF Share
  <2>3. QED
    BY <2>1, <2>2
<1> HIDE DEF nights, sold, given
<1>7. reserved' = [d \in Days |-> reserved[d] - Share(booking, Reserving, b, d)
                                    + Share(booking', Reserving', b, d)]
  <2>1. \A d \in Days : /\ Share(booking', Reserving', b, d) =
                             IF sold /\ d \in nights THEN quantity ELSE 0
                        /\ Share(booking, Reserving, b, d) \in Nat
    BY <1>4, RoomCount DEF Share
  <2>2. \A d \in Days : (IF sold /\ d \in nights THEN given[d] + quantity ELSE given[d])
                          = reserved[d] - Share(booking, Reserving, b, d)
                              + Share(booking', Reserving', b, d)
    BY <1>6, <2>1
  <2>3. QED
    BY <1>1, <2>2
<1>8. /\ assigned' \subseteq Bookings \X Rooms
      /\ Cardinality(RoomsOf(b)') <= booking'[b].quantity
      /\ room' \in [Rooms -> RoomStatuses]
  BY <1>1, <1>4, <1>5
<1>9. QED
  BY <1>1, <1>3, <1>4, <1>5, <1>7, <1>8, PoolStep

\* A guest of several rooms gives one of them back.
RoomByRoom ==
  \E b \in Bookings, r \in Rooms : booking[b].quantity > 1 /\ CheckOutRoom(b, r)

\* Whoever has one room and gives it back leaves.
LEMMA CheckOutRoomPool ==
  ASSUME PoolInv, ~RoomByRoom, NEW b \in Bookings, NEW r \in Rooms, CheckOutRoom(b, r)
  PROVE  PoolInv'
<1> USE DEF PoolInv, StayTypeOK
<1>1. /\ Is(b, {"CHECKED_IN"})
      /\ r \in RoomsOf(b)
      /\ room' = [room EXCEPT ![r] = "CLEANING"]
      /\ assigned' = assigned \ {<<b, r>>}
      /\ booking' = IF RoomsOf(b) = {r} THEN WithStatus(b, "CHECKED_OUT") ELSE booking
      /\ reserved' = Charge(Nights(b), -1)
      /\ blocked' = blocked
  BY DEF CheckOutRoom
<1>2. booking[b].quantity \in 0 .. 1
  BY RoomCount DEF RoomByRoom
<1>3. Cardinality({r}) = 1 /\ IsFiniteSet({r})
  BY FS_Singleton
<1>4. booking[b].quantity = 1 /\ Cardinality(RoomsOf(b)) = 1
  <2>1. {r} \in SUBSET RoomsOf(b)
    BY <1>1
  <2>2. Cardinality({r}) <= Cardinality(RoomsOf(b))
    BY <2>1, RoomCount, FS_Subset
  <2>3. QED
    BY <1>2, <1>3, <2>2, RoomCount
<1>5. RoomsOf(b) = {r}
  <2>1. {r} \subseteq RoomsOf(b) /\ Cardinality({r}) = Cardinality(RoomsOf(b))
    BY <1>1, <1>3, <1>4
  <2>2. QED
    BY <2>1, RoomCount, FS_Subset
<1>6. /\ booking' = WithStatus(b, "CHECKED_OUT")
      /\ assigned' = assigned \ ({b} \X {r})
      /\ room' \in [Rooms -> RoomStatuses]
      /\ reserved' = Charge(Nights(b), -booking[b].quantity)
  BY <1>1, <1>4, <1>5 DEF RoomStatuses
<1>7. b \in Open /\ b \in Reserving
  BY <1>1 DEF Open, Reserving, Is
<1>8. {r} \in SUBSET Rooms
  OBVIOUS
<1>9. reserved' = IF b \in Reserving THEN Charge(Nights(b), -booking[b].quantity) ELSE reserved
  BY <1>6, <1>7
<1>10. QED
  BY <1>1, <1>6, <1>7, <1>8, <1>9, ReleasedPool

\* Neither a step that leaves bookings, rooms of bookings and counters alone ...
LEMMA NoBookingPool ==
  ASSUME PoolInv, UNCHANGED <<booking, assigned, reserved>>,
         room' \in [Rooms -> RoomStatuses], blocked' \in [Rooms -> SUBSET Days]
  PROVE  PoolInv'
BY DEF PoolInv, StayTypeOK, PoolMatchesBookings, RoomsWithinStay, QuantityOn, Reserving, Nights, Is,
       RoomsOf

\* ... such as one of housekeeping ...
LEMMA HousekeepingPool ==
  ASSUME PoolInv, NEW r \in Rooms
  PROVE  /\ \A status \in RoomStatuses : Mark(r, status) => PoolInv'
         /\ \A nights \in SUBSET Days : Block(r, nights) => PoolInv'
<1>1. ASSUME NEW status \in RoomStatuses, Mark(r, status) PROVE PoolInv'
  BY <1>1, NoBookingPool DEF Mark, PoolInv, StayTypeOK
<1>2. ASSUME NEW nights \in SUBSET Days, Block(r, nights) PROVE PoolInv'
  BY <1>2, NoBookingPool DEF Block, PoolInv, StayTypeOK
<1>3. QED
  BY <1>1, <1>2

\* ... nor one that does nothing moves the pool.
LEMMA StutterPool ==
  ASSUME PoolInv, UNCHANGED stayVars
  PROVE  PoolInv'
BY NoBookingPool DEF stayVars, PoolInv, StayTypeOK

\* Any request served in one piece.
LEMMA StayPool ==
  ASSUME PoolInv, StayNext, ~RoomByRoom
  PROVE  PoolInv'
<1>1. ASSUME NEW b \in Bookings, Reservations(b) PROVE PoolInv'
  <2>1. ASSUME NEW check_in \in Days, NEW check_out \in 1 .. LastDay + 1,
               NEW quantity \in 1 .. MaxQuantity, NEW S \in SUBSET Rooms,
               ReserveAtDesk(b, check_in, check_out, quantity, S)
        PROVE  PoolInv'
    <3>1. /\ Cardinality(S) <= quantity
          /\ AtDesk(b, "CONFIRMED", check_in, check_out, quantity, S, reserved)
          /\ room' = IF "CONFIRMED" = "CHECKED_IN" THEN SetRooms(S, "OCCUPIED") ELSE room
      BY <2>1 DEF ReserveAtDesk
    <3>2. QED
      BY <3>1, AtDeskPool
  <2>2. ASSUME NEW check_in \in Days, NEW check_out \in 1 .. LastDay + 1,
               NEW S \in SUBSET Rooms, NEW immediately \in BOOLEAN,
               WalkIn(b, check_in, check_out, S, immediately)
        PROVE  PoolInv'
    <3> DEFINE status == IF immediately THEN "CHECKED_IN" ELSE "CONFIRMED"
               pool == [d \in Days |-> QuantityOn(Reserving, d)]
    <3>1. /\ AtDesk(b, status, check_in, check_out, Cardinality(S), S, pool)
          /\ room' = IF status = "CHECKED_IN" THEN SetRooms(S, "OCCUPIED") ELSE room
          /\ status \in {"CONFIRMED", "CHECKED_IN"}
          /\ S # {} /\ Cardinality(S) <= MaxQuantity
      BY <2>2 DEF WalkIn
    <3>2. \A d \in Days : pool[d] = reserved[d]
      BY DEF PoolInv, PoolMatchesBookings
    <3>3. IsFiniteSet(S) /\ Cardinality(S) \in Nat
      BY RoomsAssumption, FS_Subset, FS_CardinalityType
    <3>4. Cardinality(S) \in 1 .. MaxQuantity /\ Cardinality(S) <= Cardinality(S)
      BY <3>1, <3>3, RoomsAssumption, FS_EmptySet
    <3> HIDE DEF status, pool
    <3>5. QED
      BY <3>1, <3>2, <3>4, AtDeskPool
  <2>3. RecordPayment(b) => PoolInv'
    BY ConfirmPool DEF RecordPayment, Candidates
  <2>4. CancelBooking(b) => PoolInv'
    BY CancelPool DEF CancelBooking, RoomsOf
  <2>5. QED
    BY <1>1, <2>1, <2>2, <2>3, <2>4, UnpooledSteps DEF Reservations
<1>2. ASSUME NEW b \in Bookings, Corrections(b) PROVE PoolInv'
  BY <1>2, CorrectionPool DEF Corrections
<1>3. ASSUME NEW b \in Bookings, Assigning(b) PROVE PoolInv'
  BY <1>3, UnpooledSteps DEF Assigning
<1>4. ASSUME NEW b \in Bookings, Stays(b) PROVE PoolInv'
  <2>1. CheckOut(b) => PoolInv'
    BY CheckOutPool DEF CheckOut, RoomsOf
  <2>2. QED
    BY <1>4, <2>1, CheckOutRoomPool, UnpooledSteps DEF Stays, UnassignRoom, ChangeRoom
<1>5. ASSUME NEW r \in Rooms, Housekeeping(r) PROVE PoolInv'
  <2>1. Intervals \subseteq SUBSET Days
    BY RoomsAssumption DEF Intervals, Days
  <2>2. QED
    BY <1>5, <2>1, HousekeepingPool DEF Housekeeping, MarkRoom, BlockRoom, UnblockRoom
<1>6. QED
  BY <1>1, <1>2, <1>3, <1>4, <1>5 DEF StayNext

\* The first state of the hotel.
LEMMA PoolInitInv == StayInit => PoolInv
<1> SUFFICES ASSUME StayInit PROVE PoolInv
  OBVIOUS
<1>1. StayInv
  BY StayInitInv
<1>2. RoomsWithinStay
  BY <1>1 DEF StayInit, StayInv, WithinQuantity, RoomsWithinStay, RoomsOf
<1>3. PoolMatchesBookings
  <2> SUFFICES ASSUME NEW d \in Days PROVE reserved[d] = QuantityOn(Reserving, d)
    BY DEF PoolMatchesBookings
  <2>1. Reserving = {}
    BY DEF StayInit, Reserving, Is, Stay
  <2>2. {t \in Reserving \X (1 .. MaxQuantity) :
           t[2] <= booking[t[1]].quantity /\ d \in Nights(t[1])} = {}
    BY <2>1
  <2>3. QED
    BY <2>2, FS_EmptySet DEF QuantityOn, StayInit
<1>4. QED
  BY <1>1, <1>2, <1>3 DEF PoolInv, StayInv

RaceInv ==
  /\ PoolInv
  /\ request \in Request
  /\ \A b \in Bookings : Locked(b) => b \in Open

\* A waiting request does to its booking what one served at once would, with
\* whatever rooms it has read.
LEMMA FinishPool ==
  ASSUME RaceInv, Finish
  PROVE  PoolInv'
<1> USE DEF RaceInv
<1>1. CASE request.kind \in Locking
  <2>1. request.booking \in Bookings /\ request.rooms \in SUBSET Rooms
    BY <1>1 DEF Request, NoRequest, Locking
  <2>2. QED
    BY <1>1, <2>1, ConfirmPool, CancelPool, CheckOutPool DEF Finish, Locking
<1>2. CASE request.kind = "unassign"
  <2>1. request.booking \in Bookings /\ request.from \in Rooms
    BY <1>2 DEF Request, NoRequest, Locking
  <2>2. QED
    BY <1>2, <2>1, UnpooledSteps DEF Finish
<1>3. CASE request.kind = "change"
  <2>1. request.booking \in Bookings /\ request.from \in Rooms /\ request.to \in Rooms
    BY <1>3 DEF Request, NoRequest, Locking
  <2>2. QED
    BY <1>3, <2>1, UnpooledSteps DEF Finish
<1>4. CASE request.kind = "mark"
  <2>1. request.room \in Rooms /\ request.status \in RoomStatuses
    BY <1>4 DEF Request, NoRequest, Locking
  <2>2. QED
    BY <1>4, <2>1, HousekeepingPool DEF Finish
<1>5. CASE request.kind = "block"
  <2>1. request.room \in Rooms /\ request.nights \in SUBSET Days
    BY <1>5 DEF Request, NoRequest, Locking
  <2>2. QED
    BY <1>5, <2>1, HousekeepingPool DEF Finish
<1>6. QED
  BY <1>1, <1>2, <1>3, <1>4, <1>5 DEF Finish, Locking

\* A request that begins has read a booking that is open, if it locks one.
LEMMA BeginsStep ==
  ASSUME booking \in [Bookings -> Booking], Begins
  PROVE  /\ UNCHANGED stayVars
         /\ request' \in Request
         /\ \A b \in Bookings : Locked(b)' => b \in Open
<1>1. ASSUME NEW b \in Bookings, BeginPayment(b) \/ BeginCancel(b) \/ BeginCheckOut(b)
      PROVE  /\ UNCHANGED stayVars
             /\ request' \in Request
             /\ \A c \in Bookings : Locked(c)' => c \in Open
  <2>1. /\ UNCHANGED stayVars
        /\ b \in Open
        /\ \E kind \in Locking, rooms \in SUBSET Rooms :
             request' = [kind |-> kind, booking |-> b, rooms |-> rooms]
    BY <1>1 DEF BeginPayment, BeginCancel, BeginCheckOut, Begin, Locking, Open, Is, Candidates, RoomsOf
  <2>2. QED
    BY <2>1 DEF Request, Locked
<1>2. ASSUME NEW b \in Bookings, NEW r \in Rooms, BeginUnassign(b, r)
      PROVE  /\ UNCHANGED stayVars
             /\ request' \in Request
             /\ \A c \in Bookings : Locked(c)' => c \in Open
  <2>1. booking[b].status \in BookingStatuses
    BY DEF Booking
  <2>2. QED
    BY <1>2, <2>1 DEF BeginUnassign, Begin, Request, Locked, Locking
<1>3. ASSUME NEW b \in Bookings, NEW from \in Rooms, NEW to \in Rooms, BeginChange(b, from, to)
      PROVE  /\ UNCHANGED stayVars
             /\ request' \in Request
             /\ \A c \in Bookings : Locked(c)' => c \in Open
  <2>1. booking[b].status \in BookingStatuses
    BY DEF Booking
  <2>2. QED
    BY <1>3, <2>1 DEF BeginChange, Begin, Request, Locked, Locking
<1>4. ASSUME NEW r \in Rooms, \/ \E status \in RoomStatuses : BeginMark(r, status)
                              \/ \E nights \in Intervals : BeginBlock(r, nights)
      PROVE  /\ UNCHANGED stayVars
             /\ request' \in Request
             /\ \A c \in Bookings : Locked(c)' => c \in Open
  <2>1. Intervals \subseteq SUBSET Days
    BY RoomsAssumption DEF Intervals, Days
  <2>2. QED
    BY <1>4, <2>1 DEF BeginMark, BeginBlock, Begin, Request, Locked, Locking
<1>5. QED
  BY <1>1, <1>2, <1>3, <1>4 DEF Begins

\* Nothing happens.
LEMMA RaceStutter == RaceInv /\ UNCHANGED raceVars => RaceInv'
<1> SUFFICES ASSUME RaceInv, UNCHANGED raceVars PROVE RaceInv'
  OBVIOUS
<1>1. PoolInv'
  BY StutterPool DEF raceVars, RaceInv
<1>2. QED
  BY <1>1 DEF raceVars, stayVars, RaceInv, Locked, Open, Is

\* The locks keep it up, as long as nobody gives several rooms back one by one.
LEMMA RaceNextInv == RaceInv /\ [RaceNext]_raceVars /\ ~RoomByRoom => RaceInv'
<1> SUFFICES ASSUME RaceInv, [RaceNext]_raceVars, ~RoomByRoom PROVE RaceInv'
  OBVIOUS
<1>1. CASE UNCHANGED raceVars
  BY <1>1, RaceStutter
<1>2. CASE Begins
  <2>1. /\ UNCHANGED stayVars
        /\ request' \in Request
        /\ \A b \in Bookings : Locked(b)' => b \in Open
    BY <1>2, BeginsStep DEF RaceInv, PoolInv, StayTypeOK
  <2>2. PoolInv'
    BY <2>1, StutterPool DEF RaceInv
  <2>3. QED
    BY <2>1, <2>2 DEF RaceInv, stayVars, Open, Is
<1>3. CASE Finish
  BY <1>3, FinishPool DEF Finish, RaceInv, Request, NoRequest, Locked, Locking
<1>4. CASE Fail
  <2>1. PoolInv'
    BY <1>4, StutterPool DEF Fail, RaceInv
  <2>2. QED
    BY <1>4, <2>1 DEF Fail, RaceInv, Request, NoRequest, Locked, Locking
<1>5. CASE Served
  <2>1. StayNext
    BY <1>5 DEF Served, StayNext
  <2>2. PoolInv'
    BY <2>1, StayPool DEF RaceInv
  <2>3. request' = request
    BY <1>5 DEF Served
  <2>4. \A b \in Bookings : Locked(b) => booking'[b] = booking[b]
    BY <1>5 DEF Served, LocksKept, Locked
  <2>5. QED
    BY <2>2, <2>3, <2>4 DEF RaceInv, Locked, Open, Is
<1>6. QED
  BY <1>1, <1>2, <1>3, <1>4, <1>5 DEF RaceNext

\* Whatever is served while a payment, a cancellation or a check-out waits for
\* the rooms, its booking stays open, and the counter of the pool stays what the
\* reservations in force ask for: for bookings of any number of rooms, as long as
\* their rooms are given back together.
THEOREM LocksKeepPool ==
  RaceSpec /\ [][~RoomByRoom]_raceVars => []LocksProtectPool
<1>1. RaceInit => RaceInv
  BY PoolInitInv DEF RaceInit, RaceInv, Request, NoRequest, Locked, Locking
<1>2. RaceInv /\ [RaceNext]_raceVars /\ [~RoomByRoom]_raceVars => RaceInv'
  <2>1. CASE UNCHANGED raceVars
    BY <2>1, RaceStutter
  <2>2. CASE ~UNCHANGED raceVars
    BY <2>2, RaceNextInv
  <2>3. QED
    BY <2>1, <2>2
<1>3. RaceInv => LocksProtectPool
  BY DEF RaceInv, PoolInv, LocksProtectPool
<1>4. QED
  BY <1>1, <1>2, <1>3, PTL DEF RaceSpec

\* With bookings of one room each nobody can do otherwise.
THEOREM LocksKeepSingleRooms ==
  ASSUME MaxQuantity = 1
  PROVE  RaceSpec => []LocksProtectPool
<1>1. RaceInit => RaceInv
  BY PoolInitInv DEF RaceInit, RaceInv, Request, NoRequest, Locked, Locking
<1>2. RaceInv => ~RoomByRoom
  BY DEF RaceInv, PoolInv, StayTypeOK, Booking, RoomByRoom
<1>3. RaceInv => LocksProtectPool
  BY DEF RaceInv, PoolInv, LocksProtectPool
<1>4. QED
  BY <1>1, <1>2, <1>3, RaceNextInv, PTL DEF RaceSpec

\* So long as rooms are given back together, no payment undone, correction or
\* check-out ever finds fewer rooms in the counter than it has to give back, in
\* whatever order the requests come.
THEOREM NoReleaseRefused ==
  RaceSpec /\ [][~RoomByRoom]_raceVars
    => [](\A b \in Reserving : CanGiveBack(b, booking[b].quantity))
<1>1. LocksProtectPool => \A b \in Reserving : CanGiveBack(b, booking[b].quantity)
  <2> SUFFICES ASSUME LocksProtectPool, NEW b \in Reserving, NEW d \in Nights(b)
               PROVE  reserved[d] >= booking[b].quantity
    BY DEF CanGiveBack
  <2>1. /\ b \in Bookings /\ d \in Days
        /\ booking[b].quantity \in 0 .. MaxQuantity
        /\ reserved[d] = Asked(booking, Reserving, d)
    BY DEF LocksProtectPool, PoolMatchesBookings, StayTypeOK, Booking, Reserving, Nights,
           NightsOf, QuantityOn, Asked, RoomsAsked
  <2>2. Reserving \in SUBSET Bookings /\ Reserving \ {b} \in SUBSET Bookings
    BY DEF Reserving
  <2>3. /\ Asked(booking, Reserving, d)
             = Asked(booking, Reserving \ {b}, d) + Share(booking, Reserving, b, d)
        /\ Asked(booking, Reserving \ {b}, d) \in Nat
    BY <2>1, <2>2, AskedWithout, AskedType
  <2>4. Share(booking, Reserving, b, d) = booking[b].quantity
    BY DEF Share, Nights, NightsOf
  <2>5. QED
    BY <2>1, <2>3, <2>4, RoomsAssumption
<1>2. QED
  BY <1>1, LocksKeepPool, PTL

-----------------------------------------------------------------------------
(* The outline of the promise: what the hotel sells fits its rooms, whatever  *)
(* becomes of the counter's exactness.                                        *)

Holds == Open \ Reserving

\* The rooms on hold for others than b.
OthersHold(b, d) == Asked(booking, Holds \ {b}, d)

FitInv ==
  /\ booking \in [Bookings -> Booking]
  /\ reserved \in [Days -> Nat]
  /\ \A d \in Days : reserved[d] + HeldOn(d) <= Cardinality(Rooms)

\* What every step must show.
StepKeeps == FitInv' /\ Promised!Orderly

\* The rooms on hold, counted apart for b, before a step that changes b alone.
LEMMA HeldApart ==
  ASSUME booking \in [Bookings -> Booking], NEW b \in Bookings, NEW d
  PROVE  /\ HeldOn(d) = OthersHold(b, d) + Share(booking, Holds, b, d)
         /\ OthersHold(b, d) \in Nat
         /\ Share(booking, Holds, b, d) \in Nat
<1>1. HeldOn(d) = Asked(booking, Holds, d)
  BY DEF HeldOn, Holds, QuantityOn, Asked, RoomsAsked, Nights, NightsOf
<1>2. booking[b].quantity \in 0 .. MaxQuantity
  BY DEF Booking
<1>3. Holds \in SUBSET Bookings /\ Holds \ {b} \in SUBSET Bookings
  BY DEF Holds, Open
<1>4. Asked(booking, Holds, d) = OthersHold(b, d) + Share(booking, Holds, b, d)
  BY <1>2, <1>3, AskedWithout DEF OthersHold
<1>5. OthersHold(b, d) \in Nat
  BY <1>3, AskedType DEF OthersHold
<1>6. QED
  BY <1>1, <1>2, <1>4, <1>5, RoomsAssumption DEF Share

\* And after it.
LEMMA HeldNext ==
  ASSUME booking' \in [Bookings -> Booking], NEW b \in Bookings, NEW d,
         \A c \in Bookings \ {b} : booking'[c] = booking[c]
  PROVE  /\ HeldOn(d)' = OthersHold(b, d) + Share(booking', Holds', b, d)
         /\ Share(booking', Holds', b, d) \in Nat
<1>1. HeldOn(d)' = Asked(booking', Holds', d)
  BY DEF HeldOn, Holds, QuantityOn, Asked, RoomsAsked, Nights, NightsOf
<1>2. booking'[b].quantity \in 0 .. MaxQuantity
  BY DEF Booking
<1>3. Holds' \in SUBSET Bookings
  BY DEF Holds, Open
<1>4. Asked(booking', Holds', d) = Asked(booking', Holds' \ {b}, d) + Share(booking', Holds', b, d)
  <2> DEFINE bk == booking'
             S == Holds'
  <2>1. S \in SUBSET Bookings /\ bk[b].quantity \in 0 .. MaxQuantity
    BY <1>2, <1>3
  <2> HIDE DEF bk, S
  <2>2. Asked(bk, S, d) = Asked(bk, S \ {b}, d) + Share(bk, S, b, d)
    BY <2>1, AskedWithout
  <2>3. QED
    BY <2>2 DEF bk, S
<1>5. RoomsAsked(booking', Holds' \ {b}, d) = RoomsAsked(booking, Holds \ {b}, d)
  <2>1. Holds' \ {b} = Holds \ {b}
    BY DEF Holds, Open, Reserving, Is
  <2>2. Holds \ {b} \subseteq Bookings \ {b}
    BY DEF Holds, Open
  <2>3. QED
    BY <2>1, <2>2 DEF RoomsAsked
<1>6. Asked(booking', Holds' \ {b}, d) = OthersHold(b, d)
  BY <1>5 DEF Asked, OthersHold
<1>7. QED
  BY <1>1, <1>2, <1>4, <1>6, RoomsAssumption DEF Share

\* The hotel has finitely many rooms.
LEMMA RoomsCount == Cardinality(Rooms) \in Nat
BY RoomsAssumption, FS_CardinalityType

\* One booking turns, and its share fits next to the others'.
LEMMA FitStep ==
  ASSUME FitInv, NEW b \in Bookings, booking' \in [Bookings -> Booking],
         \A c \in Bookings \ {b} : booking'[c] = booking[c],
         reserved' \in [Days -> Nat],
         \A d \in Days : reserved'[d] + OthersHold(b, d) + Share(booking', Holds', b, d)
                           <= Cardinality(Rooms),
         LET turn == <<LifeOf(booking[b].status), LifeOf(booking'[b].status)>>
         IN  turn \in Promised!Turns \/ turn[1] = turn[2]
  PROVE  StepKeeps
<1>1. ASSUME NEW d \in Days
      PROVE  reserved'[d] + HeldOn(d)' <= Cardinality(Rooms)
  <2>1. /\ HeldOn(d)' = OthersHold(b, d) + Share(booking', Holds', b, d)
        /\ Share(booking', Holds', b, d) \in Nat
        /\ OthersHold(b, d) \in Nat
    BY HeldNext, HeldApart DEF FitInv
  <2>2. reserved'[d] \in Nat /\ Cardinality(Rooms) \in Nat
    BY RoomsCount
  <2>3. QED
    BY <2>1, <2>2
<1>2. FitInv'
  BY <1>1 DEF FitInv
<1>3. Promised!Orderly
  <2>1. \A c \in Bookings \ {b} : LifeOf(booking'[c].status) = LifeOf(booking[c].status)
    OBVIOUS
  <2>2. Promised!Turning \subseteq {b}
    BY <2>1 DEF Promised!Turning
  <2>3. CASE LifeOf(booking'[b].status) = LifeOf(booking[b].status)
    <3>1. Promised!Turning = {}
      BY <2>2, <2>3 DEF Promised!Turning
    <3>2. QED
      BY <3>1 DEF Promised!Orderly
  <2>4. CASE <<LifeOf(booking[b].status), LifeOf(booking'[b].status)>> \in Promised!Turns
    BY <2>2, <2>4 DEF Promised!Orderly
  <2>5. QED
    BY <2>3, <2>4
<1>4. QED
  BY <1>2, <1>3 DEF StepKeeps

\* The share of b grows on no night.
LEMMA FitLess ==
  ASSUME FitInv, NEW b \in Bookings, booking' \in [Bookings -> Booking],
         \A c \in Bookings \ {b} : booking'[c] = booking[c],
         reserved' \in [Days -> Nat],
         \A d \in Days : reserved'[d] + Share(booking', Holds', b, d)
                           <= reserved[d] + Share(booking, Holds, b, d),
         LET turn == <<LifeOf(booking[b].status), LifeOf(booking'[b].status)>>
         IN  turn \in Promised!Turns \/ turn[1] = turn[2]
  PROVE  StepKeeps
<1>1. ASSUME NEW d \in Days
      PROVE  reserved'[d] + OthersHold(b, d) + Share(booking', Holds', b, d) <= Cardinality(Rooms)
  <2>1. /\ HeldOn(d) = OthersHold(b, d) + Share(booking, Holds, b, d)
        /\ OthersHold(b, d) \in Nat
        /\ Share(booking, Holds, b, d) \in Nat
        /\ Share(booking', Holds', b, d) \in Nat
    BY HeldApart, HeldNext DEF FitInv
  <2>2. /\ reserved'[d] \in Nat /\ reserved[d] \in Nat /\ Cardinality(Rooms) \in Nat
        /\ reserved[d] + HeldOn(d) <= Cardinality(Rooms)
        /\ reserved'[d] + Share(booking', Holds', b, d) <= reserved[d] + Share(booking, Holds, b, d)
    BY RoomsCount DEF FitInv
  <2>3. QED
    BY <2>1, <2>2
<1>2. QED
  BY <1>1, FitStep

\* A step that leaves bookings and counter alone.
LEMMA FitSame ==
  ASSUME FitInv, UNCHANGED <<booking, reserved>>
  PROVE  StepKeeps
<1>1. \A d \in Days : HeldOn(d)' = HeldOn(d)
  BY DEF HeldOn, QuantityOn, Open, Reserving, Is, Nights
<1>2. QED
  BY <1>1 DEF StepKeeps, FitInv, Promised!Orderly, Promised!Turning

\* A booking taken, on hold or at the desk, fits next to what it finds.
LEMMA FitTaken ==
  ASSUME FitInv, NEW b \in Bookings, NEW check_in \in Days, NEW check_out \in 1 .. LastDay + 1,
         NEW quantity \in 1 .. MaxQuantity, NEW S, NEW pool, \A d \in Days : pool[d] \in Nat,
         NEW status \in {"PENDING_PAYMENT", "CONFIRMED", "CHECKED_IN"},
         \/ /\ status = "PENDING_PAYMENT"
            /\ pool = reserved
            /\ CreateBooking(b, check_in, check_out, quantity)
         \/ /\ status # "PENDING_PAYMENT"
            /\ AtDesk(b, status, check_in, check_out, quantity, S, pool)
  PROVE  StepKeeps
<1> DEFINE nights == check_in .. check_out - 1
           n == IF status = "PENDING_PAYMENT" THEN 0 ELSE quantity
<1>0. /\ Accepts(b, check_in, check_out, quantity, pool)
      /\ booking' = [booking EXCEPT ![b] = Stay(status, check_in, check_out, quantity)]
      /\ \A d \in nights \cap Days : reserved'[d] = pool[d] + n
      /\ \A d \in Days \ nights : reserved'[d] = reserved[d]
      /\ DOMAIN reserved' = Days /\ reserved' = [d \in Days |-> reserved'[d]]
  <2>1. CASE status = "PENDING_PAYMENT"
    <3>1. pool = reserved /\ CreateBooking(b, check_in, check_out, quantity)
      BY <2>1
    <3>2. QED
      BY <2>1, <3>1 DEF CreateBooking, FitInv
  <2>2. CASE status # "PENDING_PAYMENT"
    <3>1. AtDesk(b, status, check_in, check_out, quantity, S, pool)
      BY <2>2
    <3>2. QED
      BY <2>2, <3>1 DEF AtDesk
  <2>3. QED
    BY <2>1, <2>2
<1>1. /\ Stay(status, check_in, check_out, quantity) \in Booking
      /\ quantity \in Nat
      /\ nights \subseteq Days
  BY StayType, RoomsAssumption DEF BookingStatuses
<1>2. /\ booking[b].status = "NOT_CREATED"
      /\ \A d \in nights : QuantityOn(Open \ Reserving, d) + pool[d] + quantity <= Cardinality(Rooms)
  BY <1>0 DEF Accepts, Fits, Is
<1>3. /\ booking' \in [Bookings -> Booking]
      /\ booking'[b] = Stay(status, check_in, check_out, quantity)
      /\ \A c \in Bookings \ {b} : booking'[c] = booking[c]
  BY <1>0, <1>1 DEF FitInv
<1>4. /\ booking'[b].status = status
      /\ booking'[b].quantity = quantity
      /\ \A d \in Days : d \in NightsOf(booking'[b]) <=> d \in nights
  BY <1>3, RoomsAssumption DEF Stay, NightsOf, Days
<1> HIDE DEF nights, n
<1>5. b \notin Holds /\ (b \in Holds' <=> status = "PENDING_PAYMENT")
  BY <1>2, <1>4 DEF Holds, Open, Reserving, Is
<1>6. \A d \in Days :
        /\ Share(booking, Holds, b, d) = 0
        /\ Share(booking', Holds', b, d)
             = IF d \in nights /\ status = "PENDING_PAYMENT" THEN quantity ELSE 0
  BY <1>4, <1>5 DEF Share
<1>7. ASSUME NEW d \in Days
      PROVE  /\ reserved'[d] \in Nat
             /\ reserved'[d] + OthersHold(b, d) + Share(booking', Holds', b, d) <= Cardinality(Rooms)
  <2>1. /\ HeldOn(d) = OthersHold(b, d)
        /\ OthersHold(b, d) \in Nat
    BY <1>6, HeldApart DEF FitInv
  <2>2. /\ reserved[d] \in Nat /\ pool[d] \in Nat /\ Cardinality(Rooms) \in Nat
        /\ reserved[d] + HeldOn(d) <= Cardinality(Rooms)
    BY RoomsCount DEF FitInv
  <2>3. CASE d \in nights
    <3>1. HeldOn(d) + pool[d] + quantity <= Cardinality(Rooms)
      BY <1>2, <2>3 DEF HeldOn
    <3>2. reserved'[d] = pool[d] + n
      BY <1>0, <2>3
    <3>3. Share(booking', Holds', b, d) = IF status = "PENDING_PAYMENT" THEN quantity ELSE 0
      BY <1>6, <2>3
    <3> DEFINE share == Share(booking', Holds', b, d)
               charged == reserved'[d]
    <3> HIDE DEF share, charged
    <3>4. \/ charged = pool[d] + 0 /\ share = quantity
          \/ charged = pool[d] + quantity /\ share = 0
      BY <3>2, <3>3 DEF share, charged, n
    <3>5. charged \in Nat /\ charged + OthersHold(b, d) + share <= Cardinality(Rooms)
      BY <1>1, <2>1, <2>2, <3>1, <3>4
    <3>6. QED
      BY <3>5 DEF share, charged
  <2>4. CASE d \notin nights
    <3>1. reserved'[d] = reserved[d]
      BY <1>0, <2>4
    <3>2. Share(booking', Holds', b, d) = 0
      BY <1>6, <2>4
    <3>3. QED
      BY <2>1, <2>2, <3>1, <3>2
  <2>5. QED
    BY <2>3, <2>4
<1>8. reserved' \in [Days -> Nat]
  BY <1>0, <1>7
<1>9. <<LifeOf(booking[b].status), LifeOf(booking'[b].status)>> \in Promised!Turns
  BY <1>2, <1>4 DEF LifeOf, Promised!Turns
<1>10. QED
  BY <1>3, <1>7, <1>8, <1>9, FitStep

\* A payment turns the rooms on hold into rooms reserved.
LEMMA FitConfirm ==
  ASSUME FitInv, NEW b \in Bookings, NEW candidates, Confirm(b, candidates)
  PROVE  StepKeeps
<1>1. /\ booking[b].status = "PENDING_PAYMENT"
      /\ booking' = WithStatus(b, "CONFIRMED")
      /\ reserved' = Charge(Nights(b), booking[b].quantity)
  BY DEF Confirm, Is
<1>2. /\ booking' \in [Bookings -> Booking]
      /\ \A c \in Bookings \ {b} : booking'[c] = booking[c]
      /\ booking'[b].status = "CONFIRMED"
      /\ booking[b].quantity \in Nat
  BY <1>1, RoomsAssumption DEF FitInv, WithStatus, Booking, BookingStatuses
<1>3. b \in Holds /\ b \notin Holds'
  BY <1>1, <1>2 DEF Holds, Open, Reserving, Is
<1>4. ASSUME NEW d \in Days
      PROVE  /\ reserved'[d] \in Nat
             /\ reserved'[d] + Share(booking', Holds', b, d) <= reserved[d] + Share(booking, Holds, b, d)
  BY <1>1, <1>2, <1>3 DEF FitInv, Charge, Share, Nights, NightsOf
<1>5. reserved' \in [Days -> Nat]
  BY <1>1, <1>4 DEF Charge
<1>6. <<LifeOf(booking[b].status), LifeOf(booking'[b].status)>> \in Promised!Turns
  BY <1>1, <1>2 DEF LifeOf, Promised!Turns
<1>7. QED
  BY <1>2, <1>4, <1>5, <1>6, FitLess

\* A booking that ends, or a guest who leaves a room, gives back what it finds.
LEMMA FitReleased ==
  ASSUME FitInv, NEW b \in Bookings, NEW n \in Nat, NEW status \in BookingStatuses,
         CanGiveBack(b, n),
         booking' = WithStatus(b, status),
         status \notin {"NOT_CREATED", "PENDING_PAYMENT"},
         reserved' = Charge(Nights(b), -n) \/ reserved' = reserved,
         \/ <<LifeOf(booking[b].status), LifeOf(status)>> \in Promised!Turns
         \/ LifeOf(booking[b].status) = LifeOf(status)
  PROVE  StepKeeps
<1>1. /\ booking' \in [Bookings -> Booking]
      /\ \A c \in Bookings \ {b} : booking'[c] = booking[c]
      /\ booking'[b].status = status
      /\ booking[b].quantity \in Nat
  BY RoomsAssumption DEF FitInv, WithStatus, Booking
<1>2. b \notin Holds'
  BY <1>1 DEF Holds, Open, Reserving, Is
<1>3. ASSUME NEW d \in Days
      PROVE  reserved'[d] \in Nat /\ reserved'[d] <= reserved[d]
  <2>1. reserved[d] \in Nat /\ (d \in Nights(b) => reserved[d] >= n)
    BY DEF FitInv, CanGiveBack, Nights
  <2>2. reserved'[d] = reserved[d] \/ (d \in Nights(b) /\ reserved'[d] = reserved[d] + (-n))
    BY DEF Charge
  <2>3. QED
    BY <2>1, <2>2
<1>4. reserved' \in [Days -> Nat]
  BY <1>3 DEF Charge, FitInv
<1>5. ASSUME NEW d \in Days
      PROVE  reserved'[d] + Share(booking', Holds', b, d) <= reserved[d] + Share(booking, Holds, b, d)
  <2>1. Share(booking', Holds', b, d) = 0 /\ Share(booking, Holds, b, d) \in Nat
    BY <1>1, <1>2 DEF Share
  <2>2. reserved[d] \in Nat
    BY DEF FitInv
  <2>3. QED
    BY <1>3, <2>1, <2>2
<1>6. QED
  BY <1>1, <1>4, <1>5, FitLess

\* The ends of a stay, whatever rooms were read for them.
LEMMA FitEnds ==
  ASSUME FitInv, NEW b \in Bookings
  PROVE  /\ \A rooms : Cancel(b, rooms) => StepKeeps
         /\ \A rooms : CheckOutFrom(b, rooms) => StepKeeps
         /\ \A r : CheckOutRoom(b, r) => StepKeeps
<1>1. booking[b].quantity \in Nat
  BY RoomsAssumption DEF FitInv, Booking
<1>2. ASSUME NEW rooms, Cancel(b, rooms)
      PROVE  StepKeeps
  <2>1. /\ booking[b].status \in {"PENDING_PAYMENT", "CONFIRMED"}
        /\ booking[b].status = "CONFIRMED" => CanGiveBack(b, booking[b].quantity)
        /\ booking' = WithStatus(b, "CANCELED")
        /\ reserved' = IF booking[b].status = "CONFIRMED"
                       THEN Charge(Nights(b), -booking[b].quantity) ELSE reserved
    BY <1>2 DEF Cancel, Is
  <2>2. <<LifeOf(booking[b].status), LifeOf("CANCELED")>> \in Promised!Turns
    BY <2>1 DEF LifeOf, Promised!Turns
  <2>3. CASE booking[b].status = "CONFIRMED"
    BY <1>1, <2>1, <2>2, <2>3, FitReleased DEF BookingStatuses
  <2>4. CASE booking[b].status # "CONFIRMED"
    <3>1. 0 \in Nat /\ CanGiveBack(b, 0)
      BY DEF CanGiveBack, FitInv, Nights
    <3>2. QED
      BY <2>1, <2>2, <2>4, <3>1, FitReleased DEF BookingStatuses
  <2>5. QED
    BY <2>3, <2>4
<1>3. ASSUME NEW rooms, CheckOutFrom(b, rooms)
      PROVE  StepKeeps
  <2>1. /\ booking[b].status = "CHECKED_IN"
        /\ CanGiveBack(b, booking[b].quantity)
        /\ booking' = WithStatus(b, "CHECKED_OUT")
        /\ reserved' = Charge(Nights(b), -booking[b].quantity)
    BY <1>3 DEF CheckOutFrom, Is
  <2>2. <<LifeOf(booking[b].status), LifeOf("CHECKED_OUT")>> \in Promised!Turns
    BY <2>1 DEF LifeOf, Promised!Turns
  <2>3. QED
    BY <1>1, <2>1, <2>2, FitReleased DEF BookingStatuses
<1>4. ASSUME NEW r, CheckOutRoom(b, r)
      PROVE  StepKeeps
  <2>1. /\ booking[b].status = "CHECKED_IN"
        /\ CanGiveBack(b, 1)
        /\ booking' = WithStatus(b, "CHECKED_OUT") \/ booking' = booking
        /\ reserved' = Charge(Nights(b), -1)
    BY <1>4 DEF CheckOutRoom, Is
  <2>2. CASE booking' = WithStatus(b, "CHECKED_OUT")
    <3>1. <<LifeOf(booking[b].status), LifeOf("CHECKED_OUT")>> \in Promised!Turns
      BY <2>1 DEF LifeOf, Promised!Turns
    <3>2. QED
      BY <2>1, <2>2, <3>1, FitReleased DEF BookingStatuses
  <2>3. CASE booking' = booking
    <3>1. booking' = WithStatus(b, "CHECKED_IN")
      BY <2>1, <2>3 DEF WithStatus, FitInv, Booking
    <3>2. QED
      BY <2>1, <3>1, FitReleased DEF BookingStatuses
  <2>4. QED
    BY <2>1, <2>2, <2>3
<1>5. QED
  BY <1>2, <1>3, <1>4

\* A correction fits the new stay next to what is left without the old one.
LEMMA FitCorrection ==
  ASSUME FitInv, NEW b \in Bookings, NEW check_in \in Days, NEW check_out \in 1 .. LastDay + 1,
         NEW quantity \in 1 .. MaxQuantity, NEW S,
         CorrectReservation(b, check_in, check_out, quantity, S)
  PROVE  StepKeeps
<1> DEFINE nights == check_in .. check_out - 1
           sold == Is(b, {"CONFIRMED"})
           given == IF sold THEN Charge(Nights(b), -booking[b].quantity) ELSE reserved
<1>1. /\ booking[b].status \in {"PENDING_PAYMENT", "CONFIRMED"}
      /\ sold => CanGiveBack(b, booking[b].quantity)
      /\ \A d \in nights : QuantityOn((Open \ {b}) \ Reserving, d) + given[d] + quantity
                             <= Cardinality(Rooms)
      /\ booking' = [booking EXCEPT ![b] = Stay(@.status, check_in, check_out, quantity)]
      /\ reserved' = [d \in Days |-> IF sold /\ d \in nights THEN given[d] + quantity
                                     ELSE given[d]]
  BY DEF CorrectReservation, Fits, Is
<1>2. /\ Stay(booking[b].status, check_in, check_out, quantity) \in Booking
      /\ quantity \in Nat /\ booking[b].quantity \in Nat
  <2>1. booking[b].status \in BookingStatuses
    BY <1>1 DEF BookingStatuses
  <2>2. Stay(booking[b].status, check_in, check_out, quantity) \in Booking
    BY <2>1, StayType
  <2>3. quantity \in Nat
    BY RoomsAssumption
  <2>4. booking[b].quantity \in Nat
    BY RoomsAssumption DEF FitInv, Booking
  <2>5. QED
    BY <2>2, <2>3, <2>4
<1>3. /\ booking' \in [Bookings -> Booking]
      /\ booking'[b] = Stay(booking[b].status, check_in, check_out, quantity)
      /\ \A c \in Bookings \ {b} : booking'[c] = booking[c]
  BY <1>1, <1>2 DEF FitInv
<1>4. /\ booking'[b].status = booking[b].status
      /\ booking'[b].quantity = quantity
      /\ \A d \in Days : d \in NightsOf(booking'[b]) <=> d \in nights
  BY <1>3, RoomsAssumption DEF Stay, NightsOf, Days
<1>5. (b \in Holds <=> ~sold) /\ (b \in Holds' <=> ~sold)
  BY <1>1, <1>4 DEF Holds, Open, Reserving, Is
<1>6. \A d \in Days : QuantityOn((Open \ {b}) \ Reserving, d) = OthersHold(b, d)
  <2>1. (Open \ {b}) \ Reserving = Holds \ {b}
    BY DEF Holds
  <2>2. QED
    BY <2>1 DEF QuantityOn, OthersHold, Asked, RoomsAsked, Nights, NightsOf
<1>7. ASSUME NEW d \in Days
      PROVE  given[d] \in Nat /\ given[d] <= reserved[d]
  <2>1. reserved[d] \in Nat
    BY DEF FitInv
  <2>2. CASE ~sold
    BY <2>1, <2>2
  <2>3. CASE sold
    <3>1. d \in Nights(b) => reserved[d] >= booking[b].quantity
      BY <1>1, <2>3 DEF CanGiveBack
    <3>2. given[d] = IF d \in Nights(b) THEN reserved[d] + (-booking[b].quantity) ELSE reserved[d]
      BY <2>3 DEF Charge
    <3>3. QED
      BY <1>2, <2>1, <3>1, <3>2
  <2>4. QED
    BY <2>2, <2>3
<1> HIDE DEF nights, sold, given
<1>8. ASSUME NEW d \in Days
      PROVE  /\ reserved'[d] \in Nat
             /\ reserved'[d] + OthersHold(b, d) + Share(booking', Holds', b, d) <= Cardinality(Rooms)
  <2> DEFINE share == Share(booking', Holds', b, d)
             charged == reserved'[d]
  <2>1. share = IF ~sold /\ d \in nights THEN quantity ELSE 0
    BY <1>4, <1>5 DEF Share
  <2>2. charged = IF sold /\ d \in nights THEN given[d] + quantity ELSE given[d]
    BY <1>1
  <2>3. /\ OthersHold(b, d) \in Nat
        /\ OthersHold(b, d) <= HeldOn(d)
        /\ HeldOn(d) \in Nat
    BY HeldApart DEF FitInv
  <2>4. /\ reserved[d] \in Nat /\ Cardinality(Rooms) \in Nat
        /\ reserved[d] + HeldOn(d) <= Cardinality(Rooms)
    BY RoomsCount DEF FitInv
  <2> HIDE DEF share, charged
  <2>5. CASE d \in nights
    <3>1. OthersHold(b, d) + given[d] + quantity <= Cardinality(Rooms)
      BY <1>1, <1>6, <2>5
    <3>2. \/ charged = given[d] + quantity /\ share = 0
          \/ charged = given[d] /\ share = quantity
      BY <2>1, <2>2, <2>5
    <3>3. charged \in Nat /\ charged + OthersHold(b, d) + share <= Cardinality(Rooms)
      BY <1>2, <1>7, <2>3, <2>4, <3>1, <3>2
    <3>4. QED
      BY <3>3 DEF share, charged
  <2>6. CASE d \notin nights
    <3>1. charged = given[d] /\ share = 0
      BY <2>1, <2>2, <2>6
    <3>2. charged \in Nat /\ charged + OthersHold(b, d) + share <= Cardinality(Rooms)
      BY <1>7, <2>3, <2>4, <3>1
    <3>3. QED
      BY <3>2 DEF share, charged
  <2>7. QED
    BY <2>5, <2>6
<1>9. reserved' \in [Days -> Nat]
  BY <1>1, <1>8
<1>10. QED
  BY <1>3, <1>4, <1>8, <1>9, FitStep

\* Steps on the rooms of a booking, and its check-in, leave the counter alone.
LEMMA FitOnRooms ==
  ASSUME FitInv, NEW b \in Bookings
  PROVE  /\ \A r : AssignRoom(b, r) => StepKeeps
         /\ \A r, seen : Unassign(b, r, seen) => StepKeeps
         /\ \A from, to, seen : Change(b, from, to, seen) => StepKeeps
         /\ CheckIn(b) => StepKeeps
<1>1. ASSUME CheckIn(b)
      PROVE  StepKeeps
  <2>1. /\ booking[b].status = "CONFIRMED"
        /\ booking' = WithStatus(b, "CHECKED_IN")
        /\ reserved' = reserved
    BY <1>1 DEF CheckIn, CanCheckIn, Is
  <2>2. <<LifeOf(booking[b].status), LifeOf("CHECKED_IN")>> \in Promised!Turns
    BY <2>1 DEF LifeOf, Promised!Turns
  <2>3. CanGiveBack(b, 0)
    BY DEF CanGiveBack, FitInv, Nights
  <2>4. QED
    BY <2>1, <2>2, <2>3, FitReleased DEF BookingStatuses
<1>2. QED
  BY <1>1, FitSame DEF AssignRoom, Unassign, Change

\* So does every request.
LEMMA FitNext ==
  ASSUME FitInv, FormNext
  PROVE  StepKeeps
<1>1. ASSUME NEW b \in Bookings, Reservations(b)
      PROVE  StepKeeps
  <2>1. ASSUME NEW check_in \in Days, NEW check_out \in 1 .. LastDay + 1,
               NEW quantity \in 1 .. MaxQuantity, CreateBooking(b, check_in, check_out, quantity)
        PROVE  StepKeeps
    <3>1. \A d \in Days : reserved[d] \in Nat
      BY DEF FitInv
    <3>2. QED
      BY <2>1, <3>1, FitTaken
  <2>2. ASSUME NEW check_in \in Days, NEW check_out \in 1 .. LastDay + 1,
               NEW quantity \in 1 .. MaxQuantity, NEW S \in SUBSET Rooms,
               NEW status \in {"CONFIRMED", "CHECKED_IN"}, NEW pool,
               \A d \in Days : pool[d] \in Nat,
               AtDesk(b, status, check_in, check_out, quantity, S, pool)
        PROVE  StepKeeps
    BY <2>2, FitTaken
  <2>3. ASSUME NEW check_in \in Days, NEW check_out \in 1 .. LastDay + 1,
               NEW quantity \in 1 .. MaxQuantity, NEW S \in SUBSET Rooms,
               ReserveAtDesk(b, check_in, check_out, quantity, S)
        PROVE  StepKeeps
    <3>1. \A d \in Days : reserved[d] \in Nat
      BY DEF FitInv
    <3>2. QED
      BY <2>2, <2>3, <3>1 DEF ReserveAtDesk
  <2>4. ASSUME NEW check_in \in Days, NEW check_out \in 1 .. LastDay + 1,
               NEW S \in SUBSET Rooms, NEW immediately \in BOOLEAN,
               WalkIn(b, check_in, check_out, S, immediately)
        PROVE  StepKeeps
    <3> DEFINE status == IF immediately THEN "CHECKED_IN" ELSE "CONFIRMED"
               pool == [d \in Days |-> QuantityOn(Reserving, d)]
    <3>1. /\ AtDesk(b, status, check_in, check_out, Cardinality(S), S, pool)
          /\ status \in {"CONFIRMED", "CHECKED_IN"}
          /\ S # {} /\ Cardinality(S) <= MaxQuantity
      BY <2>4 DEF WalkIn
    <3>2. \A d \in Days : pool[d] \in Nat
      <4>1. Reserving \in SUBSET Bookings
        BY DEF Reserving
      <4>2. QED
        BY <4>1, QuantityType
    <3>3. IsFiniteSet(S) /\ Cardinality(S) \in Nat
      BY RoomsAssumption, FS_Subset, FS_CardinalityType
    <3>4. Cardinality(S) \in 1 .. MaxQuantity
      BY <3>1, <3>3, RoomsAssumption, FS_EmptySet
    <3> HIDE DEF status, pool
    <3>5. QED
      BY <2>2, <3>1, <3>2, <3>4
  <2>5. QED
    BY <1>1, <2>1, <2>3, <2>4, FitConfirm, FitEnds
       DEF Reservations, RecordPayment, CancelBooking
<1>2. ASSUME NEW b \in Bookings, Corrections(b)
      PROVE  StepKeeps
  BY <1>2, FitCorrection DEF Corrections
<1>3. ASSUME NEW b \in Bookings, Assigning(b)
      PROVE  StepKeeps
  BY <1>3, FitOnRooms DEF Assigning
<1>4. ASSUME NEW b \in Bookings, Stays(b)
      PROVE  StepKeeps
  BY <1>4, FitOnRooms, FitEnds DEF Stays, CheckOut, UnassignRoom, ChangeRoom
<1>5. ASSUME NEW r \in Rooms, Housekeeping(r)
      PROVE  StepKeeps
  BY <1>5, FitSame DEF Housekeeping, MarkRoom, Mark, BlockRoom, UnblockRoom, Block
<1>6. ASSUME NEW b \in Bookings, NEW check_in \in Days, NEW check_out \in 1 .. LastDay + 1,
             NEW quantity \in 1 .. MaxQuantity, NEW S \in SUBSET Rooms,
             CorrectReservation(b, check_in, check_out, quantity, S)
      PROVE  StepKeeps
  BY <1>6, FitCorrection
<1>7. QED
  BY <1>1, <1>2, <1>3, <1>4, <1>5, <1>6 DEF FormNext, StayNext

\* The empty hotel.
LEMMA FitInit ==
  ASSUME StayInit
  PROVE  FitInv /\ Promised!PromiseInit
<1>1. PoolInv /\ Holds = {}
  BY PoolInitInv DEF StayInit, Holds, Open, Is, Stay
<1>2. \A d \in Days : reserved[d] = 0 /\ HeldOn(d) = 0
  <2> SUFFICES ASSUME NEW d \in Days PROVE reserved[d] = 0 /\ HeldOn(d) = 0
    OBVIOUS
  <2>1. {t \in (Open \ Reserving) \X (1 .. MaxQuantity) :
           t[2] <= booking[t[1]].quantity /\ d \in Nights(t[1])} = {}
    BY <1>1 DEF Holds
  <2>2. QED
    BY <2>1, FS_EmptySet DEF HeldOn, QuantityOn, StayInit
<1>3. FitInv
  <2>1. booking \in [Bookings -> Booking] /\ reserved \in [Days -> Nat]
    BY <1>1 DEF PoolInv, StayTypeOK
  <2>2. QED
    BY <1>2, <2>1, RoomsCount DEF FitInv
<1>4. Promised!PromiseInit
  <2>1. [b \in Bookings |-> LifeOf(booking[b].status)] = [b \in Bookings |-> "NONE"]
    BY DEF StayInit, Stay, LifeOf
  <2>2. [d \in Days |-> reserved[d] + HeldOn(d)] = [d \in Days |-> 0]
    BY <1>2
  <2>3. [d \in Days |-> Cardinality(Rooms)] \in [Days -> Nat]
    BY RoomsCount
  <2>4. QED
    BY <2>1, <2>2, <2>3 DEF Promised!PromiseInit
<1>5. QED
  BY <1>3, <1>4

\* What is taken fits what the hotel has.
LEMMA FitIsFitted ==
  ASSUME FitInv'
  PROVE  Promised!Fitted
<1>1. \A d \in Days : HeldOn(d)' \in Nat
  <2> SUFFICES ASSUME NEW d \in Days PROVE HeldOn(d)' \in Nat
    OBVIOUS
  <2>1. Holds' \in SUBSET Bookings
    BY DEF Holds, Open
  <2>2. HeldOn(d)' = Asked(booking', Holds', d)
    BY DEF HeldOn, Holds, QuantityOn, Asked, RoomsAsked, Nights, NightsOf
  <2>3. QED
    BY <2>1, <2>2, AskedType
<1>2. \A d \in Days : reserved'[d] + HeldOn(d)' \in Nat
  BY <1>1 DEF FitInv
<1>3. QED
  BY <1>2, RoomsCount DEF FitInv, Promised!Fitted, Promised!Fits

FitRaceInv == FitInv /\ request \in Request

\* So does a request that overlaps with others, whatever it has read.
LEMMA FitRaceNext ==
  ASSUME FitRaceInv, RaceNext
  PROVE  StepKeeps /\ request' \in Request
<1> USE DEF FitRaceInv
<1>1. CASE Begins
  <2>1. UNCHANGED stayVars /\ request' \in Request
    BY <1>1, BeginsStep DEF FitInv
  <2>2. QED
    BY <2>1, FitSame DEF stayVars
<1>2. CASE Finish
  <2>1. request' \in Request
    BY <1>2 DEF Finish, Request
  <2>2. CASE request.kind \in Locking \cup {"unassign", "change"}
    <3>1. request.booking \in Bookings
      BY <2>2 DEF Request, NoRequest, Locking
    <3>2. QED
      BY <1>2, <2>1, <2>2, <3>1, FitConfirm, FitEnds, FitOnRooms DEF Finish, Locking
  <2>3. CASE request.kind \in {"mark", "block"}
    BY <1>2, <2>1, <2>3, FitSame DEF Finish, Mark, Block
  <2>4. QED
    BY <1>2, <2>2, <2>3 DEF Finish, Locking
<1>3. CASE Fail
  BY <1>3, FitSame DEF Fail, stayVars, Request
<1>4. CASE Served
  <2>1. FormNext /\ request' = request
    BY <1>4 DEF Served, StayNext, FormNext
  <2>2. QED
    BY <2>1, FitNext
<1>5. QED
  BY <1>1, <1>2, <1>3, <1>4 DEF RaceNext

\* Whatever the form names and in whatever order requests are served, lives go in
\* order and the hotel never takes more bookings than it has rooms, even after the
\* counter has lost count of them.
THEOREM FormKeepsOutline == FormSpec => RoomsKeepOutline
<1>1. StayInit => FitInv /\ Promised!PromiseInit
  BY FitInit
<1>2. FitInv /\ [FormNext]_stayVars
        => FitInv' /\ [Promised!Fitted /\ Promised!Orderly]_(Promised!promiseVars)
  <2> SUFFICES ASSUME FitInv, [FormNext]_stayVars
               PROVE  FitInv' /\ Promised!Fitted /\ Promised!Orderly
    OBVIOUS
  <2>1. StepKeeps
    BY FitNext, FitSame DEF stayVars
  <2>2. QED
    BY <2>1, FitIsFitted DEF StepKeeps
<1>3. QED
  BY <1>1, <1>2, PTL DEF FormSpec, RoomsKeepOutline, Promised!Outline

\* And so it is when requests overlap, with whatever rooms they have read.
THEOREM RacesKeepOutline == RaceSpec => RoomsKeepOutline
<1>1. RaceInit => FitRaceInv /\ Promised!PromiseInit
  BY FitInit DEF RaceInit, FitRaceInv, Request
<1>2. FitRaceInv /\ [RaceNext]_raceVars
        => FitRaceInv' /\ [Promised!Fitted /\ Promised!Orderly]_(Promised!promiseVars)
  <2> SUFFICES ASSUME FitRaceInv, [RaceNext]_raceVars
               PROVE  FitRaceInv' /\ Promised!Fitted /\ Promised!Orderly
    OBVIOUS
  <2>1. StepKeeps /\ request' \in Request
    BY FitRaceNext, FitSame DEF FitRaceInv, raceVars, stayVars
  <2>2. QED
    BY <2>1, FitIsFitted DEF StepKeeps, FitRaceInv
<1>3. QED
  BY <1>1, <1>2, PTL DEF RaceSpec, RoomsKeepOutline, Promised!Outline
=============================================================================
