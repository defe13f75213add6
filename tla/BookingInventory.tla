-------------------------- MODULE BookingInventory --------------------------
(***************************************************************************)
(* The shared DailyInventory pool of one RoomType and the bookings that    *)
(* draw on it (booking/services.py).  A booking holds rooms on each night  *)
(* of its stay while it waits for payment, reserves them once confirmed,   *)
(* and gives them back when it is canceled, expires or checks out.  The    *)
(* hotel meanwhile edits rooms, blocks, closures and totals, and beat jobs *)
(* expire holds and refresh the rolling window.                            *)
(*                                                                         *)
(* Each action is one database transaction: every handler modelled here    *)
(* locks the inventory rows it changes (select_for_update), so their       *)
(* transactions are serialised row by row.  Whether the hotel is open is   *)
(* read without a lock: a request that has read it may place its booking   *)
(* after the hotel was switched off.  The hotel's inventory mode is chosen *)
(* in Init and stays put; changing it is in InventorySilos.                *)
(***************************************************************************)
EXTENDS Integers, FiniteSets

CONSTANTS
  Bookings,      \* the Booking rows that may be created
  LastDay,       \* stay dates are 0..LastDay
  Window,        \* BOOKING_INVENTORY_WINDOW_DAYS
  MaxQuantity,   \* the largest BookingRoom.quantity a request asks for
  MaxRooms,      \* bound on physical rooms, allotments and totals set by hand
  HoldTicks,     \* BOOKING_HOLD_MINUTES, in clock ticks
  TicksPerDay,   \* clock ticks in a local day
  LastTick,      \* the clock stops here
  MaxEdits       \* bound on the hotel's edits of rooms, closures and totals

ASSUME BoundsAssumption ==
  /\ IsFiniteSet(Bookings)
  /\ LastDay \in Nat
  /\ Window \in Nat
  /\ MaxQuantity \in Nat \ {0}
  /\ MaxRooms \in Nat
  /\ HoldTicks \in Nat
  /\ TicksPerDay \in Nat \ {0}
  /\ LastTick \in Nat
  /\ MaxEdits \in Nat

VARIABLES
  booking,          \* Booking and its one BookingRoom, by primary key
  rows,             \* DailyInventory, by stay date
  inventory_mode,   \* Hotel.inventory_mode
  access,           \* Hotel.is_active and RoomType.booking_enabled, and if not, why
  overtaken,        \* requests that found the hotel open before it was switched off
  active_rooms,     \* active_sellable_room_count(room_type)
  blocked_rooms,    \* rooms under an active PhysicalRoomBlock, by date
  count_inventory,  \* RoomType.room_type_count_inventory
  default_inventory,\* RoomType.default_inventory
  rooms_to_close,   \* what the open OTAInventoryClosures close, by date
  now,              \* timezone.now()
  edits             \* hotel edits made so far (model bound only)

vars == <<booking, rows, inventory_mode, access, overtaken, active_rooms, blocked_rooms,
          count_inventory, default_inventory, rooms_to_close, now, edits>>

hotelVars == <<inventory_mode, access, overtaken>>
roomVars  == <<active_rooms, blocked_rooms>>

-----------------------------------------------------------------------------
(* Data. *)

Days == 0 .. LastDay
Today == now \div TicksPerDay
MinOf(x, y) == IF x <= y THEN x ELSE y
MaxOf(x, y) == IF x >= y THEN x ELSE y

\* `days + 1` consecutive dates, as inventory_window_dates returns them.
InventoryWindow(start, days) == {d \in Days : start <= d /\ d <= start + days}

Modes == {"PHYSICAL_ROOM", "ROOM_TYPE_COUNT"}

\* Open for sale, switched off by a sync from Core, or by a revoked or expired
\* event from Core.
Accesses == {"ACTIVE", "DISABLED", "REVOKED"}
selling == access = "ACTIVE"

Sources == {"OTA", "PMS"}
Statuses == {"NOT_CREATED", "PENDING_PAYMENT", "CONFIRMED", "CHECKED_IN",
             "CHECKED_OUT", "CANCELED", "EXPIRED"}
NoHold == -1     \* hold_expires_at IS NULL

Booking ==
  [status : Statuses, source : Sources, inventory_mode : Modes,
   check_in : Days, check_out : 0 .. LastDay + 1, quantity : 0 .. MaxQuantity,
   hold_expires_at : Int, paid : BOOLEAN]

NotCreated ==
  [status |-> "NOT_CREATED", source |-> "OTA", inventory_mode |-> "PHYSICAL_ROOM",
   check_in |-> 0, check_out |-> 0, quantity |-> 0,
   hold_expires_at |-> NoHold, paid |-> FALSE]

Row ==
  [exists : BOOLEAN, total_rooms : Nat, held_rooms : Nat, reserved_rooms : Nat,
   closed_rooms : Nat, stop_sell : BOOLEAN]

MissingRow ==
  [exists |-> FALSE, total_rooms |-> 0, held_rooms |-> 0, reserved_rooms |-> 0,
   closed_rooms |-> 0, stop_sell |-> FALSE]

-----------------------------------------------------------------------------
(* Which bookings count, and for how many rooms. *)

Nights(b) == {d \in Days : b.check_in <= d /\ d < b.check_out}

\* The rooms that the bookings S of table bk take on night d: one element per
\* room, so that a sum of quantities is a cardinality.
RoomsOn(bk, S, d) ==
  {r \in S \X (1 .. MaxQuantity) : r[2] <= bk[r[1]].quantity /\ d \in Nights(bk[r[1]])}

QuantityOn(bk, S, d) == Cardinality(RoomsOn(bk, S, d))

UsesSharedDailyInventory(source, mode) ==
  /\ mode = inventory_mode
  /\ ~(mode = "ROOM_TYPE_COUNT" /\ source = "PMS")

Shared(bk, S) == {b \in S : UsesSharedDailyInventory(bk[b].source, bk[b].inventory_mode)}

WithStatus(bk, statuses) == {b \in Bookings : bk[b].status \in statuses}

\* Bookings that the counters held_rooms and reserved_rooms stand for.
Holding(bk)   == Shared(bk, WithStatus(bk, {"PENDING_PAYMENT"}))
Reserving(bk) == Shared(bk, WithStatus(bk, {"CONFIRMED", "CHECKED_IN"}))

-----------------------------------------------------------------------------
(* Operations on DailyInventory rows. *)

\* Seeded fault: rooms on hold still count as available.
AvailableIgnoringHolds(row) ==
  IF row.stop_sell THEN 0
  ELSE MaxOf(row.total_rooms - row.reserved_rooms - row.closed_rooms, 0)

\* models.DailyInventory.available_rooms
AvailableRooms(row) ==
  IF row.stop_sell THEN 0
  ELSE MaxOf(row.total_rooms - row.held_rooms - row.reserved_rooms - row.closed_rooms, 0)

SellableRooms(active, blocked) == MaxOf(active - blocked, 0)

\* The total each date is given before its commitments are considered.
BaseTotals(active, blocked, count) ==
  [d \in Days |-> IF inventory_mode = "ROOM_TYPE_COUNT" THEN count
                  ELSE SellableRooms(active, blocked[d])]

BaseTotal(d) == BaseTotals(active_rooms, blocked_rooms, count_inventory)[d]

\* Seeded fault: the counters of committed rooms are not respected.
EnsuredIgnoringCommitments(row, base, to_close) ==
  [row EXCEPT !.exists = TRUE, !.total_rooms = base,
              !.closed_rooms = IF inventory_mode = "ROOM_TYPE_COUNT"
                               THEN MinOf(to_close, base) ELSE @]

\* One date of ensure_daily_inventory_for_room_type: never below what is
\* committed, and in count mode the open closures are applied again.
Ensured(row, base, to_close) ==
  LET total == MaxOf(base, row.held_rooms + row.reserved_rooms)
  IN  [row EXCEPT !.exists = TRUE,
                  !.total_rooms = total,
                  !.closed_rooms = IF inventory_mode = "ROOM_TYPE_COUNT"
                                   THEN MinOf(to_close, total) ELSE @]

\* ensure_daily_inventory_for_room_type over the dates W.
EnsuredRows(W, base, closing) ==
  [d \in Days |-> IF d \in W THEN Ensured(rows[d], base[d], closing[d]) ELSE rows[d]]

\* What it writes back to RoomType.default_inventory.
EnsuredDefault(active, count) ==
  IF inventory_mode = "ROOM_TYPE_COUNT" THEN count ELSE active

\* One date of reconcile_daily_inventory_for_room_type, which ensures the row
\* and then rebuilds its counters from the bookings.
Reconciled(row, d, bk) ==
  LET held == QuantityOn(bk, Holding(bk), d)
      reserved == QuantityOn(bk, Reserving(bk), d)
  IN  [Ensured(row, BaseTotal(d), rooms_to_close[d]) EXCEPT
         !.held_rooms = held, !.reserved_rooms = reserved,
         !.total_rooms = MaxOf(BaseTotal(d), held + reserved)]

\* One date of _lock_inventory, which creates a missing row on the fly.
Locked(row) ==
  IF row.exists THEN row
  ELSE [row EXCEPT !.exists = TRUE,
                   !.total_rooms = IF inventory_mode = "ROOM_TYPE_COUNT"
                                   THEN count_inventory ELSE default_inventory]

\* Seeded fault: the rooms are given back on the first night of a stay only.
ReleasedFirstNight(S) ==
  LET Arriving(d) == {b \in S : booking[b].check_in = d}
  IN  [d \in Days |->
         [rows[d] EXCEPT
            !.held_rooms = @ - QuantityOn(booking, Arriving(d) \cap Holding(booking), d),
            !.reserved_rooms = @ - QuantityOn(booking, Arriving(d) \cap Reserving(booking), d)]]

\* _move_inventory for each booking of S: out of the counter that its status
\* keeps it in.  The code refuses ("Inventory state is inconsistent.") when a
\* counter holds less than it must give back, and the transaction rolls back.
CanRelease(S) ==
  \A d \in Days :
    /\ rows[d].held_rooms >= QuantityOn(booking, S \cap Holding(booking), d)
    /\ rows[d].reserved_rooms >= QuantityOn(booking, S \cap Reserving(booking), d)

Released(S) ==
  [d \in Days |->
     [rows[d] EXCEPT
        !.held_rooms = @ - QuantityOn(booking, S \cap Holding(booking), d),
        !.reserved_rooms = @ - QuantityOn(booking, S \cap Reserving(booking), d)]]

\* _move_inventory(booking, "held_rooms", "reserved_rooms")
Committed(b) ==
  [d \in Days |->
     LET n == QuantityOn(booking, {b} \cap Holding(booking), d)
     IN  [rows[d] EXCEPT !.held_rooms = @ - n, !.reserved_rooms = @ + n]]

\* What a row gains when a new booking of status `status` takes n rooms on it.
\* A booking confirmed in the transaction that creates it is held and moved on.
Took(row, status, n) ==
  IF status = "PENDING_PAYMENT" THEN [row EXCEPT !.held_rooms = @ + n]
  ELSE [row EXCEPT !.reserved_rooms = @ + n]

-----------------------------------------------------------------------------
(* Booking actions. *)

\* The request for b has found the hotel open, now or before it was switched off.
Admitted(b) == selling \/ b \in overtaken

\* Switching the hotel off overtakes some of the requests that have found it
\* open and have not placed their bookings yet.
Overtakes ==
  overtaken' \in SUBSET {b \in Bookings : booking[b].status = "NOT_CREATED" /\ Admitted(b)}

\* A row of the table, and its effect on the pool: the rows of its nights are
\* reconciled when the handler does so, locked, checked for `quantity` free
\* rooms on every night, and charged.
PlaceBooking(b, new, reconcile) ==
  LET shared == UsesSharedDailyInventory(new.source, new.inventory_mode)
      Open(d) == IF reconcile THEN Reconciled(rows[d], d, booking)
                 ELSE IF shared THEN Locked(rows[d]) ELSE rows[d]
  IN  /\ Admitted(b)
      /\ booking[b].status = "NOT_CREATED"
      /\ shared => \A d \in Nights(new) : AvailableRooms(Open(d)) >= new.quantity
      /\ booking' = [booking EXCEPT ![b] = new]
      /\ rows' = [d \in Days |->
                    IF d \in Nights(new)
                    THEN Took(Open(d), new.status, IF shared THEN new.quantity ELSE 0)
                    ELSE rows[d]]
      /\ default_inventory' = IF reconcile THEN EnsuredDefault(active_rooms, count_inventory)
                               ELSE default_inventory
      /\ UNCHANGED <<hotelVars, roomVars, count_inventory, rooms_to_close, now, edits>>

NewBooking(source, check_in, check_out, quantity, status, paid) ==
  [status |-> status, source |-> source,
   inventory_mode |-> IF source = "PMS" THEN "PHYSICAL_ROOM" ELSE inventory_mode,
   check_in |-> check_in, check_out |-> check_out, quantity |-> quantity,
   hold_expires_at |-> IF status = "PENDING_PAYMENT" THEN now + HoldTicks ELSE NoHold,
   paid |-> paid]

\* create_booking as the public site calls it: an OTA booking on hold.  Count
\* mode reconciles the stay before it sells from it.
CreateBooking(b, check_in, check_out, quantity) ==
  /\ check_in < check_out
  /\ now + HoldTicks < LastTick     \* bound: the clock can pass this hold
  /\ PlaceBooking(b, NewBooking("OTA", check_in, check_out, quantity,
                                "PENDING_PAYMENT", FALSE),
                  inventory_mode = "ROOM_TYPE_COUNT")

\* create_admin_reservation: created and confirmed in one transaction, paid
\* (deposit or full) or not.
CreateAdminReservation(b, check_in, check_out, quantity, paid) ==
  /\ check_in < check_out
  /\ PlaceBooking(b, NewBooking("PMS", check_in, check_out, quantity, "CONFIRMED", paid),
                  FALSE)

\* create_walk_in_booking: reconciles the stay in either mode, and may check
\* the guest in at once.
CreateWalkIn(b, check_in, check_out, quantity, check_in_immediately, paid) ==
  /\ check_in < check_out
  /\ PlaceBooking(b, NewBooking("PMS", check_in, check_out, quantity,
                       IF check_in_immediately THEN "CHECKED_IN" ELSE "CONFIRMED", paid),
                  TRUE)

bookingOnly == <<hotelVars, roomVars, count_inventory, default_inventory,
                 rooms_to_close, now, edits>>

\* record_payment with status PAID.  Only a pending booking whose hold has run
\* out is refused; a payment on any other booking is recorded, but moves rooms
\* for a pending one alone.
RecordPayment(b) ==
  LET pending == booking[b].status = "PENDING_PAYMENT"
  IN  /\ booking[b].status # "NOT_CREATED"
      /\ ~booking[b].paid
      /\ pending => booking[b].hold_expires_at > now
      /\ pending => CanRelease({b})
      /\ rows' = IF pending THEN Committed(b) ELSE rows
      /\ booking' = [booking EXCEPT ![b].paid = TRUE,
                                    ![b].status = IF pending THEN "CONFIRMED" ELSE @,
                                    ![b].hold_expires_at = IF pending THEN NoHold ELSE @]
      /\ UNCHANGED bookingOnly

\* cancel_booking
CancelBooking(b) ==
  /\ booking[b].status \in {"PENDING_PAYMENT", "CONFIRMED"}
  /\ CanRelease({b})
  /\ rows' = Released({b})
  /\ booking' = [booking EXCEPT ![b].status = "CANCELED", ![b].hold_expires_at = NoHold]
  /\ UNCHANGED bookingOnly

\* Seeded fault: overdue holds are looked for among coming stays only.
OverdueComing == {b \in Bookings : /\ booking[b].status = "PENDING_PAYMENT"
                                   /\ booking[b].hold_expires_at < now
                                   /\ booking[b].check_in >= Today}

Overdue == {b \in Bookings : /\ booking[b].status = "PENDING_PAYMENT"
                             /\ booking[b].hold_expires_at < now}

\* expire_pending_bookings: every overdue hold in one transaction.
ExpirePendingBookings ==
  /\ Overdue # {}
  /\ CanRelease(Overdue)
  /\ rows' = Released(Overdue)
  /\ booking' = [b \in Bookings |-> IF b \in Overdue
                                    THEN [booking[b] EXCEPT !.status = "EXPIRED"]
                                    ELSE booking[b]]
  /\ UNCHANGED bookingOnly

\* BookingViewSet.check_in: individual rooms, so physical-room bookings only.
CheckIn(b) ==
  /\ booking[b].status = "CONFIRMED"
  /\ booking[b].inventory_mode = "PHYSICAL_ROOM"
  /\ booking' = [booking EXCEPT ![b].status = "CHECKED_IN"]
  /\ UNCHANGED <<rows, bookingOnly>>

\* BookingViewSet.check_out: gives the nights back and sends the rooms to
\* cleaning, which takes those still in service out of the sellable count.
CheckOut(b) ==
  /\ booking[b].status = "CHECKED_IN"
  /\ CanRelease({b})
  /\ rows' = Released({b})
  /\ booking' = [booking EXCEPT ![b].status = "CHECKED_OUT"]
  /\ active_rooms' \in SellableRooms(active_rooms, booking[b].quantity) .. active_rooms
  /\ UNCHANGED <<hotelVars, blocked_rooms, count_inventory, default_inventory,
                 rooms_to_close, now, edits>>

\* restore_paid_room_type_count_no_show_booking
RestoreNoShow(b) ==
  LET restored == [booking EXCEPT ![b].status = "CONFIRMED", ![b].hold_expires_at = NoHold]
      reconcile == inventory_mode = "ROOM_TYPE_COUNT"
  IN  /\ booking[b].status = "CANCELED"
      /\ booking[b].source = "OTA"
      /\ booking[b].inventory_mode = "ROOM_TYPE_COUNT"
      /\ booking[b].check_in < Today
      /\ booking[b].paid
      /\ booking' = restored
      /\ rows' = [d \in Days |-> IF reconcile /\ d \in Nights(booking[b])
                                 THEN Reconciled(rows[d], d, restored) ELSE rows[d]]
      /\ default_inventory' = IF reconcile THEN EnsuredDefault(active_rooms, count_inventory)
                               ELSE default_inventory
      /\ UNCHANGED <<hotelVars, roomVars, count_inventory, rooms_to_close, now, edits>>

-----------------------------------------------------------------------------
(* Hotel actions and beat jobs. *)

InThisWindow == InventoryWindow(Today, Window)
hotelEdit == edits < MaxEdits /\ edits' = edits + 1     \* bound

\* ensure_rolling_daily_inventory, nightly.
EnsureRollingDailyInventory ==
  /\ selling
  /\ rows' = EnsuredRows(InThisWindow,
                         BaseTotals(active_rooms, blocked_rooms, count_inventory),
                         rooms_to_close)
  /\ default_inventory' = EnsuredDefault(active_rooms, count_inventory)
  /\ UNCHANGED <<booking, hotelVars, roomVars, count_inventory, rooms_to_close, now, edits>>

\* PhysicalRoomViewSet.perform_update: rooms leave or return to service.
UpdatePhysicalRooms(active) ==
  /\ hotelEdit
  /\ active # active_rooms
  /\ active_rooms' = active
  /\ rows' = EnsuredRows(InThisWindow, BaseTotals(active, blocked_rooms, count_inventory),
                         rooms_to_close)
  /\ default_inventory' = EnsuredDefault(active, count_inventory)
  /\ UNCHANGED <<booking, hotelVars, blocked_rooms, count_inventory, rooms_to_close, now>>

\* PhysicalRoomBlockViewSet: one more or one fewer room blocked on first..last.
\* Whatever the block's dates, today's window is what gets refreshed.
UpdateRoomBlock(first, last, delta) ==
  LET blocked == [d \in Days |-> IF d \in first .. last THEN blocked_rooms[d] + delta
                                 ELSE blocked_rooms[d]]
  IN  /\ hotelEdit
      /\ \A d \in first .. last : blocked[d] \in 0 .. MaxRooms
      /\ blocked_rooms' = blocked
      /\ rows' = EnsuredRows(InThisWindow, BaseTotals(active_rooms, blocked, count_inventory),
                             rooms_to_close)
      /\ default_inventory' = EnsuredDefault(active_rooms, count_inventory)
      /\ UNCHANGED <<booking, hotelVars, active_rooms, count_inventory, rooms_to_close, now>>

\* OTAInventoryClosureViewSet: the open closures now close n rooms on
\* first..last.  A close-now closure has no end and refreshes a window from its
\* own start.
UpdateClosure(first, last, n, open_ended) ==
  LET closing == [d \in Days |-> IF d \in first .. last THEN n ELSE rooms_to_close[d]]
      dates == IF open_ended THEN InventoryWindow(first, Window) ELSE first .. last
  IN  /\ hotelEdit
      /\ open_ended => last = LastDay
      /\ closing # rooms_to_close
      /\ rooms_to_close' = closing
      /\ rows' = EnsuredRows(dates, BaseTotals(active_rooms, blocked_rooms, count_inventory),
                             closing)
      /\ default_inventory' = EnsuredDefault(active_rooms, count_inventory)
      /\ UNCHANGED <<booking, hotelVars, roomVars, count_inventory, now>>

\* sync_business_from_core: the physical rooms and the switches of the hotel and
\* the room type as Core has them.  It may switch a hotel off and leaves its
\* holds to the expiry job, and may bring a revoked hotel back.
SyncBusinessFromCore(active, enabled) ==
  /\ hotelEdit
  /\ IF enabled THEN access' = "ACTIVE" /\ overtaken' = {}
     ELSE access' = "DISABLED" /\ Overtakes
  /\ active_rooms' = active
  /\ rows' = EnsuredRows(InThisWindow, BaseTotals(active, blocked_rooms, count_inventory),
                         rooms_to_close)
  /\ default_inventory' = EnsuredDefault(active, count_inventory)
  /\ UNCHANGED <<booking, inventory_mode, blocked_rooms, count_inventory, rooms_to_close, now>>

\* OTARoomSelectionView.put in count mode: a new allotment, refused if a
\* coming night is committed beyond it.
PutCountInventory(total) ==
  /\ hotelEdit
  /\ inventory_mode = "ROOM_TYPE_COUNT"
  /\ \A d \in Days : rows[d].exists /\ d >= Today
                       => rows[d].held_rooms + rows[d].reserved_rooms <= total
  /\ count_inventory' = total
  /\ default_inventory' = total
  /\ rows' = EnsuredRows(InThisWindow, BaseTotals(active_rooms, blocked_rooms, total),
                         rooms_to_close)
  /\ UNCHANGED <<booking, hotelVars, roomVars, rooms_to_close, now>>

\* DailyInventoryViewSet.bulk_upsert
BulkUpsert(first, last, total, stop_sell) ==
  /\ hotelEdit
  /\ \A d \in first .. last :
       rows[d].exists => rows[d].held_rooms + rows[d].reserved_rooms <= total
  /\ rows' = [d \in Days |->
                IF d \in first .. last
                THEN [rows[d] EXCEPT !.exists = TRUE, !.total_rooms = total,
                                     !.stop_sell = stop_sell]
                ELSE rows[d]]
  /\ UNCHANGED <<booking, hotelVars, roomVars, count_inventory, default_inventory,
                 rooms_to_close, now>>

\* Seeded fault: the hotel is switched off and its holds are left to expire.
DeprovisionKeepingHolds ==
  /\ access # "REVOKED"
  /\ access' = "REVOKED"
  /\ Overtakes
  /\ UNCHANGED <<booking, rows, inventory_mode, roomVars, count_inventory,
                 default_inventory, rooms_to_close, now, edits>>

\* deprovision_hotel, on a revoked or expired event from Core.
DeprovisionHotel ==
  LET pending == WithStatus(booking, {"PENDING_PAYMENT"})
  IN  /\ access # "REVOKED"
      /\ CanRelease(pending)
      /\ rows' = Released(pending)
      /\ booking' = [b \in Bookings |->
                       IF b \in pending
                       THEN [booking[b] EXCEPT !.status = "EXPIRED", !.hold_expires_at = NoHold]
                       ELSE booking[b]]
      /\ access' = "REVOKED"
      /\ Overtakes
      /\ UNCHANGED <<inventory_mode, roomVars, count_inventory, default_inventory,
                     rooms_to_close, now, edits>>

Tick ==
  /\ now < LastTick
  /\ now' = now + 1
  /\ UNCHANGED <<booking, rows, hotelVars, roomVars, count_inventory, default_inventory,
                 rooms_to_close, edits>>

-----------------------------------------------------------------------------
Init ==
  /\ booking = [b \in Bookings |-> NotCreated]
  /\ inventory_mode \in Modes
  /\ access = "ACTIVE"
  /\ overtaken = {}
  /\ active_rooms = MaxRooms
  /\ blocked_rooms = [d \in Days |-> 0]
  /\ count_inventory = MaxRooms
  /\ default_inventory = MaxRooms
  /\ rooms_to_close = [d \in Days |-> 0]
  /\ now = 0
  /\ edits = 0
  /\ rows = [d \in Days |-> IF d \in InventoryWindow(0, Window)
                            THEN [MissingRow EXCEPT !.exists = TRUE, !.total_rooms = MaxRooms]
                            ELSE MissingRow]

NewBookings ==
  \E b \in Bookings, check_in \in Days, check_out \in 1 .. LastDay + 1,
     quantity \in 1 .. MaxQuantity :
    \/ CreateBooking(b, check_in, check_out, quantity)
    \/ \E paid \in BOOLEAN : CreateAdminReservation(b, check_in, check_out, quantity, paid)
    \/ \E immediately, paid \in BOOLEAN :
         CreateWalkIn(b, check_in, check_out, quantity, immediately, paid)

BookingSteps ==
  \E b \in Bookings :
    RecordPayment(b) \/ CancelBooking(b) \/ CheckIn(b) \/ CheckOut(b) \/ RestoreNoShow(b)

HotelEdits ==
  \/ \E active \in 0 .. MaxRooms : UpdatePhysicalRooms(active)
  \/ \E first, last \in Days : \E delta \in {-1, 1} :
       first <= last /\ UpdateRoomBlock(first, last, delta)
  \/ \E first, last \in Days, n \in 0 .. MaxRooms, open_ended \in BOOLEAN :
       first <= last /\ UpdateClosure(first, last, n, open_ended)
  \/ \E active \in 0 .. MaxRooms, enabled \in BOOLEAN : SyncBusinessFromCore(active, enabled)
  \/ \E total \in 0 .. MaxRooms : PutCountInventory(total)
  \/ \E first, last \in Days, total \in 0 .. MaxRooms, stop_sell \in BOOLEAN :
       first <= last /\ BulkUpsert(first, last, total, stop_sell)

Next ==
  \/ NewBookings
  \/ BookingSteps
  \/ HotelEdits
  \/ ExpirePendingBookings
  \/ EnsureRollingDailyInventory
  \/ DeprovisionHotel
  \/ Tick

Spec == Init /\ [][Next]_vars

\* Beat runs the expiry task every minute, and time passes.
FairSpec == Spec /\ WF_vars(Tick) /\ WF_vars(ExpirePendingBookings)

-----------------------------------------------------------------------------
(* Properties. *)

\* Every variable keeps its type; counters are never negative.
TypeOK ==
  /\ booking \in [Bookings -> Booking]
  /\ rows \in [Days -> Row]
  /\ inventory_mode \in Modes
  /\ access \in Accesses
  /\ overtaken \subseteq Bookings
  /\ active_rooms \in Nat
  /\ blocked_rooms \in [Days -> Nat]
  /\ count_inventory \in Nat
  /\ default_inventory \in Nat
  /\ rooms_to_close \in [Days -> Nat]
  /\ now \in Nat
  /\ edits \in Nat

\* On every night the counters are exactly the rooms of the bookings they stand
\* for: whatever the order of payments, expiries, cancellations, check-outs,
\* hotel edits and rebuilds, no room leaks from the pool and none is given back
\* twice.  It is why "Inventory state is inconsistent." is never raised.
CountersMatchBookings ==
  \A d \in Days :
    /\ rows[d].held_rooms = QuantityOn(booking, Holding(booking), d)
    /\ rows[d].reserved_rooms = QuantityOn(booking, Reserving(booking), d)

\* A night is never committed beyond its total, whatever rooms the hotel takes
\* out of service or totals it lowers after selling them.
CommittedWithinTotal ==
  \A d \in Days : rows[d].held_rooms + rows[d].reserved_rooms <= rows[d].total_rooms

\* README, Core integration: a revoked or expired event releases the hotel's
\* pending holds.  Until Core's next sync its pool then holds rooms only for
\* requests that had found the hotel open and were overtaken by the event: no
\* hold placed before it survives, and no other way to make a booking opens one.
RevokedHotelHoldsOnlyOvertaken ==
  access = "REVOKED" =>
    \A d \in Days :
      rows[d].held_rooms = QuantityOn(booking, Holding(booking) \cap overtaken, d)

\* Rooms on a night are given only to a new booking, and then only within what
\* the row leaves open of its total; the one exception is restoring a paid
\* no-show, which takes its rooms back without asking.
Taken(bk, d) == QuantityOn(bk, Holding(bk) \cup Reserving(bk), d)

OnlySellsOpenRooms ==
  [][\A d \in Days :
       Taken(booking, d)' > Taken(booking, d) =>
         \/ /\ Taken(booking, d)' + rows'[d].closed_rooms <= rows'[d].total_rooms
            /\ ~rows'[d].stop_sell
         \/ \E b \in Bookings : booking[b].status = "CANCELED" /\ booking'[b].status = "CONFIRMED"
    ]_vars

\* Every hold ends: it is paid, canceled, or the expiry job gives it back.
HoldsEnd ==
  \A b \in Bookings :
    booking[b].status = "PENDING_PAYMENT" ~> booking[b].status # "PENDING_PAYMENT"

-----------------------------------------------------------------------------
(* What the pool keeps of the promise of BookingPromise. *)

LifeOf(status) ==
  CASE status = "NOT_CREATED" -> "NONE"
    [] status = "PENDING_PAYMENT" -> "WAITING"
    [] status = "CONFIRMED" -> "BOOKED"
    [] status = "CHECKED_IN" -> "STAYING"
    [] status = "CANCELED" -> "CANCELED"
    [] OTHER -> "GONE"

Promised ==
  INSTANCE BookingPromise WITH
    life <- [b \in Bookings |-> LifeOf(booking[b].status)],
    taken <- [d \in Days |-> rows[d].held_rooms + rows[d].reserved_rooms],
    capacity <- [d \in Days |-> rows[d].total_rooms]

\* Every booking goes through its life in order: nothing is confirmed, checked in
\* or restored out of turn.  Rooms are taken by bookings that begin and given
\* back by bookings that end, and what is taken always fits the hotel's totals:
\* the counters are an implementation of that promise.
KeepsPromise == Promised!Promise

\* What InventorySilos keeps of it.  Whatever mode the hotel is in, was in or is
\* switched to under the bookings' feet, whatever stays are corrected and holds
\* placed late, the lives of the bookings go in order and no night is committed
\* beyond its total.
KeepsOutline == Promised!Outline
=============================================================================
