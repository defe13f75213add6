---------------------- MODULE BookingInventory_proofs ----------------------
(***************************************************************************)
(* Proofs about BookingInventory, for every number of bookings, days,      *)
(* rooms and every bound of the clock: what its counters say, that it      *)
(* keeps the promise of BookingPromise and that it sells open rooms only.  *)
(* The last part is about InventorySilos, which moves the same counters    *)
(* from one mode to the other.                                             *)
(***************************************************************************)
EXTENDS InventorySilos, FiniteSetTheorems, TLAPS

-----------------------------------------------------------------------------
(* Counting rooms. *)

\* The rooms of a set of bookings on a night are finite in number.
LEMMA QuantityType ==
  ASSUME NEW bk, NEW S \in SUBSET Bookings, NEW d
  PROVE  /\ IsFiniteSet(RoomsOn(bk, S, d))
         /\ QuantityOn(bk, S, d) \in Nat
<1>1. IsFiniteSet(S) /\ IsFiniteSet(1 .. MaxQuantity)
  BY BoundsAssumption, FS_Subset, FS_Interval
<1>2. IsFiniteSet(S \X (1 .. MaxQuantity))
  BY <1>1, FS_Product
<1>3. RoomsOn(bk, S, d) \in SUBSET (S \X (1 .. MaxQuantity))
  BY DEF RoomsOn
<1>4. QED
  BY <1>2, <1>3, FS_Subset, FS_CardinalityType DEF QuantityOn

\* The rooms of disjoint sets of bookings add up.
LEMMA QuantitySum ==
  ASSUME NEW bk, NEW S, NEW T \in SUBSET Bookings, NEW U \in SUBSET Bookings, NEW d,
         S = T \cup U, T \cap U = {}
  PROVE  QuantityOn(bk, S, d) = QuantityOn(bk, T, d) + QuantityOn(bk, U, d)
<1>1. RoomsOn(bk, S, d) = RoomsOn(bk, T, d) \cup RoomsOn(bk, U, d)
  BY DEF RoomsOn
<1>2. RoomsOn(bk, T, d) \cap RoomsOn(bk, U, d) = {}
  BY DEF RoomsOn
<1>3. IsFiniteSet(RoomsOn(bk, T, d)) /\ IsFiniteSet(RoomsOn(bk, U, d))
  BY QuantityType
<1>4. Cardinality(RoomsOn(bk, T, d) \cup RoomsOn(bk, U, d))
      = Cardinality(RoomsOn(bk, T, d)) + Cardinality(RoomsOn(bk, U, d)) - Cardinality({})
  BY <1>2, <1>3, FS_Union
<1>5. /\ Cardinality({}) = 0
      /\ Cardinality(RoomsOn(bk, T, d)) \in Nat
      /\ Cardinality(RoomsOn(bk, U, d)) \in Nat
  BY <1>3, FS_EmptySet, FS_CardinalityType
<1>6. QuantityOn(bk, S, d) = Cardinality(RoomsOn(bk, T, d) \cup RoomsOn(bk, U, d))
  BY <1>1, Zenon DEF QuantityOn
<1>7. QED
  BY <1>4, <1>5, <1>6 DEF QuantityOn

\* No bookings take no rooms.
LEMMA QuantityOfNone ==
  ASSUME NEW bk, NEW d
  PROVE  QuantityOn(bk, {}, d) = 0
<1>1. RoomsOn(bk, {}, d) = {}
  BY DEF RoomsOn
<1>2. QED
  BY <1>1, FS_EmptySet DEF QuantityOn

\* The count depends on the dates and quantities of its bookings alone.
LEMMA QuantitySame ==
  ASSUME NEW bk1, NEW bk2, NEW S \in SUBSET Bookings, NEW d,
         \A b \in S : /\ bk1[b].quantity = bk2[b].quantity
                      /\ bk1[b].check_in = bk2[b].check_in
                      /\ bk1[b].check_out = bk2[b].check_out
  PROVE  QuantityOn(bk1, S, d) = QuantityOn(bk2, S, d)
<1>1. \A b \in S : Nights(bk1[b]) = Nights(bk2[b])
  BY DEF Nights
<1>2. RoomsOn(bk1, S, d) = RoomsOn(bk2, S, d)
  BY <1>1 DEF RoomsOn
<1>3. QED
  BY <1>2 DEF QuantityOn

\* One booking counts for its quantity on its nights and for nothing elsewhere.
LEMMA QuantityOfOne ==
  ASSUME NEW bk, NEW b \in Bookings, NEW d, bk[b].quantity \in 0 .. MaxQuantity
  PROVE  QuantityOn(bk, {b}, d) = IF d \in Nights(bk[b]) THEN bk[b].quantity ELSE 0
<1> DEFINE q == bk[b].quantity
<1>0. q \in Nat /\ q <= MaxQuantity
  BY BoundsAssumption
<1>1. CASE d \in Nights(bk[b])
  <2>1. RoomsOn(bk, {b}, d) = {b} \X (1 .. q)
    BY <1>0, <1>1, BoundsAssumption DEF RoomsOn
  <2>2. IsFiniteSet({b}) /\ Cardinality({b}) = 1
    BY FS_Singleton
  <2>3. IsFiniteSet(1 .. q) /\ Cardinality(1 .. q) = q
    <3> HIDE DEF q
    <3>1. IsFiniteSet(1 .. q) /\ Cardinality(1 .. q) = IF 1 > q THEN 0 ELSE q - 1 + 1
      BY <1>0, FS_Interval
    <3>2. QED
      BY <1>0, <3>1
  <2>4. Cardinality({b} \X (1 .. q)) = Cardinality({b}) * Cardinality(1 .. q)
    <3> HIDE DEF q
    <3>1. QED
      BY <2>2, <2>3, FS_Product
  <2>5. 1 * q = q
    BY <1>0
  <2>6. Cardinality(RoomsOn(bk, {b}, d)) = q
    BY <2>1, <2>2, <2>3, <2>4, <2>5, Zenon
  <2>7. QED
    BY <1>1, <2>6 DEF QuantityOn
<1>2. CASE d \notin Nights(bk[b])
  <2>1. RoomsOn(bk, {b}, d) = {}
    BY <1>2 DEF RoomsOn
  <2>2. QED
    BY <1>2, <2>1, FS_EmptySet DEF QuantityOn
<1>3. QED
  BY <1>1, <1>2

-----------------------------------------------------------------------------
(* The inductive invariant. *)

\* A date without a row has no counters.
MissingRowsEmpty ==
  \A d \in Days : ~rows[d].exists => rows[d].held_rooms = 0 /\ rows[d].reserved_rooms = 0

\* In a revoked hotel only overtaken requests have bookings on hold.
PendingOvertaken ==
  access = "REVOKED" => WithStatus(booking, {"PENDING_PAYMENT"}) \subseteq overtaken

IInv ==
  /\ TypeOK
  /\ CountersMatchBookings
  /\ CommittedWithinTotal
  /\ MissingRowsEmpty
  /\ PendingOvertaken

\* What a step must show of the rows.
RowsInv ==
  /\ rows \in [Days -> Row]
  /\ CountersMatchBookings
  /\ CommittedWithinTotal
  /\ MissingRowsEmpty

\* The bookings that either counter stands for are bookings of the table.
LEMMA CountedType ==
  ASSUME NEW bk
  PROVE  /\ Holding(bk) \in SUBSET Bookings
         /\ Reserving(bk) \in SUBSET Bookings
BY DEF Holding, Reserving, Shared, WithStatus

\* The larger of two naturals is a natural and bounds both.
LEMMA MaxOfType ==
  ASSUME NEW x \in Int, NEW y \in Int
  PROVE  /\ MaxOf(x, y) \in Int
         /\ MaxOf(x, y) >= x /\ MaxOf(x, y) >= y
         /\ MaxOf(x, y) = x \/ MaxOf(x, y) = y
         /\ MinOf(x, y) \in {x, y}
BY DEF MaxOf, MinOf

\* Ensuring a row leaves its counters alone and makes room for them.
LEMMA EnsuredRow ==
  ASSUME NEW row \in Row, NEW base \in Nat, NEW to_close \in Nat
  PROVE  LET r == Ensured(row, base, to_close)
         IN  /\ r \in Row
             /\ r.exists
             /\ r.held_rooms = row.held_rooms
             /\ r.reserved_rooms = row.reserved_rooms
             /\ r.held_rooms + r.reserved_rooms <= r.total_rooms
<1> DEFINE total == MaxOf(base, row.held_rooms + row.reserved_rooms)
<1>1. row.held_rooms \in Nat /\ row.reserved_rooms \in Nat
  BY DEF Row
<1>2. total \in Nat /\ row.held_rooms + row.reserved_rooms <= total
  BY <1>1 DEF MaxOf
<1>3. MinOf(to_close, total) \in Nat
  BY <1>2 DEF MinOf
<1> HIDE DEF total
<1>4. Ensured(row, base, to_close) =
        [row EXCEPT !.exists = TRUE, !.total_rooms = total,
                    !.closed_rooms = IF inventory_mode = "ROOM_TYPE_COUNT"
                                     THEN MinOf(to_close, total) ELSE @]
  BY DEF Ensured, total
<1>5. QED
  BY <1>2, <1>3, <1>4 DEF Row

\* Reconciling a row sets its counters to what the bookings say.
LEMMA ReconciledRow ==
  ASSUME TypeOK, NEW d \in Days, NEW bk
  PROVE  LET r == Reconciled(rows[d], d, bk)
         IN  /\ r \in Row
             /\ r.exists
             /\ r.held_rooms = QuantityOn(bk, Holding(bk), d)
             /\ r.reserved_rooms = QuantityOn(bk, Reserving(bk), d)
             /\ r.held_rooms + r.reserved_rooms <= r.total_rooms
<1> DEFINE held == QuantityOn(bk, Holding(bk), d)
           reserved == QuantityOn(bk, Reserving(bk), d)
           e == Ensured(rows[d], BaseTotal(d), rooms_to_close[d])
<1>1. held \in Nat /\ reserved \in Nat
  BY CountedType, QuantityType
<1>2. BaseTotal(d) \in Nat
  BY DEF BaseTotal, BaseTotals, TypeOK, SellableRooms, MaxOf
<1>3. e \in Row /\ e.exists
  BY <1>2, EnsuredRow DEF TypeOK
<1> HIDE DEF e, held, reserved
<1>4. MaxOf(BaseTotal(d), held + reserved) \in Nat /\ held + reserved <= MaxOf(BaseTotal(d), held + reserved)
  BY <1>1, <1>2 DEF MaxOf
<1>5. Reconciled(rows[d], d, bk) =
        [e EXCEPT !.held_rooms = held, !.reserved_rooms = reserved,
                  !.total_rooms = MaxOf(BaseTotal(d), held + reserved)]
  BY DEF Reconciled, e, held, reserved
<1>6. QED
  BY <1>1, <1>3, <1>4, <1>5 DEF Row, held, reserved

\* Locking a row creates it if need be and changes no counter.
LEMMA LockedRow ==
  ASSUME IInv, NEW d \in Days
  PROVE  LET r == Locked(rows[d])
         IN  /\ r \in Row
             /\ r.exists
             /\ r.held_rooms = rows[d].held_rooms
             /\ r.reserved_rooms = rows[d].reserved_rooms
             /\ r.held_rooms + r.reserved_rooms <= r.total_rooms
<1> DEFINE row == rows[d]
           n == IF inventory_mode = "ROOM_TYPE_COUNT" THEN count_inventory
                ELSE default_inventory
<1>1. row \in Row /\ n \in Nat
  BY DEF IInv, TypeOK
<1>2. row.held_rooms + row.reserved_rooms <= row.total_rooms
  BY DEF IInv, CommittedWithinTotal
<1>3. ~row.exists => row.held_rooms = 0 /\ row.reserved_rooms = 0
  BY DEF IInv, MissingRowsEmpty
<1>4. Locked(row) = IF row.exists THEN row
                    ELSE [row EXCEPT !.exists = TRUE, !.total_rooms = n]
  BY DEF Locked
<1> HIDE DEF n, row
<1>5. QED
  <2>1. CASE row.exists
    BY <1>1, <1>2, <1>4, <2>1 DEF row
  <2>2. CASE ~row.exists
    <3> DEFINE made == [row EXCEPT !.exists = TRUE, !.total_rooms = n]
    <3>1. Locked(row) = made
      BY <1>4, <2>2
    <3>2. /\ made \in Row /\ made.exists /\ made.total_rooms = n
          /\ made.held_rooms = row.held_rooms /\ made.reserved_rooms = row.reserved_rooms
      BY <1>1 DEF Row
    <3> HIDE DEF made
    <3>3. made.held_rooms + made.reserved_rooms <= made.total_rooms
      BY <1>1, <1>3, <2>2, <3>2
    <3>4. QED
      BY <3>1, <3>2, <3>3 DEF row
  <2>3. row.exists \in BOOLEAN
    BY <1>1 DEF Row
  <2>4. QED
    BY <2>1, <2>2, <2>3

-----------------------------------------------------------------------------
(* Steps. *)

\* A booking keeps what decides how many rooms of which pool it takes, and when.
SameStay(b) ==
  /\ booking'[b].quantity = booking[b].quantity
  /\ booking'[b].check_in = booking[b].check_in
  /\ booking'[b].check_out = booking[b].check_out
  /\ booking'[b].source = booking[b].source
  /\ booking'[b].inventory_mode = booking[b].inventory_mode

\* While stays keep their dates and quantities, a set of them keeps its count.
LEMMA SameStays ==
  ASSUME \A b \in Bookings : SameStay(b), NEW S \in SUBSET Bookings, NEW d
  PROVE  QuantityOn(booking', S, d) = QuantityOn(booking, S, d)
<1>1. \A b \in S : /\ booking'[b].quantity = booking[b].quantity
                   /\ booking'[b].check_in = booking[b].check_in
                   /\ booking'[b].check_out = booking[b].check_out
  BY DEF SameStay
<1>2. QED
  BY <1>1, QuantitySame

\* Giving back the rooms of bookings that leave the pool keeps the counters
\* exact.
LEMMA ReleaseStep ==
  ASSUME IInv, NEW S \in SUBSET Bookings, CanRelease(S), rows' = Released(S),
         inventory_mode' = inventory_mode,
         \A b \in Bookings : SameStay(b),
         \A b \in S : booking'[b].status \in {"CANCELED", "EXPIRED", "CHECKED_OUT"},
         \A b \in Bookings \ S : booking'[b].status = booking[b].status
  PROVE  RowsInv'
<1> DEFINE h(d) == QuantityOn(booking, S \cap Holding(booking), d)
           r(d) == QuantityOn(booking, S \cap Reserving(booking), d)
<1>1. ASSUME NEW d \in Days
      PROVE  /\ h(d) \in Nat /\ rows[d].held_rooms \in Nat /\ rows[d].held_rooms >= h(d)
             /\ r(d) \in Nat /\ rows[d].reserved_rooms \in Nat /\ rows[d].reserved_rooms >= r(d)
  BY CountedType, QuantityType DEF IInv, TypeOK, Row, CanRelease
<1>0. /\ Holding(booking)' = Holding(booking) \ S
      /\ Reserving(booking)' = Reserving(booking) \ S
  BY DEF Holding, Reserving, Shared, WithStatus, UsesSharedDailyInventory, SameStay
<1>2. ASSUME NEW d \in Days
      PROVE  /\ QuantityOn(booking', Holding(booking)', d) = rows[d].held_rooms - h(d)
             /\ QuantityOn(booking', Reserving(booking)', d) = rows[d].reserved_rooms - r(d)
  <2>1. /\ Holding(booking) \in SUBSET Bookings
        /\ Reserving(booking) \in SUBSET Bookings
    BY CountedType
  <2>2. /\ QuantityOn(booking', Holding(booking) \ S, d)
             = QuantityOn(booking, Holding(booking) \ S, d)
        /\ QuantityOn(booking', Reserving(booking) \ S, d)
             = QuantityOn(booking, Reserving(booking) \ S, d)
    BY <2>1, SameStays
  <2>3. /\ rows[d].held_rooms = QuantityOn(booking, Holding(booking), d)
        /\ rows[d].reserved_rooms = QuantityOn(booking, Reserving(booking), d)
    BY DEF IInv, CountersMatchBookings
  <2>4. /\ Holding(booking) = (Holding(booking) \ S) \cup (S \cap Holding(booking))
        /\ Reserving(booking) = (Reserving(booking) \ S) \cup (S \cap Reserving(booking))
    OBVIOUS
  <2>5. /\ QuantityOn(booking, Holding(booking) \ S, d) \in Nat
        /\ QuantityOn(booking, Reserving(booking) \ S, d) \in Nat
    BY <2>1, QuantityType
  <2>6. QuantityOn(booking, Holding(booking), d)
          = QuantityOn(booking, Holding(booking) \ S, d) + h(d)
    BY <2>1, <2>4, QuantitySum
  <2>7. QuantityOn(booking, Reserving(booking), d)
          = QuantityOn(booking, Reserving(booking) \ S, d) + r(d)
    BY <2>1, <2>4, QuantitySum
  <2>8. /\ QuantityOn(booking, Holding(booking) \ S, d) = rows[d].held_rooms - h(d)
        /\ QuantityOn(booking, Reserving(booking) \ S, d) = rows[d].reserved_rooms - r(d)
    <3> HIDE DEF h, r
    <3>1. QED
      BY <1>1, <2>3, <2>5, <2>6, <2>7
  <2>9. QED
    BY <1>0, <2>2, <2>8, Zenon
<1>3. rows' = [d \in Days |-> [rows[d] EXCEPT !.held_rooms = @ - h(d),
                                              !.reserved_rooms = @ - r(d)]]
  BY DEF Released
<1> HIDE DEF h, r
<1>4. ASSUME NEW d \in Days
      PROVE  /\ rows'[d] \in Row
             /\ rows'[d].held_rooms = rows[d].held_rooms - h(d)
             /\ rows'[d].reserved_rooms = rows[d].reserved_rooms - r(d)
             /\ rows'[d].total_rooms = rows[d].total_rooms
             /\ rows'[d].exists = rows[d].exists
  <2>1. rows[d] \in Row
    BY DEF IInv, TypeOK
  <2>2. rows'[d] = [rows[d] EXCEPT !.held_rooms = rows[d].held_rooms - h(d),
                                   !.reserved_rooms = rows[d].reserved_rooms - r(d)]
    BY <1>3
  <2>3. rows[d].held_rooms - h(d) \in Nat /\ rows[d].reserved_rooms - r(d) \in Nat
    BY <1>1
  <2>4. QED
    BY <2>1, <2>2, <2>3 DEF Row
<1>5. rows' \in [Days -> Row]
  BY <1>3, <1>4
<1>6. CountersMatchBookings'
  BY <1>2, <1>4 DEF CountersMatchBookings
<1>7. CommittedWithinTotal'
  <2>1. ASSUME NEW d \in Days
        PROVE  rows'[d].held_rooms + rows'[d].reserved_rooms <= rows'[d].total_rooms
    <3>1. rows[d].held_rooms + rows[d].reserved_rooms <= rows[d].total_rooms
          /\ rows[d].total_rooms \in Nat
      BY DEF IInv, CommittedWithinTotal, TypeOK, Row
    <3>2. QED
      BY <1>1, <1>4, <3>1
  <2>2. QED
    BY <2>1 DEF CommittedWithinTotal
<1>8. MissingRowsEmpty'
  <2>1. ASSUME NEW d \in Days, ~rows'[d].exists
        PROVE  rows'[d].held_rooms = 0 /\ rows'[d].reserved_rooms = 0
    <3>1. rows[d].held_rooms = 0 /\ rows[d].reserved_rooms = 0
      BY <1>4, <2>1 DEF IInv, MissingRowsEmpty
    <3>2. QED
      BY <1>1, <1>4, <3>1
  <2>2. QED
    BY <2>1 DEF MissingRowsEmpty
<1>9. QED
  BY <1>5, <1>6, <1>7, <1>8 DEF RowsInv

\* A payment moves the rooms of a booking from one counter to the other.
LEMMA CommitStep ==
  ASSUME IInv, NEW b \in Bookings, CanRelease({b}), rows' = Committed(b),
         inventory_mode' = inventory_mode,
         \A x \in Bookings : SameStay(x),
         booking[b].status = "PENDING_PAYMENT",
         booking'[b].status = "CONFIRMED",
         \A x \in Bookings \ {b} : booking'[x].status = booking[x].status
  PROVE  RowsInv'
<1> DEFINE M == {b} \cap Holding(booking)
           n(d) == QuantityOn(booking, M, d)
<1>1. /\ Holding(booking)' = Holding(booking) \ M
      /\ Reserving(booking)' = Reserving(booking) \cup M
      /\ Reserving(booking) \cap M = {}
  BY DEF Holding, Reserving, Shared, WithStatus, UsesSharedDailyInventory, SameStay
<1>2. /\ Holding(booking) \in SUBSET Bookings
      /\ Reserving(booking) \in SUBSET Bookings
      /\ M \in SUBSET Bookings
  BY CountedType
<1>3. ASSUME NEW d \in Days
      PROVE  /\ n(d) \in Nat /\ rows[d].held_rooms \in Nat /\ rows[d].held_rooms >= n(d)
             /\ rows[d].reserved_rooms \in Nat /\ rows[d].total_rooms \in Nat
             /\ rows[d].held_rooms + rows[d].reserved_rooms <= rows[d].total_rooms
  BY <1>2, QuantityType DEF IInv, TypeOK, Row, CanRelease, CommittedWithinTotal
<1>4. ASSUME NEW d \in Days
      PROVE  /\ QuantityOn(booking', Holding(booking)', d) = rows[d].held_rooms - n(d)
             /\ QuantityOn(booking', Reserving(booking)', d) = rows[d].reserved_rooms + n(d)
  <2> HIDE DEF M
  <2>1. /\ rows[d].held_rooms = QuantityOn(booking, Holding(booking), d)
        /\ rows[d].reserved_rooms = QuantityOn(booking, Reserving(booking), d)
    BY DEF IInv, CountersMatchBookings
  <2>2. Holding(booking) = (Holding(booking) \ M) \cup M
    BY DEF M
  <2>3. /\ QuantityOn(booking', Holding(booking) \ M, d)
             = QuantityOn(booking, Holding(booking) \ M, d)
        /\ QuantityOn(booking', Reserving(booking) \cup M, d)
             = QuantityOn(booking, Reserving(booking) \cup M, d)
    BY <1>2, SameStays
  <2>4. QuantityOn(booking, Holding(booking), d)
          = QuantityOn(booking, Holding(booking) \ M, d) + n(d)
    BY <1>2, <2>2, QuantitySum
  <2>5. QuantityOn(booking, Reserving(booking) \cup M, d)
          = QuantityOn(booking, Reserving(booking), d) + n(d)
    BY <1>1, <1>2, QuantitySum
  <2>6. QuantityOn(booking, Holding(booking) \ M, d) \in Nat
    BY <1>2, QuantityType
  <2>7. QuantityOn(booking, Holding(booking) \ M, d) = rows[d].held_rooms - n(d)
    <3> HIDE DEF n
    <3>1. QED
      BY <1>3, <2>1, <2>4, <2>6
  <2>8. QED
    BY <1>1, <2>1, <2>3, <2>5, <2>7, Zenon
<1>5. rows' = [d \in Days |-> [rows[d] EXCEPT !.held_rooms = rows[d].held_rooms - n(d),
                                              !.reserved_rooms = rows[d].reserved_rooms + n(d)]]
  BY DEF Committed
<1> HIDE DEF n, M
<1>6. ASSUME NEW d \in Days
      PROVE  /\ rows'[d] \in Row
             /\ rows'[d].held_rooms = rows[d].held_rooms - n(d)
             /\ rows'[d].reserved_rooms = rows[d].reserved_rooms + n(d)
             /\ rows'[d].total_rooms = rows[d].total_rooms
             /\ rows'[d].exists = rows[d].exists
  <2>1. rows[d] \in Row
    BY DEF IInv, TypeOK
  <2>2. rows[d].held_rooms - n(d) \in Nat /\ rows[d].reserved_rooms + n(d) \in Nat
    BY <1>3
  <2>3. rows'[d] = [rows[d] EXCEPT !.held_rooms = rows[d].held_rooms - n(d),
                                   !.reserved_rooms = rows[d].reserved_rooms + n(d)]
    BY <1>5
  <2>4. QED
    BY <2>1, <2>2, <2>3 DEF Row
<1>7. rows' \in [Days -> Row]
  BY <1>5, <1>6
<1>8. CountersMatchBookings'
  BY <1>4, <1>6 DEF CountersMatchBookings
<1>9. CommittedWithinTotal'
  <2>1. ASSUME NEW d \in Days
        PROVE  rows'[d].held_rooms + rows'[d].reserved_rooms <= rows'[d].total_rooms
    BY <1>3, <1>6
  <2>2. QED
    BY <2>1 DEF CommittedWithinTotal
<1>10. MissingRowsEmpty'
  <2>1. ASSUME NEW d \in Days, ~rows'[d].exists
        PROVE  rows'[d].held_rooms = 0 /\ rows'[d].reserved_rooms = 0
    <3>1. rows[d].held_rooms = 0 /\ rows[d].reserved_rooms = 0
      BY <1>6, <2>1 DEF IInv, MissingRowsEmpty
    <3>2. QED
      BY <1>3, <1>6, <3>1
  <2>2. QED
    BY <2>1 DEF MissingRowsEmpty
<1>11. QED
  BY <1>7, <1>8, <1>9, <1>10 DEF RowsInv

\* A step that leaves both sets of bookings and all counters alone.
LEMMA SameRowsStep ==
  ASSUME IInv, inventory_mode' = inventory_mode,
         \A b \in Bookings : SameStay(b),
         Holding(booking)' = Holding(booking),
         Reserving(booking)' = Reserving(booking),
         rows' \in [Days -> Row],
         \A d \in Days :
           /\ rows'[d].held_rooms = rows[d].held_rooms
           /\ rows'[d].reserved_rooms = rows[d].reserved_rooms
           /\ rows'[d].held_rooms + rows'[d].reserved_rooms <= rows'[d].total_rooms
           /\ rows'[d].exists \/ rows'[d] = rows[d]
  PROVE  RowsInv'
<1>1. CountersMatchBookings'
  <2>1. ASSUME NEW d \in Days
        PROVE  /\ QuantityOn(booking', Holding(booking), d)
                    = QuantityOn(booking, Holding(booking), d)
               /\ QuantityOn(booking', Reserving(booking), d)
                    = QuantityOn(booking, Reserving(booking), d)
    BY CountedType, SameStays
  <2>2. QED
    BY <2>1 DEF IInv, CountersMatchBookings
<1>2. CommittedWithinTotal'
  BY DEF CommittedWithinTotal
<1>3. MissingRowsEmpty'
  BY DEF IInv, MissingRowsEmpty
<1>4. QED
  BY <1>1, <1>2, <1>3 DEF RowsInv

\* The hotel's edits and the nightly job ensure rows and touch no booking.
LEMMA EnsureStep ==
  ASSUME IInv, UNCHANGED <<booking, inventory_mode>>,
         NEW W, NEW base \in [Days -> Nat], NEW closing \in [Days -> Nat],
         rows' = EnsuredRows(W, base, closing)
  PROVE  RowsInv'
<1>1. ASSUME NEW d \in Days
      PROVE  /\ rows'[d] \in Row
             /\ rows'[d].held_rooms = rows[d].held_rooms
             /\ rows'[d].reserved_rooms = rows[d].reserved_rooms
             /\ rows'[d].held_rooms + rows'[d].reserved_rooms <= rows'[d].total_rooms
             /\ rows'[d].exists \/ rows'[d] = rows[d]
  <2>1. rows[d] \in Row
    BY DEF IInv, TypeOK
  <2>2. CASE d \in W
    <3>1. rows'[d] = Ensured(rows[d], base[d], closing[d])
      BY <2>2 DEF EnsuredRows
    <3>2. base[d] \in Nat /\ closing[d] \in Nat
      OBVIOUS
    <3> DEFINE e == Ensured(rows[d], base[d], closing[d])
    <3>3. /\ e \in Row
          /\ e.exists
          /\ e.held_rooms = rows[d].held_rooms
          /\ e.reserved_rooms = rows[d].reserved_rooms
          /\ e.held_rooms + e.reserved_rooms <= e.total_rooms
      BY <2>1, <3>2, EnsuredRow
    <3> HIDE DEF e
    <3>4. QED
      BY <3>1, <3>3 DEF e
  <2>3. CASE d \notin W
    BY <2>1, <2>3 DEF EnsuredRows, IInv, CommittedWithinTotal
  <2>4. QED
    BY <2>2, <2>3
<1>2. rows' \in [Days -> Row]
  BY <1>1 DEF EnsuredRows
<1>3. /\ Holding(booking)' = Holding(booking)
      /\ Reserving(booking)' = Reserving(booking)
  BY DEF Holding, Reserving, Shared, WithStatus, UsesSharedDailyInventory
<1>4. \A b \in Bookings : SameStay(b)
  BY DEF SameStay
<1>5. QED
  BY <1>1, <1>2, <1>3, <1>4, SameRowsStep

\* The row of night d as PlaceBooking finds it: rebuilt, locked, or as it was.
Opened(new, reconcile, d) ==
  IF reconcile THEN Reconciled(rows[d], d, booking)
  ELSE IF UsesSharedDailyInventory(new.source, new.inventory_mode) THEN Locked(rows[d])
  ELSE rows[d]

\* Its counters are as they were before.
LEMMA OpenedRow ==
  ASSUME IInv, NEW new, NEW reconcile \in BOOLEAN, NEW d \in Days
  PROVE  LET r == Opened(new, reconcile, d)
         IN  /\ r \in Row
             /\ r.held_rooms = rows[d].held_rooms
             /\ r.reserved_rooms = rows[d].reserved_rooms
             /\ r.held_rooms + r.reserved_rooms <= r.total_rooms
             /\ r.exists \/ (r = rows[d] /\ ~UsesSharedDailyInventory(new.source, new.inventory_mode))
<1> DEFINE shared == UsesSharedDailyInventory(new.source, new.inventory_mode)
           r == Opened(new, reconcile, d)
<1> HIDE DEF r
<1>1. CASE reconcile
  <2>1. r = Reconciled(rows[d], d, booking)
    BY <1>1 DEF r, Opened
  <2>2. /\ rows[d].held_rooms = QuantityOn(booking, Holding(booking), d)
        /\ rows[d].reserved_rooms = QuantityOn(booking, Reserving(booking), d)
    BY DEF IInv, CountersMatchBookings
  <2>3. QED
    BY <2>1, <2>2, ReconciledRow DEF IInv, r
<1>2. CASE ~reconcile /\ shared
  <2>1. r = Locked(rows[d])
    BY <1>2 DEF r, Opened
  <2>2. QED
    BY <2>1, LockedRow DEF r
<1>3. CASE ~reconcile /\ ~shared
  <2>1. r = rows[d]
    BY <1>3 DEF r, Opened
  <2>2. QED
    BY <1>3, <2>1 DEF IInv, TypeOK, CommittedWithinTotal, r
<1>4. QED
  BY <1>1, <1>2, <1>3

\* A new booking, and the rows of its nights that make room for it.
LEMMA PlaceStep ==
  ASSUME IInv, NEW b \in Bookings, NEW new \in Booking, NEW reconcile \in BOOLEAN,
         new.status \in {"PENDING_PAYMENT", "CONFIRMED", "CHECKED_IN"},
         PlaceBooking(b, new, reconcile)
  PROVE  IInv'
<1> DEFINE shared == UsesSharedDailyInventory(new.source, new.inventory_mode)
           Open(d) == IF reconcile THEN Reconciled(rows[d], d, booking)
                      ELSE IF shared THEN Locked(rows[d]) ELSE rows[d]
           n(d) == IF d \in Nights(new) /\ shared THEN new.quantity ELSE 0
           pending == new.status = "PENDING_PAYMENT"
           H == Holding(booking)
           R == Reserving(booking)
<1>1. /\ booking' = [booking EXCEPT ![b] = new]
      /\ booking \in [Bookings -> Booking]
      /\ booking[b].status = "NOT_CREATED"
      /\ inventory_mode' = inventory_mode
      /\ access = "REVOKED" => b \in overtaken
      /\ access' = access /\ overtaken' = overtaken
  BY DEF PlaceBooking, IInv, TypeOK, hotelVars, Admitted, selling
<1>2. /\ Holding(booking)' = H \cup (IF shared /\ pending THEN {b} ELSE {})
      /\ Reserving(booking)' = R \cup (IF shared /\ ~pending THEN {b} ELSE {})
      /\ b \notin H /\ b \notin R
      /\ H \in SUBSET Bookings /\ R \in SUBSET Bookings
  BY <1>1 DEF Holding, Reserving, Shared, WithStatus, UsesSharedDailyInventory
<1>3. new.quantity \in Nat /\ new.quantity \in 0 .. MaxQuantity
  BY BoundsAssumption DEF Booking
<1>4. ASSUME NEW d \in Days
      PROVE  /\ QuantityOn(booking', Holding(booking)', d)
                  = rows[d].held_rooms + (IF pending THEN n(d) ELSE 0)
             /\ QuantityOn(booking', Reserving(booking)', d)
                  = rows[d].reserved_rooms + (IF pending THEN 0 ELSE n(d))
  <2>1. /\ QuantityOn(booking', H, d) = QuantityOn(booking, H, d)
        /\ QuantityOn(booking', R, d) = QuantityOn(booking, R, d)
    <3>1. \A x \in H \cup R : booking'[x] = booking[x]
      BY <1>1, <1>2
    <3> HIDE DEF H, R
    <3>2. QED
      BY <1>2, <3>1, QuantitySame
  <2>2. /\ rows[d].held_rooms = QuantityOn(booking, H, d)
        /\ rows[d].reserved_rooms = QuantityOn(booking, R, d)
        /\ rows[d].held_rooms \in Nat /\ rows[d].reserved_rooms \in Nat
    BY DEF IInv, CountersMatchBookings, TypeOK, Row
  <2>3. QuantityOn(booking', {b}, d) = IF d \in Nights(new) THEN new.quantity ELSE 0
    <3>1. booking'[b] = new
      BY <1>1
    <3>2. QED
      BY <1>3, <3>1, QuantityOfOne
  <2>4. QuantityOn(booking', H \cup {b}, d) = QuantityOn(booking', H, d) + QuantityOn(booking', {b}, d)
    <3> HIDE DEF H, R
    <3>1. {b} \in SUBSET Bookings /\ H \cap {b} = {}
      BY <1>2
    <3>2. QED
      BY <1>2, <3>1, QuantitySum
  <2>5. QuantityOn(booking', R \cup {b}, d) = QuantityOn(booking', R, d) + QuantityOn(booking', {b}, d)
    <3> HIDE DEF H, R
    <3>1. {b} \in SUBSET Bookings /\ R \cap {b} = {}
      BY <1>2
    <3>2. QED
      BY <1>2, <3>1, QuantitySum
  <2>6. H \cup {} = H /\ R \cup {} = R
    OBVIOUS
  <2> HIDE DEF H, R, shared, pending
  <2>7. CASE shared /\ pending
    BY <1>2, <1>3, <2>1, <2>2, <2>3, <2>4, <2>6, <2>7
  <2>8. CASE shared /\ ~pending
    BY <1>2, <1>3, <2>1, <2>2, <2>3, <2>5, <2>6, <2>8
  <2>9. CASE ~shared
    BY <1>2, <2>1, <2>2, <2>6, <2>9
  <2>10. QED
    BY <2>7, <2>8, <2>9
<1>5. ASSUME NEW d \in Nights(new)
      PROVE  /\ Open(d) \in Row
             /\ Open(d).held_rooms = rows[d].held_rooms
             /\ Open(d).reserved_rooms = rows[d].reserved_rooms
             /\ Open(d).held_rooms + Open(d).reserved_rooms <= Open(d).total_rooms
             /\ Open(d).exists \/ (Open(d) = rows[d] /\ ~shared)
  BY OpenedRow DEF Opened, Nights
<1>6. ASSUME NEW d \in Nights(new)
      PROVE  Open(d).held_rooms + Open(d).reserved_rooms + n(d) <= Open(d).total_rooms
  <2>1. CASE shared
    <3>1. AvailableRooms(Open(d)) >= new.quantity
      BY <2>1 DEF PlaceBooking
    <3> DEFINE o == Open(d)
    <3>2. o \in Row /\ o.held_rooms + o.reserved_rooms <= o.total_rooms
      BY <1>5
    <3>3. n(d) = new.quantity
      BY <2>1
    <3> HIDE DEF o, Open, n
    <3>4. /\ o.held_rooms \in Nat /\ o.reserved_rooms \in Nat
          /\ o.total_rooms \in Nat /\ o.closed_rooms \in Nat
      BY <3>2 DEF Row
    <3>5. o.held_rooms + o.reserved_rooms + new.quantity <= o.total_rooms
      BY <1>3, <3>1, <3>2, <3>4 DEF AvailableRooms, MaxOf, o
    <3>6. QED
      BY <3>3, <3>5 DEF o
  <2>2. CASE ~shared
    <3>1. n(d) = 0
      BY <2>2
    <3> HIDE DEF Open, n
    <3>2. QED
      BY <1>5, <3>1 DEF Row
  <2>3. QED
    BY <2>1, <2>2
<1>7. rows' = [d \in Days |-> IF d \in Nights(new)
                              THEN Took(Open(d), new.status, IF shared THEN new.quantity ELSE 0)
                              ELSE rows[d]]
  BY DEF PlaceBooking
<1>8. ASSUME NEW d \in Days
      PROVE  /\ rows'[d] \in Row
             /\ rows'[d].held_rooms = rows[d].held_rooms + (IF pending THEN n(d) ELSE 0)
             /\ rows'[d].reserved_rooms = rows[d].reserved_rooms + (IF pending THEN 0 ELSE n(d))
             /\ rows'[d].held_rooms + rows'[d].reserved_rooms <= rows'[d].total_rooms
             /\ rows'[d].exists \/ (rows'[d].held_rooms = rows[d].held_rooms
                                    /\ rows'[d].reserved_rooms = rows[d].reserved_rooms
                                    /\ rows'[d].exists = rows[d].exists)
  <2>0. /\ rows[d] \in Row
        /\ rows[d].held_rooms \in Nat /\ rows[d].reserved_rooms \in Nat
        /\ rows[d].held_rooms + rows[d].reserved_rooms <= rows[d].total_rooms
    BY DEF IInv, TypeOK, CommittedWithinTotal, Row
  <2>1. CASE d \notin Nights(new)
    <3>1. rows'[d] = rows[d] /\ n(d) = 0
      BY <1>7, <2>1
    <3> HIDE DEF n
    <3>2. QED
      BY <2>0, <3>1
  <2>2. CASE d \in Nights(new)
    <3> DEFINE o == Open(d)
    <3>1. rows'[d] = Took(o, new.status, n(d))
      BY <1>7, <2>2
    <3>2. /\ o \in Row
          /\ o.held_rooms = rows[d].held_rooms
          /\ o.reserved_rooms = rows[d].reserved_rooms
          /\ o.held_rooms + o.reserved_rooms + n(d) <= o.total_rooms
      BY <1>5, <1>6, <2>2
    <3>3. o.exists \/ (o = rows[d] /\ n(d) = 0)
      BY <1>5, <2>2
    <3>4. n(d) \in Nat
      BY <1>3
    <3> HIDE DEF o, n, Open
    <3>5. CASE pending
      <4>1. rows'[d] = [o EXCEPT !.held_rooms = o.held_rooms + n(d)]
        BY <3>1, <3>5 DEF Took
      <4>2. /\ rows'[d] \in Row
            /\ rows'[d].held_rooms = o.held_rooms + n(d)
            /\ rows'[d].reserved_rooms = o.reserved_rooms
            /\ rows'[d].total_rooms = o.total_rooms
            /\ rows'[d].exists = o.exists
        BY <2>0, <3>2, <3>4, <4>1 DEF Row
      <4>3. QED
        BY <2>0, <3>2, <3>3, <3>4, <3>5, <4>2
    <3>6. CASE ~pending
      <4>1. rows'[d] = [o EXCEPT !.reserved_rooms = o.reserved_rooms + n(d)]
        BY <3>1, <3>6 DEF Took
      <4>2. /\ rows'[d] \in Row
            /\ rows'[d].held_rooms = o.held_rooms
            /\ rows'[d].reserved_rooms = o.reserved_rooms + n(d)
            /\ rows'[d].total_rooms = o.total_rooms
            /\ rows'[d].exists = o.exists
        BY <2>0, <3>2, <3>4, <4>1 DEF Row
      <4>3. QED
        BY <2>0, <3>2, <3>3, <3>4, <3>6, <4>2
    <3>7. QED
      BY <3>5, <3>6
  <2>3. QED
    BY <2>1, <2>2
<1> HIDE DEF n, Open, shared, pending
<1>9. TypeOK'
  <2>1. rows' \in [Days -> Row]
    BY <1>7, <1>8
  <2>2. booking' \in [Bookings -> Booking]
    BY <1>1
  <2>3. default_inventory' \in Nat
    BY DEF PlaceBooking, EnsuredDefault, IInv, TypeOK
  <2>4. QED
    BY <2>1, <2>2, <2>3 DEF PlaceBooking, IInv, TypeOK, hotelVars, roomVars
<1>10. CountersMatchBookings'
  BY <1>4, <1>8 DEF CountersMatchBookings
<1>11. CommittedWithinTotal'
  BY <1>8 DEF CommittedWithinTotal
<1>12. MissingRowsEmpty'
  BY <1>8 DEF IInv, MissingRowsEmpty
<1>13. PendingOvertaken'
  <2>1. WithStatus(booking, {"PENDING_PAYMENT"})'
          \subseteq WithStatus(booking, {"PENDING_PAYMENT"}) \cup {b}
    BY <1>1 DEF WithStatus
  <2>2. QED
    BY <1>1, <2>1 DEF IInv, PendingOvertaken
<1>14. QED
  BY <1>9, <1>10, <1>11, <1>12, <1>13 DEF IInv

\* A restored no-show takes its rooms back on rows rebuilt to count it.
LEMMA RestoreStep ==
  ASSUME IInv, NEW b \in Bookings, RestoreNoShow(b)
  PROVE  RowsInv'
<1> DEFINE reconcile == inventory_mode = "ROOM_TYPE_COUNT"
           H == Holding(booking)
           R == Reserving(booking)
<1>1. /\ booking \in [Bookings -> Booking]
      /\ booking' = [booking EXCEPT ![b].status = "CONFIRMED", ![b].hold_expires_at = NoHold]
      /\ booking[b].status = "CANCELED" /\ booking[b].source = "OTA"
      /\ booking[b].inventory_mode = "ROOM_TYPE_COUNT"
      /\ inventory_mode' = inventory_mode
  BY DEF RestoreNoShow, IInv, TypeOK, hotelVars
<1>2. /\ \A x \in Bookings : SameStay(x)
      /\ \A x \in Bookings \ {b} : booking'[x] = booking[x]
      /\ booking'[b].status = "CONFIRMED"
  BY <1>1 DEF SameStay, Booking
<1>3. /\ Holding(booking)' = H
      /\ Reserving(booking)' = R \cup (IF reconcile THEN {b} ELSE {})
      /\ b \notin R
      /\ H \in SUBSET Bookings /\ R \in SUBSET Bookings
      /\ Holding(booking)' = Holding(booking')
      /\ Reserving(booking)' = Reserving(booking')
  BY <1>1, <1>2 DEF Holding, Reserving, Shared, WithStatus, UsesSharedDailyInventory, SameStay
<1>4. rows' = [d \in Days |-> IF reconcile /\ d \in Nights(booking[b])
                              THEN Reconciled(rows[d], d, booking') ELSE rows[d]]
  BY <1>1 DEF RestoreNoShow
<1>5. ASSUME NEW d \in Days
      PROVE  /\ rows'[d] \in Row
             /\ rows'[d].held_rooms = QuantityOn(booking', Holding(booking)', d)
             /\ rows'[d].reserved_rooms = QuantityOn(booking', Reserving(booking)', d)
             /\ rows'[d].held_rooms + rows'[d].reserved_rooms <= rows'[d].total_rooms
             /\ rows'[d].exists \/ rows'[d] = rows[d]
  <2>1. CASE reconcile /\ d \in Nights(booking[b])
    <3> DEFINE r == Reconciled(rows[d], d, booking')
    <3>1. rows'[d] = r
      BY <1>4, <2>1
    <3>2. /\ r \in Row
          /\ r.exists
          /\ r.held_rooms = QuantityOn(booking', Holding(booking'), d)
          /\ r.reserved_rooms = QuantityOn(booking', Reserving(booking'), d)
          /\ r.held_rooms + r.reserved_rooms <= r.total_rooms
      BY ReconciledRow DEF IInv
    <3> HIDE DEF r
    <3>3. QED
      BY <1>3, <3>1, <3>2
  <2>2. CASE ~(reconcile /\ d \in Nights(booking[b]))
    <3>1. rows'[d] = rows[d]
      BY <1>4, <2>2
    <3>2. /\ rows[d] \in Row
          /\ rows[d].held_rooms = QuantityOn(booking, H, d)
          /\ rows[d].reserved_rooms = QuantityOn(booking, R, d)
          /\ rows[d].held_rooms + rows[d].reserved_rooms <= rows[d].total_rooms
          /\ rows[d].reserved_rooms \in Nat
      BY DEF IInv, TypeOK, CountersMatchBookings, CommittedWithinTotal, Row
    <3> HIDE DEF H, R
    <3>3. /\ QuantityOn(booking', H, d) = QuantityOn(booking, H, d)
          /\ QuantityOn(booking', R, d) = QuantityOn(booking, R, d)
      BY <1>2, <1>3, SameStays
    <3>4. CASE ~reconcile
      <4>1. R \cup {} = R
        OBVIOUS
      <4>2. QED
        BY <1>3, <3>1, <3>2, <3>3, <3>4, <4>1
    <3>5. CASE reconcile
      <4>1. d \notin Nights(booking'[b])
        BY <1>2, <2>2, <3>5 DEF SameStay, Nights
      <4>2. booking'[b].quantity \in 0 .. MaxQuantity
        BY <1>1, <1>2 DEF SameStay, Booking
      <4>3. QuantityOn(booking', {b}, d) = 0
        BY <4>1, <4>2, QuantityOfOne
      <4>4. QuantityOn(booking', R \cup {b}, d) = QuantityOn(booking', R, d) + 0
        <5>1. {b} \in SUBSET Bookings /\ R \cap {b} = {}
          BY <1>3
        <5>2. QED
          BY <1>3, <4>3, <5>1, QuantitySum
      <4>5. QuantityOn(booking', Reserving(booking)', d) = rows[d].reserved_rooms
        BY <1>3, <3>2, <3>3, <3>5, <4>4
      <4>6. QED
        BY <1>3, <3>1, <3>2, <3>3, <4>5
    <3>6. QED
      BY <3>4, <3>5
  <2>3. QED
    BY <2>1, <2>2
<1>6. rows' \in [Days -> Row]
  BY <1>4, <1>5
<1>7. CountersMatchBookings' /\ CommittedWithinTotal'
  BY <1>5 DEF CountersMatchBookings, CommittedWithinTotal
<1>8. MissingRowsEmpty'
  BY <1>5 DEF IInv, MissingRowsEmpty
<1>9. QED
  BY <1>6, <1>7, <1>8 DEF RowsInv

-----------------------------------------------------------------------------
(* The invariant is inductive. *)

\* The invariant holds before any booking is made.
LEMMA InitInv == Init => IInv
<1> SUFFICES ASSUME Init
             PROVE  IInv
  OBVIOUS
<1>1. MaxRooms \in Nat /\ LastDay \in Nat /\ MaxQuantity \in Nat
  BY BoundsAssumption
<1>2. TypeOK
  <2>1. NotCreated \in Booking
    <3>1. 0 \in Days /\ 0 \in 0 .. LastDay + 1 /\ 0 \in 0 .. MaxQuantity
      BY <1>1 DEF Days
    <3>2. QED
      BY <3>1 DEF NotCreated, Booking, Modes, Sources, Statuses, NoHold
  <2>2. /\ MissingRow \in Row
        /\ [MissingRow EXCEPT !.exists = TRUE, !.total_rooms = MaxRooms] \in Row
    BY <1>1 DEF MissingRow, Row
  <2>3. booking \in [Bookings -> Booking] /\ rows \in [Days -> Row]
    BY <2>1, <2>2 DEF Init
  <2>4. QED
    BY <1>1, <2>3 DEF Init, TypeOK, Modes, Accesses
<1>3. /\ Holding(booking) = {} /\ Reserving(booking) = {}
      /\ WithStatus(booking, {"PENDING_PAYMENT"}) = {}
  BY DEF Init, NotCreated, Holding, Reserving, Shared, WithStatus
<1>4. ASSUME NEW d \in Days
      PROVE  rows[d].held_rooms = 0 /\ rows[d].reserved_rooms = 0 /\ rows[d].total_rooms \in Nat
  BY <1>1 DEF Init, MissingRow
<1>5. CountersMatchBookings
  BY <1>3, <1>4, QuantityOfNone DEF CountersMatchBookings
<1>6. CommittedWithinTotal /\ MissingRowsEmpty
  BY <1>4 DEF CommittedWithinTotal, MissingRowsEmpty
<1>7. QED
  BY <1>2, <1>3, <1>5, <1>6 DEF IInv, PendingOvertaken

\* What the steps that leave the clock, the hotel and its rooms alone must show.
LEMMA BookingOnly ==
  ASSUME IInv, UNCHANGED bookingOnly, RowsInv', booking' \in [Bookings -> Booking],
         WithStatus(booking, {"PENDING_PAYMENT"})' \subseteq WithStatus(booking, {"PENDING_PAYMENT"})
  PROVE  IInv'
BY DEF IInv, RowsInv, TypeOK, bookingOnly, hotelVars, roomVars, PendingOvertaken

\* A booking is made by PlaceBooking; in count mode the rows of one that counts
\* are rebuilt before it is charged.
LEMMA NewBookingsPlace ==
  ASSUME TypeOK, NewBookings
  PROVE  \E b \in Bookings, new \in Booking, reconcile \in BOOLEAN :
           /\ PlaceBooking(b, new, reconcile)
           /\ new.status \in {"PENDING_PAYMENT", "CONFIRMED", "CHECKED_IN"}
           /\ new.quantity >= 1
           /\ \/ reconcile \/ inventory_mode # "ROOM_TYPE_COUNT"
              \/ ~UsesSharedDailyInventory(new.source, new.inventory_mode)
<1>1. PICK b \in Bookings, check_in \in Days, check_out \in 1 .. LastDay + 1,
           quantity \in 1 .. MaxQuantity :
        \/ CreateBooking(b, check_in, check_out, quantity)
        \/ \E paid \in BOOLEAN : CreateAdminReservation(b, check_in, check_out, quantity, paid)
        \/ \E immediately, paid \in BOOLEAN :
             CreateWalkIn(b, check_in, check_out, quantity, immediately, paid)
  BY DEF NewBookings
<1>2. \E source \in Sources, status \in {"PENDING_PAYMENT", "CONFIRMED", "CHECKED_IN"} :
        \E paid, reconcile \in BOOLEAN :
          /\ PlaceBooking(b, NewBooking(source, check_in, check_out, quantity, status, paid),
                          reconcile)
          /\ source = "OTA" => (reconcile <=> inventory_mode = "ROOM_TYPE_COUNT")
  BY <1>1 DEF CreateBooking, CreateAdminReservation, CreateWalkIn, Sources
<1>3. PICK source \in Sources, status \in {"PENDING_PAYMENT", "CONFIRMED", "CHECKED_IN"} :
        \E paid, reconcile \in BOOLEAN :
          /\ PlaceBooking(b, NewBooking(source, check_in, check_out, quantity, status, paid),
                          reconcile)
          /\ source = "OTA" => (reconcile <=> inventory_mode = "ROOM_TYPE_COUNT")
  BY <1>2
<1>4. PICK paid \in BOOLEAN, reconcile \in BOOLEAN :
          /\ PlaceBooking(b, NewBooking(source, check_in, check_out, quantity, status, paid),
                          reconcile)
          /\ source = "OTA" => (reconcile <=> inventory_mode = "ROOM_TYPE_COUNT")
  BY <1>3
<1> DEFINE new == NewBooking(source, check_in, check_out, quantity, status, paid)
<1>5. new \in Booking
  <2>1. check_out \in 0 .. LastDay + 1 /\ quantity \in 0 .. MaxQuantity
    BY BoundsAssumption
  <2>2. now + HoldTicks \in Int /\ NoHold \in Int
    BY BoundsAssumption DEF TypeOK, NoHold
  <2>3. QED
    BY <2>1, <2>2 DEF NewBooking, Booking, Statuses, Modes, TypeOK
<1>6. new.status = status /\ new.quantity = quantity /\ new.source = source
  BY DEF NewBooking
<1>7. \/ reconcile \/ inventory_mode # "ROOM_TYPE_COUNT"
      \/ ~UsesSharedDailyInventory(new.source, new.inventory_mode)
  BY <1>4, <1>6 DEF UsesSharedDailyInventory, Sources
<1>8. PlaceBooking(b, new, reconcile) /\ new.quantity >= 1
  BY <1>4, <1>6
<1> HIDE DEF new
<1>9. QED
  BY <1>5, <1>6, <1>7, <1>8

\* Making a booking, at the site, at the desk or walking in, keeps the invariant.
LEMMA NewBookingsInv ==
  ASSUME IInv, NewBookings
  PROVE  IInv'
<1>1. PICK b \in Bookings, new \in Booking, reconcile \in BOOLEAN :
        /\ PlaceBooking(b, new, reconcile)
        /\ new.status \in {"PENDING_PAYMENT", "CONFIRMED", "CHECKED_IN"}
        /\ new.quantity >= 1
  BY NewBookingsPlace DEF IInv
<1>2. QED
  BY <1>1, PlaceStep

\* Payment, cancellation, check-in, check-out and restore keep the invariant.
LEMMA BookingStepsInv ==
  ASSUME IInv, NEW b \in Bookings,
         \/ RecordPayment(b)
         \/ CancelBooking(b)
         \/ CheckIn(b)
         \/ CheckOut(b)
         \/ RestoreNoShow(b)
  PROVE  IInv'
<1>0. NoHold \in Int
  BY DEF NoHold
<1>1. booking \in [Bookings -> Booking] /\ booking[b] \in Booking
  BY DEF IInv, TypeOK
<1>2. {b} \in SUBSET Bookings
  OBVIOUS
<1>3. CASE RecordPayment(b)
  <2>1. /\ UNCHANGED bookingOnly /\ inventory_mode' = inventory_mode
        /\ booking[b].status # "NOT_CREATED"
    BY <1>3 DEF RecordPayment, bookingOnly, hotelVars
  <2>2. CASE booking[b].status = "PENDING_PAYMENT"
    <3>1. /\ CanRelease({b})
          /\ rows' = Committed(b)
          /\ booking' = [booking EXCEPT ![b].paid = TRUE, ![b].status = "CONFIRMED",
                                        ![b].hold_expires_at = NoHold]
      BY <1>3, <2>2 DEF RecordPayment
    <3>2. /\ \A x \in Bookings : SameStay(x)
          /\ booking'[b].status = "CONFIRMED"
          /\ \A x \in Bookings \ {b} : booking'[x].status = booking[x].status
      BY <1>1, <3>1 DEF SameStay, Booking
    <3>3. RowsInv'
      BY <2>1, <2>2, <3>1, <3>2, CommitStep
    <3>4. booking' \in [Bookings -> Booking]
      BY <1>0, <1>1, <3>1 DEF Booking, Statuses
    <3>5. QED
      BY <2>1, <3>2, <3>3, <3>4, BookingOnly DEF WithStatus
  <2>3. CASE booking[b].status # "PENDING_PAYMENT"
    <3>1. /\ rows' = rows
          /\ booking' = [booking EXCEPT ![b].paid = TRUE, ![b].status = booking[b].status,
                                        ![b].hold_expires_at = booking[b].hold_expires_at]
      BY <1>3, <2>3 DEF RecordPayment
    <3>2. /\ \A x \in Bookings : SameStay(x)
          /\ \A x \in Bookings : booking'[x].status = booking[x].status
      BY <1>1, <3>1 DEF SameStay, Booking
    <3>3. /\ Holding(booking)' = Holding(booking)
          /\ Reserving(booking)' = Reserving(booking)
      BY <2>1, <3>2 DEF Holding, Reserving, Shared, WithStatus, UsesSharedDailyInventory, SameStay
    <3>4. RowsInv'
      BY <2>1, <3>1, <3>2, <3>3, SameRowsStep DEF IInv, TypeOK, CommittedWithinTotal
    <3>5. booking' \in [Bookings -> Booking]
      BY <1>1, <3>1 DEF Booking
    <3>6. QED
      BY <2>1, <3>2, <3>4, <3>5, BookingOnly DEF WithStatus
  <2>4. QED
    BY <2>2, <2>3
<1>4. CASE CancelBooking(b)
  <2>1. /\ UNCHANGED bookingOnly /\ inventory_mode' = inventory_mode
        /\ CanRelease({b}) /\ rows' = Released({b})
        /\ booking' = [booking EXCEPT ![b].status = "CANCELED", ![b].hold_expires_at = NoHold]
    BY <1>4 DEF CancelBooking, bookingOnly, hotelVars
  <2>2. /\ \A x \in Bookings : SameStay(x)
        /\ booking'[b].status = "CANCELED"
        /\ \A x \in Bookings \ {b} : booking'[x].status = booking[x].status
    BY <1>1, <2>1 DEF SameStay, Booking
  <2>3. RowsInv'
    BY <1>2, <2>1, <2>2, ReleaseStep
  <2>4. booking' \in [Bookings -> Booking]
    BY <1>0, <1>1, <2>1 DEF Booking, Statuses
  <2>5. QED
    BY <2>1, <2>2, <2>3, <2>4, BookingOnly DEF WithStatus
<1>5. CASE CheckIn(b)
  <2>1. /\ UNCHANGED bookingOnly /\ inventory_mode' = inventory_mode /\ rows' = rows
        /\ booking[b].status = "CONFIRMED"
        /\ booking' = [booking EXCEPT ![b].status = "CHECKED_IN"]
    BY <1>5 DEF CheckIn, bookingOnly, hotelVars
  <2>2. /\ \A x \in Bookings : SameStay(x)
        /\ booking'[b].status = "CHECKED_IN"
        /\ \A x \in Bookings \ {b} : booking'[x].status = booking[x].status
    BY <1>1, <2>1 DEF SameStay, Booking
  <2>3. /\ Holding(booking)' = Holding(booking)
        /\ Reserving(booking)' = Reserving(booking)
    BY <2>1, <2>2 DEF Holding, Reserving, Shared, WithStatus, UsesSharedDailyInventory, SameStay
  <2>4. RowsInv'
    BY <2>1, <2>2, <2>3, SameRowsStep DEF IInv, TypeOK, CommittedWithinTotal
  <2>5. booking' \in [Bookings -> Booking]
    BY <1>1, <2>1 DEF Booking, Statuses
  <2>6. QED
    BY <2>1, <2>2, <2>4, <2>5, BookingOnly DEF WithStatus
<1>6. CASE CheckOut(b)
  <2>1. /\ inventory_mode' = inventory_mode
        /\ CanRelease({b}) /\ rows' = Released({b})
        /\ booking' = [booking EXCEPT ![b].status = "CHECKED_OUT"]
        /\ booking[b].status = "CHECKED_IN"
    BY <1>6 DEF CheckOut, hotelVars
  <2>2. /\ \A x \in Bookings : SameStay(x)
        /\ booking'[b].status = "CHECKED_OUT"
        /\ \A x \in Bookings \ {b} : booking'[x].status = booking[x].status
    BY <1>1, <2>1 DEF SameStay, Booking
  <2>3. RowsInv'
    BY <1>2, <2>1, <2>2, ReleaseStep
  <2>4. booking' \in [Bookings -> Booking]
    BY <1>1, <2>1 DEF Booking, Statuses
  <2>5. active_rooms' \in Nat
    <3>1. active_rooms \in Nat /\ booking[b].quantity \in Nat
      BY <1>1, BoundsAssumption DEF IInv, TypeOK, Booking
    <3>2. SellableRooms(active_rooms, booking[b].quantity) \in Nat
      BY <3>1 DEF SellableRooms, MaxOf
    <3>3. QED
      BY <1>6, <3>1, <3>2 DEF CheckOut
  <2>6. TypeOK'
    BY <1>6, <2>3, <2>4, <2>5 DEF CheckOut, IInv, TypeOK, RowsInv, hotelVars
  <2>7. PendingOvertaken'
    BY <1>6, <2>2 DEF CheckOut, IInv, PendingOvertaken, WithStatus, hotelVars
  <2>8. QED
    BY <2>3, <2>6, <2>7 DEF IInv, RowsInv
<1>7. CASE RestoreNoShow(b)
  <2>1. RowsInv'
    BY <1>7, RestoreStep
  <2>2. booking' = [booking EXCEPT ![b].status = "CONFIRMED", ![b].hold_expires_at = NoHold]
    BY <1>7 DEF RestoreNoShow
  <2>3. booking' \in [Bookings -> Booking]
    BY <1>0, <1>1, <2>2 DEF Booking, Statuses
  <2>4. /\ booking'[b].status = "CONFIRMED"
        /\ \A x \in Bookings \ {b} : booking'[x].status = booking[x].status
    BY <1>1, <2>2 DEF Booking
  <2>5. default_inventory' \in Nat
    BY <1>7 DEF RestoreNoShow, EnsuredDefault, IInv, TypeOK
  <2>6. TypeOK'
    BY <1>7, <2>1, <2>3, <2>5 DEF RestoreNoShow, IInv, TypeOK, RowsInv, hotelVars, roomVars
  <2>7. PendingOvertaken'
    BY <1>7, <2>4 DEF RestoreNoShow, IInv, PendingOvertaken, WithStatus, hotelVars
  <2>8. QED
    BY <2>1, <2>6, <2>7 DEF IInv, RowsInv
<1>8. QED
  BY <1>3, <1>4, <1>5, <1>6, <1>7

\* What the hotel's edits and the nightly job must show.
LEMMA HotelOnly ==
  ASSUME IInv, RowsInv', UNCHANGED <<booking, hotelVars, now>>,
         active_rooms' \in Nat, count_inventory' \in Nat, default_inventory' \in Nat,
         blocked_rooms' \in [Days -> Nat], rooms_to_close' \in [Days -> Nat], edits' \in Nat
  PROVE  IInv'
BY DEF IInv, RowsInv, TypeOK, hotelVars, PendingOvertaken, WithStatus

\* Every edit by the hotel and every sync from Core keeps the invariant.
LEMMA HotelEditsInv ==
  ASSUME IInv, HotelEdits \/ EnsureRollingDailyInventory
  PROVE  IInv'
<1> USE DEF hotelVars, roomVars
<1>1. /\ active_rooms \in Nat /\ count_inventory \in Nat /\ default_inventory \in Nat
      /\ blocked_rooms \in [Days -> Nat] /\ rooms_to_close \in [Days -> Nat]
      /\ edits \in Nat /\ MaxRooms \in Nat
  BY BoundsAssumption DEF IInv, TypeOK
<1>2. ASSUME NEW active \in Nat, NEW blocked \in [Days -> Nat], NEW count \in Nat
      PROVE  /\ BaseTotals(active, blocked, count) \in [Days -> Nat]
             /\ EnsuredDefault(active, count) \in Nat
  BY <1>2 DEF BaseTotals, SellableRooms, MaxOf, EnsuredDefault
<1>3. CASE EnsureRollingDailyInventory
  BY <1>1, <1>2, <1>3, EnsureStep, HotelOnly DEF EnsureRollingDailyInventory
<1>4. ASSUME hotelEdit
      PROVE  edits' \in Nat
  BY <1>1, <1>4 DEF hotelEdit
<1>5. ASSUME NEW active \in 0 .. MaxRooms, UpdatePhysicalRooms(active)
      PROVE  IInv'
  <2>1. active \in Nat
    OBVIOUS
  <2>2. RowsInv'
    BY <1>1, <1>2, <1>5, <2>1, EnsureStep DEF UpdatePhysicalRooms
  <2>3. QED
    BY <1>1, <1>2, <1>4, <1>5, <2>1, <2>2, HotelOnly DEF UpdatePhysicalRooms
<1>6. ASSUME NEW first \in Days, NEW last \in Days, NEW delta \in {-1, 1},
             UpdateRoomBlock(first, last, delta)
      PROVE  IInv'
  <2> DEFINE blocked == [d \in Days |-> IF d \in first .. last THEN blocked_rooms[d] + delta
                                        ELSE blocked_rooms[d]]
  <2>1. blocked \in [Days -> Nat]
    <3>1. ASSUME NEW d \in Days
          PROVE  blocked[d] \in Nat
      BY <1>1, <1>6 DEF UpdateRoomBlock
    <3>2. QED
      BY <3>1
  <2>2. RowsInv'
    BY <1>1, <1>2, <1>6, <2>1, EnsureStep DEF UpdateRoomBlock
  <2>3. QED
    BY <1>1, <1>2, <1>4, <1>6, <2>1, <2>2, HotelOnly DEF UpdateRoomBlock
<1>7. ASSUME NEW first \in Days, NEW last \in Days, NEW n \in 0 .. MaxRooms,
             NEW open_ended \in BOOLEAN, UpdateClosure(first, last, n, open_ended)
      PROVE  IInv'
  <2> DEFINE closing == [d \in Days |-> IF d \in first .. last THEN n ELSE rooms_to_close[d]]
  <2>1. closing \in [Days -> Nat]
    BY <1>1
  <2>2. RowsInv'
    BY <1>1, <1>2, <1>7, <2>1, EnsureStep DEF UpdateClosure
  <2>3. QED
    BY <1>1, <1>2, <1>4, <1>7, <2>1, <2>2, HotelOnly DEF UpdateClosure
<1>8. ASSUME NEW total \in 0 .. MaxRooms, PutCountInventory(total)
      PROVE  IInv'
  <2>1. total \in Nat
    OBVIOUS
  <2>2. RowsInv'
    BY <1>1, <1>2, <1>8, <2>1, EnsureStep DEF PutCountInventory
  <2>3. QED
    BY <1>1, <1>4, <1>8, <2>1, <2>2, HotelOnly DEF PutCountInventory
<1>9. ASSUME NEW first \in Days, NEW last \in Days, NEW total \in 0 .. MaxRooms,
             NEW stop_sell \in BOOLEAN, BulkUpsert(first, last, total, stop_sell)
      PROVE  IInv'
  <2>1. ASSUME NEW d \in Days
        PROVE  /\ rows'[d] \in Row
               /\ rows'[d].held_rooms = rows[d].held_rooms
               /\ rows'[d].reserved_rooms = rows[d].reserved_rooms
               /\ rows'[d].held_rooms + rows'[d].reserved_rooms <= rows'[d].total_rooms
               /\ rows'[d].exists \/ rows'[d] = rows[d]
    <3>0. total \in Nat
      OBVIOUS
    <3>1. /\ rows[d] \in Row
          /\ rows[d].held_rooms + rows[d].reserved_rooms <= rows[d].total_rooms
          /\ ~rows[d].exists => rows[d].held_rooms = 0 /\ rows[d].reserved_rooms = 0
      BY DEF IInv, TypeOK, CommittedWithinTotal, MissingRowsEmpty
    <3>2. CASE d \in first .. last
      <4> DEFINE made == [rows[d] EXCEPT !.exists = TRUE, !.total_rooms = total,
                                         !.stop_sell = stop_sell]
      <4>1. rows'[d] = made
        BY <1>9, <3>2 DEF BulkUpsert
      <4>2. rows[d].exists => rows[d].held_rooms + rows[d].reserved_rooms <= total
        BY <1>9, <3>2 DEF BulkUpsert
      <4>3. /\ made \in Row
            /\ made.exists
            /\ made.held_rooms = rows[d].held_rooms
            /\ made.reserved_rooms = rows[d].reserved_rooms
            /\ made.total_rooms = total
        BY <3>0, <3>1 DEF Row
      <4>4. rows[d].held_rooms + rows[d].reserved_rooms <= total
        BY <3>1, <4>2 DEF Row
      <4> HIDE DEF made
      <4>5. QED
        BY <4>1, <4>3, <4>4
    <3>3. CASE d \notin first .. last
      BY <1>9, <3>1, <3>3 DEF BulkUpsert
    <3>4. QED
      BY <3>2, <3>3
  <2>2. rows' \in [Days -> Row]
    BY <1>9, <2>1 DEF BulkUpsert
  <2>3. /\ Holding(booking)' = Holding(booking)
        /\ Reserving(booking)' = Reserving(booking)
        /\ \A b \in Bookings : SameStay(b)
        /\ inventory_mode' = inventory_mode
    BY <1>9 DEF BulkUpsert, Holding, Reserving, Shared, WithStatus, UsesSharedDailyInventory, SameStay
  <2>4. RowsInv'
    BY <2>1, <2>2, <2>3, SameRowsStep
  <2>5. QED
    BY <1>1, <1>4, <1>9, <2>4, HotelOnly DEF BulkUpsert
<1>10. ASSUME NEW active \in 0 .. MaxRooms, NEW enabled \in BOOLEAN,
              SyncBusinessFromCore(active, enabled)
       PROVE  IInv'
  <2>1. active \in Nat
    OBVIOUS
  <2>2. RowsInv'
    BY <1>1, <1>2, <1>10, <2>1, EnsureStep DEF SyncBusinessFromCore
  <2>3. access' \in {"ACTIVE", "DISABLED"}
    BY <1>10 DEF SyncBusinessFromCore
  <2>4. TypeOK'
    BY <1>1, <1>2, <1>4, <1>10, <2>1, <2>2, <2>3
       DEF Overtakes, SyncBusinessFromCore, IInv, TypeOK, RowsInv, Accesses
  <2>5. PendingOvertaken'
    BY <2>3 DEF PendingOvertaken
  <2>6. QED
    BY <2>2, <2>4, <2>5 DEF IInv, RowsInv
<1>11. QED
  BY <1>3, <1>5, <1>6, <1>7, <1>8, <1>9, <1>10 DEF HotelEdits

\* Expiring or deprovisioning releases a set of pending bookings at once.
LEMMA ExpireInv ==
  ASSUME IInv, ExpirePendingBookings
  PROVE  IInv'
<1>1. booking \in [Bookings -> Booking]
  BY DEF IInv, TypeOK
<1>2. /\ UNCHANGED bookingOnly /\ inventory_mode' = inventory_mode
      /\ Overdue \in SUBSET Bookings
      /\ CanRelease(Overdue) /\ rows' = Released(Overdue)
      /\ booking' = [b \in Bookings |-> IF b \in Overdue
                                        THEN [booking[b] EXCEPT !.status = "EXPIRED"]
                                        ELSE booking[b]]
  BY DEF ExpirePendingBookings, bookingOnly, hotelVars, Overdue
<1> HIDE DEF Overdue
<1>3. /\ \A x \in Bookings : SameStay(x)
      /\ \A x \in Overdue : booking'[x].status = "EXPIRED"
      /\ \A x \in Bookings \ Overdue : booking'[x].status = booking[x].status
  BY <1>1, <1>2 DEF SameStay, Booking
<1>4. RowsInv'
  BY <1>2, <1>3, ReleaseStep
<1>5. booking' \in [Bookings -> Booking]
  BY <1>1, <1>2 DEF Booking, Statuses
<1>6. WithStatus(booking, {"PENDING_PAYMENT"})' \subseteq WithStatus(booking, {"PENDING_PAYMENT"})
  BY <1>2, <1>3 DEF WithStatus
<1>7. QED
  BY <1>2, <1>4, <1>5, <1>6, BookingOnly

\* A revocation, which expires every pending booking, keeps the invariant.
LEMMA DeprovisionInv ==
  ASSUME IInv, DeprovisionHotel
  PROVE  IInv'
<1> DEFINE P == WithStatus(booking, {"PENDING_PAYMENT"})
<1>0. NoHold \in Int
  BY DEF NoHold
<1>1. booking \in [Bookings -> Booking]
  BY DEF IInv, TypeOK
<1>2. /\ inventory_mode' = inventory_mode
      /\ P \in SUBSET Bookings
      /\ CanRelease(P) /\ rows' = Released(P)
      /\ booking' = [b \in Bookings |->
                       IF b \in P
                       THEN [booking[b] EXCEPT !.status = "EXPIRED", !.hold_expires_at = NoHold]
                       ELSE booking[b]]
      /\ \A x \in Bookings \ P : booking[x].status # "PENDING_PAYMENT"
  BY DEF DeprovisionHotel, WithStatus
<1> HIDE DEF P
<1>3. /\ \A x \in Bookings : SameStay(x)
      /\ \A x \in P : booking'[x].status = "EXPIRED"
      /\ \A x \in Bookings \ P : booking'[x].status = booking[x].status
  BY <1>1, <1>2 DEF SameStay, Booking
<1>4. RowsInv'
  BY <1>2, <1>3, ReleaseStep
<1>5. booking' \in [Bookings -> Booking]
  BY <1>0, <1>1, <1>2 DEF Booking, Statuses
<1>6. TypeOK'
  BY <1>4, <1>5 DEF DeprovisionHotel, Overtakes, IInv, TypeOK, RowsInv, roomVars, Accesses
<1>7. PendingOvertaken'
  BY <1>2, <1>3 DEF PendingOvertaken, WithStatus
<1>8. QED
  BY <1>4, <1>6, <1>7 DEF IInv, RowsInv

\* Rows and bookings as they were keep their part of the invariant.
LEMMA SameState ==
  ASSUME IInv, UNCHANGED <<booking, rows, hotelVars>>
  PROVE  RowsInv' /\ PendingOvertaken'
BY DEF IInv, RowsInv, TypeOK, CountersMatchBookings, CommittedWithinTotal, MissingRowsEmpty,
       PendingOvertaken, Holding, Reserving, Shared, WithStatus,
       UsesSharedDailyInventory, hotelVars

\* Every step keeps the invariant.
LEMMA NextInv == IInv /\ [Next]_vars => IInv'
<1> SUFFICES ASSUME IInv, [Next]_vars
             PROVE  IInv'
  OBVIOUS
<1>1. CASE NewBookings
  BY <1>1, NewBookingsInv
<1>2. CASE BookingSteps
  BY <1>2, BookingStepsInv DEF BookingSteps
<1>3. CASE HotelEdits \/ EnsureRollingDailyInventory
  BY <1>3, HotelEditsInv
<1>4. CASE ExpirePendingBookings
  BY <1>4, ExpireInv
<1>5. CASE DeprovisionHotel
  BY <1>5, DeprovisionInv
<1>6. CASE Tick
  BY <1>6, SameState DEF Tick, IInv, RowsInv, TypeOK, hotelVars, roomVars
<1>7. CASE UNCHANGED vars
  BY <1>7, SameState DEF vars, IInv, RowsInv, TypeOK, hotelVars, roomVars
<1>8. QED
  BY <1>1, <1>2, <1>3, <1>4, <1>5, <1>6, <1>7 DEF Next

-----------------------------------------------------------------------------
(* Theorems. *)

\* Whatever the order of bookings, payments, expiries, check-outs, edits and
\* events, every reachable state satisfies the inductive invariant.
THEOREM Invariance == Spec => []IInv
<1>1. QED
  BY InitInv, NextInv, PTL DEF Spec

\* Whatever the number of bookings, dates, rooms and the order of events, every
\* variable keeps its type: no transaction drives a counter below zero.
THEOREM TypeCorrect == Spec => []TypeOK
<1>1. IInv => TypeOK
  BY DEF IInv
<1>2. QED
  BY <1>1, Invariance, PTL

\* The counters of every row are always those of the bookings that draw on it.
THEOREM CountersCorrect == Spec => []CountersMatchBookings
<1>1. IInv => CountersMatchBookings
  BY DEF IInv
<1>2. QED
  BY <1>1, Invariance, PTL

\* No night is ever committed beyond its total.
THEOREM TotalsCorrect == Spec => []CommittedWithinTotal
<1>1. IInv => CommittedWithinTotal
  BY DEF IInv
<1>2. QED
  BY <1>1, Invariance, PTL

\* A revoked hotel's pool holds rooms for overtaken requests only: they alone are
\* pending, so they are all that its counters of held rooms stand for.
THEOREM RevokedCorrect == Spec => []RevokedHotelHoldsOnlyOvertaken
<1>1. IInv => RevokedHotelHoldsOnlyOvertaken
  <2> SUFFICES ASSUME IInv, access = "REVOKED", NEW d \in Days
               PROVE  rows[d].held_rooms = QuantityOn(booking, Holding(booking) \cap overtaken, d)
    BY DEF RevokedHotelHoldsOnlyOvertaken
  <2>1. WithStatus(booking, {"PENDING_PAYMENT"}) \subseteq overtaken
    BY DEF IInv, PendingOvertaken
  <2>2. Holding(booking) \cap overtaken = Holding(booking)
    BY <2>1 DEF Holding, Shared
  <2>3. rows[d].held_rooms = QuantityOn(booking, Holding(booking), d)
    BY DEF IInv, CountersMatchBookings
  <2>4. QED
    BY <2>2, <2>3, Zenon
<1>2. QED
  BY <1>1, Invariance, PTL

-----------------------------------------------------------------------------
(* The promise of BookingPromise. *)

\* Bookings that take rooms, whichever counter they are in.
Live(bk) == Shared(bk, WithStatus(bk, {"PENDING_PAYMENT", "CONFIRMED", "CHECKED_IN"}))

TakenOn(d) == rows[d].held_rooms + rows[d].reserved_rooms
LifeNow == [b \in Bookings |-> LifeOf(booking[b].status)]
TakenNow == [d \in Days |-> TakenOn(d)]
CapacityNow == [d \in Days |-> rows[d].total_rooms]

\* What is taken on a night is the rooms of the live bookings.
LEMMA TakenIsLive ==
  ASSUME IInv, NEW d \in Days
  PROVE  TakenOn(d) = QuantityOn(booking, Live(booking), d)
<1> DEFINE H == Holding(booking)
           R == Reserving(booking)
<1>1. /\ H \in SUBSET Bookings /\ R \in SUBSET Bookings
      /\ Live(booking) = H \cup R /\ H \cap R = {}
  BY DEF Live, Holding, Reserving, Shared, WithStatus
<1>2. /\ rows[d].held_rooms = QuantityOn(booking, H, d)
      /\ rows[d].reserved_rooms = QuantityOn(booking, R, d)
  BY DEF IInv, CountersMatchBookings
<1> HIDE DEF H, R
<1>3. QED
  BY <1>1, <1>2, QuantitySum DEF TakenOn

\* And so it is after a step.
LEMMA TakenIsLiveNext ==
  ASSUME IInv', NEW d \in Days
  PROVE  TakenOn(d)' = QuantityOn(booking', Live(booking)', d)
<1> DEFINE H == Holding(booking)'
           R == Reserving(booking)'
<1>1. /\ H \in SUBSET Bookings /\ R \in SUBSET Bookings
      /\ Live(booking)' = H \cup R /\ H \cap R = {}
  BY DEF Live, Holding, Reserving, Shared, WithStatus
<1>2. /\ rows'[d].held_rooms = QuantityOn(booking', H, d)
      /\ rows'[d].reserved_rooms = QuantityOn(booking', R, d)
  BY DEF IInv, CountersMatchBookings, QuantityOn, RoomsOn
<1> HIDE DEF H, R
<1>3. QED
  BY <1>1, <1>2, QuantitySum DEF TakenOn

\* More bookings take no fewer rooms.
LEMMA QuantityMonotone ==
  ASSUME NEW bk, NEW S \in SUBSET Bookings, NEW T \in SUBSET Bookings, NEW d, S \subseteq T
  PROVE  QuantityOn(bk, S, d) <= QuantityOn(bk, T, d)
<1>1. /\ T \ S \in SUBSET Bookings
      /\ T = S \cup (T \ S) /\ S \cap (T \ S) = {}
  OBVIOUS
<1>2. QuantityOn(bk, T, d) = QuantityOn(bk, S, d) + QuantityOn(bk, T \ S, d)
  BY <1>1, QuantitySum
<1>3. QuantityOn(bk, S, d) \in Nat /\ QuantityOn(bk, T \ S, d) \in Nat
  BY <1>1, QuantityType
<1>4. QED
  BY <1>2, <1>3

\* A step that keeps the stays of the live bookings and adds to them takes rooms.
LEMMA TakesStep ==
  ASSUME IInv, IInv', NEW d \in Days,
         \A b \in Live(booking) : SameStay(b),
         Live(booking) \subseteq Live(booking)'
  PROVE  TakenOn(d) <= TakenOn(d)'
<1>1. /\ Live(booking) \in SUBSET Bookings /\ Live(booking)' \in SUBSET Bookings
  BY DEF Live, Shared, WithStatus
<1>2. TakenOn(d) = QuantityOn(booking, Live(booking), d)
  BY TakenIsLive
<1>3. TakenOn(d)' = QuantityOn(booking', Live(booking)', d)
  BY TakenIsLiveNext
<1>4. QuantityOn(booking, Live(booking), d) = QuantityOn(booking', Live(booking), d)
  BY <1>1, QuantitySame DEF SameStay
<1>5. QuantityOn(booking', Live(booking), d) <= QuantityOn(booking', Live(booking)', d)
  BY <1>1, QuantityMonotone
<1>6. QED
  BY <1>2, <1>3, <1>4, <1>5, Zenon

\* A step that keeps the stays of those that stay live gives rooms back.
LEMMA GivesBackStep ==
  ASSUME IInv, IInv', NEW d \in Days,
         \A b \in Live(booking)' : SameStay(b),
         Live(booking)' \subseteq Live(booking)
  PROVE  TakenOn(d)' <= TakenOn(d)
<1>1. /\ Live(booking) \in SUBSET Bookings /\ Live(booking)' \in SUBSET Bookings
  BY DEF Live, Shared, WithStatus
<1>2. TakenOn(d) = QuantityOn(booking, Live(booking), d)
  BY TakenIsLive
<1>3. TakenOn(d)' = QuantityOn(booking', Live(booking)', d)
  BY TakenIsLiveNext
<1>4. QuantityOn(booking, Live(booking)', d) = QuantityOn(booking', Live(booking)', d)
  BY <1>1, QuantitySame DEF SameStay
<1>5. QuantityOn(booking, Live(booking)', d) <= QuantityOn(booking, Live(booking), d)
  BY <1>1, QuantityMonotone
<1>6. QED
  BY <1>2, <1>3, <1>4, <1>5, Zenon

-----------------------------------------------------------------------------
(* Each step of the pool is a step of the promise. *)

\* What is taken fits, by the invariant.
LEMMA FittedNext ==
  ASSUME IInv'
  PROVE  Promised!Fitted
<1>1. ASSUME NEW d \in Days
      PROVE  /\ rows'[d].held_rooms + rows'[d].reserved_rooms \in Nat
             /\ rows'[d].total_rooms \in Nat
             /\ rows'[d].held_rooms + rows'[d].reserved_rooms <= rows'[d].total_rooms
  BY DEF IInv, TypeOK, CommittedWithinTotal, Row
<1>2. QED
  BY <1>1 DEF Promised!Fitted, Promised!Fits, Days

\* A booking that changes alone changes its life alone.
LEMMA LifeStep ==
  ASSUME NEW b \in Bookings, NEW l, LifeOf(booking'[b].status) = l,
         \A x \in Bookings \ {b} : booking'[x].status = booking[x].status
  PROVE  Promised!Becomes(b, l)
BY DEF Promised!Becomes, LifeOf

\* Whoever begins to stay takes rooms, those who end give them back, and a step
\* that leaves the live bookings and their stays alone leaves the rooms alone.
LEMMA TakesNext ==
  ASSUME IInv, IInv',
         \A b \in Live(booking) : SameStay(b),
         Live(booking) \subseteq Live(booking)'
  PROVE  Promised!Takes
<1>1. \A d \in Days : TakenOn(d) <= TakenOn(d)'
  BY TakesStep
<1>2. QED
  BY <1>1 DEF Promised!Takes, TakenOn, Days

LEMMA GivesBackNext ==
  ASSUME IInv, IInv',
         \A b \in Live(booking)' : SameStay(b),
         Live(booking)' \subseteq Live(booking)
  PROVE  Promised!GivesBack
<1>1. \A d \in Days : TakenOn(d)' <= TakenOn(d)
  BY GivesBackStep
<1>2. QED
  BY <1>1 DEF Promised!GivesBack, TakenOn, Days

LEMMA KeepsNext ==
  ASSUME IInv, IInv',
         \A b \in Live(booking) : SameStay(b),
         Live(booking)' = Live(booking)
  PROVE  Promised!Keeps
<1>1. \A d \in Days : TakenOn(d) <= TakenOn(d)' /\ TakenOn(d)' <= TakenOn(d)
  BY TakesStep, GivesBackStep
<1>2. \A d \in Days : TakenOn(d) \in Int /\ TakenOn(d)' \in Int
  BY DEF IInv, TypeOK, Row, TakenOn
<1>3. \A d \in Days : TakenOn(d)' = TakenOn(d)
  BY <1>1, <1>2
<1>4. QED
  BY <1>3 DEF Promised!Keeps, TakenOn, Days

\* A booking that is placed begins.
LEMMA PlaceKeeps ==
  ASSUME IInv, IInv', NEW b \in Bookings, NEW new, NEW reconcile,
         PlaceBooking(b, new, reconcile),
         new.status \in {"PENDING_PAYMENT", "CONFIRMED", "CHECKED_IN"}
  PROVE  Promised!Begin(b)
<1>1. /\ booking \in [Bookings -> Booking] /\ inventory_mode' = inventory_mode
      /\ booking' = [booking EXCEPT ![b] = new]
      /\ booking[b].status = "NOT_CREATED"
  BY DEF PlaceBooking, IInv, TypeOK, hotelVars
<1>2. \A x \in Live(booking) : x \in Bookings \ {b}
  BY <1>1 DEF Live, Shared, WithStatus
<1>3. \A x \in Live(booking) : SameStay(x) /\ x \in Live(booking)'
  BY <1>1, <1>2 DEF SameStay, Live, Shared, WithStatus, UsesSharedDailyInventory
<1>4. Promised!Takes
  BY <1>3, TakesNext
<1>5. \E l \in {"WAITING", "BOOKED", "STAYING"} : LifeOf(booking'[b].status) = l
  BY <1>1 DEF LifeOf
<1>6. PICK l \in {"WAITING", "BOOKED", "STAYING"} : LifeOf(booking'[b].status) = l
  BY <1>5
<1>7. Promised!Becomes(b, l)
  BY <1>1, <1>6, LifeStep
<1>8. LifeOf(booking[b].status) = "NONE"
  BY <1>1 DEF LifeOf
<1>9. QED
  BY <1>4, <1>6, <1>7, <1>8 DEF Promised!Begin

\* Every way to make a booking places one.
LEMMA NewBookingsKeep ==
  ASSUME IInv, IInv', NewBookings
  PROVE  \E b \in Bookings : Promised!Begin(b)
<1>1. PICK b \in Bookings, new \in Booking, reconcile \in BOOLEAN :
        /\ PlaceBooking(b, new, reconcile)
        /\ new.status \in {"PENDING_PAYMENT", "CONFIRMED", "CHECKED_IN"}
        /\ new.quantity >= 1
  BY NewBookingsPlace DEF IInv
<1>2. QED
  BY <1>1, PlaceKeeps

\* A single booking moves on in its life.
LEMMA BookingStepsKeep ==
  ASSUME IInv, IInv', NEW b \in Bookings,
         RecordPayment(b) \/ CancelBooking(b) \/ CheckIn(b) \/ CheckOut(b) \/ RestoreNoShow(b)
  PROVE  \/ Promised!Pay(b) \/ Promised!Arrive(b) \/ Promised!Cancel(b)
         \/ Promised!Leave(b) \/ Promised!Restore(b) \/ Promised!Resize
<1>1. /\ booking \in [Bookings -> Booking] /\ inventory_mode' = inventory_mode
      /\ \A x \in Bookings : SameStay(x)
      /\ \A x \in Bookings \ {b} : booking'[x].status = booking[x].status
  <2>1. booking \in [Bookings -> Booking]
    BY DEF IInv, TypeOK
  <2>2. inventory_mode' = inventory_mode
    BY DEF RecordPayment, CancelBooking, CheckIn, CheckOut, RestoreNoShow, bookingOnly, hotelVars
  <2>3. \E status, hold, paid :
          booking' = [booking EXCEPT ![b] = [booking[b] EXCEPT !.status = status,
                                                !.hold_expires_at = hold, !.paid = paid]]
    <3> DEFINE Changed(status, hold, paid) ==
                 [booking EXCEPT ![b] = [booking[b] EXCEPT !.status = status,
                                            !.hold_expires_at = hold, !.paid = paid]]
    <3>1. CASE RecordPayment(b)
      <4>1. CASE booking[b].status = "PENDING_PAYMENT"
        <5>1. booking' = Changed("CONFIRMED", NoHold, TRUE)
          BY <2>1, <3>1, <4>1 DEF RecordPayment, Booking
        <5>2. QED
          BY <5>1
      <4>2. CASE booking[b].status # "PENDING_PAYMENT"
        <5>1. booking' = Changed(booking[b].status, booking[b].hold_expires_at, TRUE)
          BY <2>1, <3>1, <4>2 DEF RecordPayment, Booking
        <5>2. QED
          BY <5>1
      <4>3. QED
        BY <4>1, <4>2
    <3>2. CASE CancelBooking(b)
      <4>1. booking' = Changed("CANCELED", NoHold, booking[b].paid)
        BY <2>1, <3>2 DEF CancelBooking, Booking
      <4>2. QED
        BY <4>1
    <3>3. CASE CheckIn(b)
      <4>1. booking' = Changed("CHECKED_IN", booking[b].hold_expires_at, booking[b].paid)
        BY <2>1, <3>3 DEF CheckIn, Booking
      <4>2. QED
        BY <4>1
    <3>4. CASE CheckOut(b)
      <4>1. booking' = Changed("CHECKED_OUT", booking[b].hold_expires_at, booking[b].paid)
        BY <2>1, <3>4 DEF CheckOut, Booking
      <4>2. QED
        BY <4>1
    <3>5. CASE RestoreNoShow(b)
      <4>1. booking' = Changed("CONFIRMED", NoHold, booking[b].paid)
        BY <2>1, <3>5 DEF RestoreNoShow, Booking
      <4>2. QED
        BY <4>1
    <3>6. QED
      BY <3>1, <3>2, <3>3, <3>4, <3>5
  <2>4. QED
    BY <2>1, <2>2, <2>3 DEF Booking, SameStay
<1>2. \A x \in Bookings \ {b} : x \in Live(booking)' <=> x \in Live(booking)
  BY <1>1 DEF Live, Shared, WithStatus, UsesSharedDailyInventory, SameStay
<1>3. /\ Live(booking) \in SUBSET Bookings /\ Live(booking)' \in SUBSET Bookings
      /\ \A x \in Live(booking) \cup Live(booking)' : SameStay(x)
  BY <1>1 DEF Live, Shared, WithStatus
<1>4. ASSUME booking[b].status \in {"PENDING_PAYMENT", "CONFIRMED", "CHECKED_IN"},
             booking'[b].status \in {"PENDING_PAYMENT", "CONFIRMED", "CHECKED_IN"}
      PROVE  Promised!Keeps
  <2>1. b \in Live(booking)' <=> b \in Live(booking)
    BY <1>1, <1>4 DEF Live, Shared, WithStatus, UsesSharedDailyInventory, SameStay
  <2>2. Live(booking)' = Live(booking)
    BY <1>2, <1>3, <2>1
  <2>3. QED
    BY <1>3, <2>2, KeepsNext
<1>5. ASSUME booking'[b].status \notin {"PENDING_PAYMENT", "CONFIRMED", "CHECKED_IN"}
      PROVE  Promised!GivesBack
  <2>1. b \notin Live(booking)'
    BY <1>5 DEF Live, Shared, WithStatus
  <2>2. Live(booking)' \subseteq Live(booking)
    BY <1>2, <1>3, <2>1
  <2>3. QED
    BY <1>3, <2>2, GivesBackNext
<1>6. CASE RecordPayment(b)
  <2>1. CASE booking[b].status = "PENDING_PAYMENT"
    <3>1. booking'[b].status = "CONFIRMED"
      BY <1>1, <1>6, <2>1 DEF RecordPayment, Booking
    <3>2. Promised!Becomes(b, "BOOKED")
      BY <1>1, <3>1, LifeStep DEF LifeOf
    <3>3. Promised!Pay(b)
      BY <1>4, <2>1, <3>1, <3>2 DEF Promised!Pay, LifeOf
    <3>4. QED
      BY <3>3
  <2>2. CASE booking[b].status # "PENDING_PAYMENT"
    <3>1. rows' = rows /\ \A x \in Bookings : booking'[x].status = booking[x].status
      BY <1>1, <1>6, <2>2 DEF RecordPayment, Booking
    <3>2. QED
      BY <3>1 DEF Promised!Resize, Promised!Keeps
  <2>3. QED
    BY <2>1, <2>2
<1>7. CASE CancelBooking(b)
  <2>1. /\ booking[b].status \in {"PENDING_PAYMENT", "CONFIRMED"}
        /\ booking'[b].status = "CANCELED"
    BY <1>1, <1>7 DEF CancelBooking, Booking
  <2>2. Promised!Becomes(b, "CANCELED")
    BY <1>1, <2>1, LifeStep DEF LifeOf
  <2>3. Promised!Cancel(b)
    BY <1>5, <2>1, <2>2 DEF Promised!Cancel, LifeOf
  <2>4. QED
    BY <2>3
<1>8. CASE CheckIn(b)
  <2>1. booking[b].status = "CONFIRMED" /\ booking'[b].status = "CHECKED_IN"
    BY <1>1, <1>8 DEF CheckIn, Booking
  <2>2. Promised!Becomes(b, "STAYING")
    BY <1>1, <2>1, LifeStep DEF LifeOf
  <2>3. Promised!Arrive(b)
    BY <1>4, <2>1, <2>2 DEF Promised!Arrive, LifeOf
  <2>4. QED
    BY <2>3
<1>9. CASE CheckOut(b)
  <2>1. booking[b].status = "CHECKED_IN" /\ booking'[b].status = "CHECKED_OUT"
    BY <1>1, <1>9 DEF CheckOut, Booking
  <2>2. Promised!Becomes(b, "GONE")
    BY <1>1, <2>1, LifeStep DEF LifeOf
  <2>3. Promised!Leave(b)
    BY <1>5, <2>1, <2>2 DEF Promised!Leave, LifeOf
  <2>4. QED
    BY <2>3
<1>10. CASE RestoreNoShow(b)
  <2>1. booking[b].status = "CANCELED" /\ booking'[b].status = "CONFIRMED"
    BY <1>1, <1>10 DEF RestoreNoShow, Booking
  <2>2. Promised!Becomes(b, "BOOKED")
    BY <1>1, <2>1, LifeStep DEF LifeOf
  <2>3. b \notin Live(booking)
    BY <2>1 DEF Live, Shared, WithStatus
  <2>4. Live(booking) \subseteq Live(booking)'
    BY <1>2, <1>3, <2>3
  <2>5. Promised!Takes
    BY <1>3, <2>4, TakesNext
  <2>6. Promised!Restore(b)
    BY <2>1, <2>2, <2>5 DEF Promised!Restore, LifeOf
  <2>7. QED
    BY <2>6
<1>11. QED
  BY <1>6, <1>7, <1>8, <1>9, <1>10

\* The expiry job and a revocation end waiting bookings together.
LEMMA ExpiryKeeps ==
  ASSUME IInv, IInv', NEW S \in SUBSET WithStatus(booking, {"PENDING_PAYMENT"}),
         inventory_mode' = inventory_mode,
         \A b \in Bookings : SameStay(b),
         \A b \in S : booking'[b].status = "EXPIRED",
         \A b \in Bookings \ S : booking'[b].status = booking[b].status
  PROVE  Promised!Expire
<1>1. Live(booking)' \subseteq Live(booking)
  BY DEF Live, Shared, WithStatus, UsesSharedDailyInventory, SameStay
<1>2. \A b \in Live(booking)' : SameStay(b)
  BY DEF Live, Shared, WithStatus
<1>3. Promised!GivesBack
  BY <1>1, <1>2, GivesBackNext
<1>4. S \in SUBSET {b \in Bookings : LifeNow[b] = "WAITING"}
  BY DEF WithStatus, LifeOf, LifeNow
<1>5. LifeNow' = [b \in Bookings |-> IF b \in S THEN "GONE" ELSE LifeNow[b]]
  BY DEF WithStatus, LifeOf, LifeNow
<1>6. QED
  BY <1>3, <1>4, <1>5 DEF Promised!Expire, LifeNow

\* What the hotel edits, and time, leave the bookings alone.
LEMMA ResizeKeeps ==
  ASSUME IInv, IInv', UNCHANGED <<booking, inventory_mode>>
  PROVE  Promised!Resize
<1>1. /\ Live(booking)' = Live(booking)
      /\ \A b \in Live(booking) : SameStay(b)
  BY DEF Live, Shared, WithStatus, UsesSharedDailyInventory, SameStay
<1>2. Promised!Keeps
  BY <1>1, KeepsNext
<1>3. QED
  BY <1>2 DEF Promised!Resize

-----------------------------------------------------------------------------
(* The refinement. *)

\* The pool starts as the promise does.
LEMMA InitKeeps == Init => Promised!PromiseInit
<1> SUFFICES ASSUME Init
             PROVE  Promised!PromiseInit
  OBVIOUS
<1>1. IInv
  BY InitInv
<1>2. \A b \in Bookings : LifeOf(booking[b].status) = "NONE"
  BY DEF Init, NotCreated, LifeOf
<1>3. \A d \in Days : rows[d].held_rooms = 0 /\ rows[d].reserved_rooms = 0
  BY DEF Init, MissingRow
<1>4. \A d \in Days : rows[d].total_rooms \in Nat
  BY <1>1 DEF IInv, TypeOK, Row
<1>5. QED
  BY <1>2, <1>3, <1>4 DEF Promised!PromiseInit, Days

\* Expiry and a revoked hotel end holds; the hotel's edits, the nightly job and
\* time leave the bookings alone.
LEMMA NextRests ==
  ASSUME IInv, IInv', [Next]_vars, ~NewBookings, ~BookingSteps
  PROVE  Promised!Resize \/ Promised!Expire
<1>1. CASE HotelEdits \/ EnsureRollingDailyInventory \/ Tick \/ UNCHANGED vars
  <2>1. UNCHANGED <<booking, inventory_mode>>
    BY <1>1 DEF HotelEdits, EnsureRollingDailyInventory, Tick, vars, hotelVars,
                UpdatePhysicalRooms, UpdateRoomBlock, UpdateClosure, SyncBusinessFromCore,
                PutCountInventory, BulkUpsert
  <2>2. QED
    BY <2>1, ResizeKeeps
<1>2. CASE ExpirePendingBookings
  <2>1. booking \in [Bookings -> Booking]
    BY DEF IInv, TypeOK
  <2>2. /\ Overdue \in SUBSET WithStatus(booking, {"PENDING_PAYMENT"})
        /\ inventory_mode' = inventory_mode
        /\ \A b \in Bookings : SameStay(b)
        /\ \A b \in Overdue : booking'[b].status = "EXPIRED"
        /\ \A b \in Bookings \ Overdue : booking'[b].status = booking[b].status
    BY <1>2, <2>1 DEF ExpirePendingBookings, Overdue, WithStatus, bookingOnly, hotelVars,
                      SameStay, Booking
  <2> HIDE DEF Overdue
  <2>3. QED
    BY <2>2, ExpiryKeeps
<1>3. CASE DeprovisionHotel
  <2> DEFINE P == WithStatus(booking, {"PENDING_PAYMENT"})
  <2>1. booking \in [Bookings -> Booking]
    BY DEF IInv, TypeOK
  <2>2. /\ P \in SUBSET Bookings
        /\ inventory_mode' = inventory_mode
        /\ booking' = [b \in Bookings |->
                         IF b \in P
                         THEN [booking[b] EXCEPT !.status = "EXPIRED", !.hold_expires_at = NoHold]
                         ELSE booking[b]]
    BY <1>3 DEF DeprovisionHotel, WithStatus
  <2> HIDE DEF P
  <2>3. /\ \A b \in Bookings : SameStay(b)
        /\ \A b \in P : booking'[b].status = "EXPIRED"
        /\ \A b \in Bookings \ P : booking'[b].status = booking[b].status
    BY <2>1, <2>2 DEF SameStay, Booking
  <2>4. QED
    BY <2>2, <2>3, ExpiryKeeps DEF P
<1>4. QED
  BY <1>1, <1>2, <1>3 DEF Next

\* Every step of the pool is one of the promise, or leaves it as it is.
LEMMA NextKeeps ==
  ASSUME IInv, IInv', [Next]_vars
  PROVE  [Promised!PromiseNext]_(Promised!promiseVars)
<1>1. Promised!Fitted
  BY FittedNext
<1>2. CASE NewBookings
  BY <1>1, <1>2, NewBookingsKeep DEF Promised!PromiseNext
<1>3. CASE BookingSteps
  <2>1. PICK b \in Bookings :
          RecordPayment(b) \/ CancelBooking(b) \/ CheckIn(b) \/ CheckOut(b) \/ RestoreNoShow(b)
    BY <1>3 DEF BookingSteps
  <2>2. QED
    BY <1>1, <2>1, BookingStepsKeep DEF Promised!PromiseNext
<1>4. CASE ~NewBookings /\ ~BookingSteps
  BY <1>1, <1>4, NextRests DEF Promised!PromiseNext
<1>5. QED
  BY <1>2, <1>3, <1>4

\* The counters of the pool implement the promise: bookings go through their
\* lives in order, rooms come and go with bookings only, and what is taken fits.
THEOREM PromiseKept == Spec => KeepsPromise
<1>1. Init => Promised!PromiseInit
  BY InitKeeps
<1>2. IInv /\ IInv' /\ [Next]_vars => [Promised!PromiseNext]_(Promised!promiseVars)
  BY NextKeeps
<1>3. QED
  BY <1>1, <1>2, Invariance, PTL DEF Spec, KeepsPromise, Promised!Promise

-----------------------------------------------------------------------------
(* Rooms are given only where they are open. *)

\* A booking placed takes rooms on the nights of its stay alone, within what
\* their rows leave open.
LEMMA PlaceOpens ==
  ASSUME IInv, IInv', NEW b \in Bookings, NEW new, NEW reconcile \in BOOLEAN,
         new.quantity \in Nat \ {0}, PlaceBooking(b, new, reconcile),
         NEW d \in Days, TakenOn(d)' > TakenOn(d)
  PROVE  TakenOn(d)' + rows'[d].closed_rooms <= rows'[d].total_rooms /\ ~rows'[d].stop_sell
<1> DEFINE shared == UsesSharedDailyInventory(new.source, new.inventory_mode)
           o == Opened(new, reconcile, d)
           n == IF shared THEN new.quantity ELSE 0
<1>1. rows'[d] = IF d \in Nights(new) THEN Took(o, new.status, n) ELSE rows[d]
  BY DEF PlaceBooking, Opened
<1>2. shared /\ d \in Nights(new) => AvailableRooms(o) >= new.quantity
  BY DEF PlaceBooking, Opened
<1>3. /\ o \in Row
      /\ o.held_rooms = rows[d].held_rooms /\ o.reserved_rooms = rows[d].reserved_rooms
  BY OpenedRow
<1> HIDE DEF o, shared
<1>4. /\ o.held_rooms \in Nat /\ o.reserved_rooms \in Nat
      /\ o.total_rooms \in Nat /\ o.closed_rooms \in Nat /\ o.stop_sell \in BOOLEAN
  BY <1>3 DEF Row
<1>5. /\ TakenOn(d)' = rows'[d].held_rooms + rows'[d].reserved_rooms
      /\ TakenOn(d) = o.held_rooms + o.reserved_rooms
  BY <1>3 DEF TakenOn
<1>6. d \in Nights(new)
  BY <1>1, <1>3, <1>4, <1>5
<1>7. /\ Took(o, new.status, n).held_rooms + Took(o, new.status, n).reserved_rooms
           = o.held_rooms + o.reserved_rooms + n
      /\ Took(o, new.status, n).closed_rooms = o.closed_rooms
      /\ Took(o, new.status, n).total_rooms = o.total_rooms
      /\ Took(o, new.status, n).stop_sell = o.stop_sell
  <2>1. n \in Nat
    OBVIOUS
  <2> HIDE DEF n
  <2>2. CASE new.status = "PENDING_PAYMENT"
    <3>1. Took(o, new.status, n) = [o EXCEPT !.held_rooms = o.held_rooms + n]
      BY <2>2 DEF Took
    <3>2. QED
      BY <1>3, <1>4, <2>1, <3>1 DEF Row
  <2>3. CASE new.status # "PENDING_PAYMENT"
    <3>1. Took(o, new.status, n) = [o EXCEPT !.reserved_rooms = o.reserved_rooms + n]
      BY <2>3 DEF Took
    <3>2. QED
      BY <1>3, <1>4, <2>1, <3>1 DEF Row
  <2>4. QED
    BY <2>2, <2>3
<1>8. TakenOn(d)' = o.held_rooms + o.reserved_rooms + n
  BY <1>1, <1>5, <1>6, <1>7
<1>9. shared
  BY <1>4, <1>5, <1>8
<1>10. AvailableRooms(o) >= new.quantity /\ n = new.quantity
  BY <1>2, <1>6, <1>9
<1>11. ~o.stop_sell /\ o.held_rooms + o.reserved_rooms + new.quantity + o.closed_rooms <= o.total_rooms
  BY <1>4, <1>10 DEF AvailableRooms, MaxOf
<1>12. QED
  BY <1>1, <1>6, <1>7, <1>8, <1>10, <1>11

\* So does every new booking.
LEMMA NewBookingsOpen ==
  ASSUME IInv, IInv', NewBookings, NEW d \in Days, TakenOn(d)' > TakenOn(d)
  PROVE  TakenOn(d)' + rows'[d].closed_rooms <= rows'[d].total_rooms /\ ~rows'[d].stop_sell
<1>1. PICK b \in Bookings, new \in Booking, reconcile \in BOOLEAN :
        /\ PlaceBooking(b, new, reconcile)
        /\ new.status \in {"PENDING_PAYMENT", "CONFIRMED", "CHECKED_IN"}
        /\ new.quantity >= 1
  BY NewBookingsPlace DEF IInv
<1>2. new.quantity \in Nat \ {0}
  BY <1>1, BoundsAssumption DEF Booking
<1>3. QED
  BY <1>1, <1>2, PlaceOpens

\* Nothing else takes rooms but restoring a no-show.
LEMMA OthersTakeNothing ==
  ASSUME IInv, IInv', [Next]_vars, ~NewBookings
  PROVE  \/ \A d \in Days : TakenOn(d)' <= TakenOn(d)
         \/ \E b \in Bookings : booking[b].status = "CANCELED" /\ booking'[b].status = "CONFIRMED"
<1>1. Promised!Keeps \/ Promised!GivesBack => \A d \in Days : TakenOn(d)' <= TakenOn(d)
  <2>1. \A d \in Days : TakenOn(d) \in Int
    BY DEF IInv, TypeOK, Row, TakenOn
  <2>2. QED
    BY <2>1 DEF Promised!Keeps, Promised!GivesBack, TakenOn, Days
<1>2. ASSUME NEW b \in Bookings, Promised!Restore(b)
      PROVE  booking[b].status = "CANCELED" /\ booking'[b].status = "CONFIRMED"
  <2>1. LifeOf(booking[b].status) = "CANCELED" /\ LifeOf(booking'[b].status) = "BOOKED"
    BY <1>2 DEF Promised!Restore, Promised!Becomes
  <2>2. QED
    BY <2>1 DEF LifeOf
<1>3. CASE BookingSteps
  <2>1. PICK b \in Bookings :
          RecordPayment(b) \/ CancelBooking(b) \/ CheckIn(b) \/ CheckOut(b) \/ RestoreNoShow(b)
    BY <1>3 DEF BookingSteps
  <2>2. QED
    BY <1>1, <1>2, <2>1, BookingStepsKeep
       DEF Promised!Pay, Promised!Arrive, Promised!Cancel, Promised!Leave, Promised!Resize
<1>4. CASE ~BookingSteps
  <2>1. Promised!Resize \/ Promised!Expire
    BY <1>4, NextRests
  <2>2. QED
    BY <1>1, <2>1 DEF Promised!Resize, Promised!Expire
<1>5. QED
  BY <1>3, <1>4

\* A step takes rooms on a night within what is open of them, or restores a no-show.
LEMMA SalesAreOpen ==
  ASSUME IInv, IInv', [Next]_vars, NEW d \in Days, Taken(booking, d)' > Taken(booking, d)
  PROVE  \/ /\ Taken(booking, d)' + rows'[d].closed_rooms <= rows'[d].total_rooms
            /\ ~rows'[d].stop_sell
         \/ \E b \in Bookings : booking[b].status = "CANCELED" /\ booking'[b].status = "CONFIRMED"
<1>1. Taken(booking, d) = TakenOn(d)
  <2>1. Holding(booking) \cup Reserving(booking) = Live(booking)
    BY DEF Live, Holding, Reserving, Shared, WithStatus
  <2>2. QED
    BY <2>1, TakenIsLive DEF Taken
<1>2. Taken(booking, d)' = TakenOn(d)'
  <2>1. Holding(booking)' \cup Reserving(booking)' = Live(booking)'
    BY DEF Live, Holding, Reserving, Shared, WithStatus
  <2>2. Taken(booking, d)' = QuantityOn(booking', Holding(booking)' \cup Reserving(booking)', d)
    BY DEF Taken, QuantityOn, RoomsOn
  <2>3. QED
    BY <2>1, <2>2, TakenIsLiveNext
<1>3. TakenOn(d)' > TakenOn(d) /\ TakenOn(d) \in Int /\ TakenOn(d)' \in Int
  <2>1. TakenOn(d) \in Int /\ TakenOn(d)' \in Int
    BY DEF IInv, TypeOK, Row, TakenOn
  <2>2. QED
    BY <1>1, <1>2, <2>1
<1>4. CASE NewBookings
  BY <1>2, <1>3, <1>4, NewBookingsOpen
<1>5. CASE ~NewBookings
  BY <1>3, <1>5, OthersTakeNothing
<1>6. QED
  BY <1>4, <1>5

\* Rooms are given only to new bookings, out of what the row of each night leaves
\* open of its total, or back to a no-show that is restored: _lock_inventory and
\* the check of create_booking leave no other way to oversell a night.
THEOREM OnlyOpenSold == Spec => OnlySellsOpenRooms
<1>1. IInv /\ IInv' /\ [Next]_vars =>
        [\A d \in Days : Taken(booking, d)' > Taken(booking, d) =>
           \/ /\ Taken(booking, d)' + rows'[d].closed_rooms <= rows'[d].total_rooms
              /\ ~rows'[d].stop_sell
           \/ \E b \in Bookings : booking[b].status = "CANCELED" /\ booking'[b].status = "CONFIRMED"]_vars
  BY SalesAreOpen
<1>2. QED
  BY <1>1, Invariance, PTL DEF Spec, OnlySellsOpenRooms
-----------------------------------------------------------------------------
(* Nothing that was taken is refused when it is given back. *)

\* Bookings that counters stand for never ask for more than those counters hold.
LEMMA ExactReleases ==
  ASSUME NEW S \in SUBSET Bookings, NEW d \in Days,
         rows[d].held_rooms = QuantityOn(booking, Holding(booking), d),
         rows[d].reserved_rooms = QuantityOn(booking, Reserving(booking), d)
  PROVE  /\ rows[d].held_rooms >= QuantityOn(booking, S \cap Holding(booking), d)
         /\ rows[d].reserved_rooms >= QuantityOn(booking, S \cap Reserving(booking), d)
<1>1. /\ Holding(booking) \in SUBSET Bookings /\ Reserving(booking) \in SUBSET Bookings
      /\ S \cap Holding(booking) \in SUBSET Bookings
      /\ S \cap Reserving(booking) \in SUBSET Bookings
  BY CountedType
<1>2. /\ QuantityOn(booking, S \cap Holding(booking), d) <= QuantityOn(booking, Holding(booking), d)
      /\ QuantityOn(booking, S \cap Reserving(booking), d) <= QuantityOn(booking, Reserving(booking), d)
  BY <1>1, QuantityMonotone
<1>3. /\ QuantityOn(booking, S \cap Holding(booking), d) \in Nat
      /\ QuantityOn(booking, S \cap Reserving(booking), d) \in Nat
      /\ rows[d].held_rooms \in Nat /\ rows[d].reserved_rooms \in Nat
  BY <1>1, QuantityType
<1>4. QED
  BY <1>2, <1>3

\* "Inventory state is inconsistent." is never raised: any bookings can be
\* canceled, expired, checked out or paid, alone or together.  The guard that
\* gives up on an expiry never stands in its way, which is what the fairness of
\* the expiry job rests on.
THEOREM NothingRefused == Spec => [](\A S \in SUBSET Bookings : CanRelease(S))
<1>1. IInv => \A S \in SUBSET Bookings : CanRelease(S)
  BY ExactReleases DEF IInv, CountersMatchBookings, CanRelease
<1>2. QED
  BY <1>1, Invariance, PTL

-----------------------------------------------------------------------------
(* Two inventories over the same rows. *)

\* The counters of night d stand for the bookings of the hotel's mode.
Exact(d) ==
  /\ rows[d].held_rooms = QuantityOn(booking, Holding(booking), d)
  /\ rows[d].reserved_rooms = QuantityOn(booking, Reserving(booking), d)

\* Confirmed from the house's own rooms, and maybe more since.
WasConfirmed(b) ==
  /\ booking[b].inventory_mode = "PHYSICAL_ROOM"
  /\ booking[b].status \in {"CONFIRMED", "CHECKED_IN", "CHECKED_OUT", "CANCELED"}

\* What the no-show job has read was, and nothing becomes pending again.
NoShowsConfirmed == \A b \in no_shows : WasConfirmed(b)

\* The room type stays on sale, and an allotment that a switch found unset is
\* still empty.
UnsetMeansEmpty ==
  /\ selling
  /\ switches > 0 /\ ~configured /\ inventory_mode = "ROOM_TYPE_COUNT" => count_inventory = 0

\* The inductive invariant.
SiloInv == CountersFollowMode /\ NoShowsConfirmed /\ UnsetMeansEmpty

\* What a step must show of the rows and the bookings, night by night.
NightsFollow ==
  /\ rows' \in [Days -> Row]
  /\ \A d \in Days : Exact(d) => Exact(d)'

\* What a step of the pool must show.
PoolFollows ==
  /\ TypeOK'
  /\ NightsFollow
  /\ \A b \in Bookings : WasConfirmed(b) => WasConfirmed(b)'
  /\ UNCHANGED <<inventory_mode, access, count_inventory>>

\* A count is that of the bookings C and that of the others.
LEMMA QuantityApart ==
  ASSUME NEW bk, NEW S \in SUBSET Bookings, NEW C \in SUBSET Bookings, NEW d
  PROVE  /\ QuantityOn(bk, S, d) = QuantityOn(bk, S \ C, d) + QuantityOn(bk, C \cap S, d)
         /\ QuantityOn(bk, S \ C, d) \in Nat
         /\ QuantityOn(bk, C \cap S, d) \in Nat
<1>1. /\ S = (S \ C) \cup (C \cap S) /\ (S \ C) \cap (C \cap S) = {}
      /\ S \ C \in SUBSET Bookings /\ C \cap S \in SUBSET Bookings
  OBVIOUS
<1>2. QuantityOn(bk, S, d) = QuantityOn(bk, S \ C, d) + QuantityOn(bk, C \cap S, d)
  BY <1>1, QuantitySum
<1>3. QED
  BY <1>1, <1>2, QuantityType

\* The counters of a night follow, when they change by the rooms of the bookings
\* that change.
LEMMA NightStep ==
  ASSUME NEW C \in SUBSET Bookings, NEW d \in Days, Exact(d), inventory_mode' = inventory_mode,
         \A b \in Bookings \ C : SameStay(b) /\ booking'[b].status = booking[b].status,
         rows[d].held_rooms \in Int, rows[d].reserved_rooms \in Int,
         rows'[d].held_rooms = rows[d].held_rooms
                                 - QuantityOn(booking, C \cap Holding(booking), d)
                                 + QuantityOn(booking', C \cap Holding(booking)', d),
         rows'[d].reserved_rooms = rows[d].reserved_rooms
                                 - QuantityOn(booking, C \cap Reserving(booking), d)
                                 + QuantityOn(booking', C \cap Reserving(booking)', d)
  PROVE  Exact(d)'
<1> DEFINE H == Holding(booking)
           R == Reserving(booking)
           HN == Holding(booking)'
           RN == Reserving(booking)'
<1>1. /\ H \in SUBSET Bookings /\ R \in SUBSET Bookings
      /\ HN \in SUBSET Bookings /\ RN \in SUBSET Bookings
      /\ H \ C = HN \ C /\ R \ C = RN \ C
  BY DEF Holding, Reserving, Shared, WithStatus, UsesSharedDailyInventory, SameStay
<1>2. \A b \in (H \cup R) \ C : /\ booking[b].quantity = booking'[b].quantity
                                /\ booking[b].check_in = booking'[b].check_in
                                /\ booking[b].check_out = booking'[b].check_out
  BY <1>1 DEF SameStay
<1>3. /\ rows[d].held_rooms = QuantityOn(booking, H, d)
      /\ rows[d].reserved_rooms = QuantityOn(booking, R, d)
  BY DEF Exact
<1>4. /\ rows'[d].held_rooms = rows[d].held_rooms - QuantityOn(booking, C \cap H, d)
                                 + QuantityOn(booking', C \cap HN, d)
      /\ rows'[d].reserved_rooms = rows[d].reserved_rooms - QuantityOn(booking, C \cap R, d)
                                 + QuantityOn(booking', C \cap RN, d)
  OBVIOUS
<1> HIDE DEF H, R, HN, RN
<1>5. rows'[d].held_rooms = QuantityOn(booking', HN, d)
  <2>1. QuantityOn(booking', HN \ C, d) = QuantityOn(booking, H \ C, d)
    <3>1. H \ C \in SUBSET Bookings
      BY <1>1
    <3>2. QuantityOn(booking', H \ C, d) = QuantityOn(booking, H \ C, d)
      BY <1>2, <3>1, QuantitySame
    <3>3. QED
      BY <1>1, <3>2
  <2>2. /\ QuantityOn(booking, H, d) = QuantityOn(booking, H \ C, d) + QuantityOn(booking, C \cap H, d)
        /\ QuantityOn(booking, H \ C, d) \in Nat
        /\ QuantityOn(booking, C \cap H, d) \in Nat
    BY <1>1, QuantityApart
  <2>3. /\ QuantityOn(booking', HN, d) = QuantityOn(booking', HN \ C, d) + QuantityOn(booking', C \cap HN, d)
        /\ QuantityOn(booking', HN \ C, d) \in Nat
        /\ QuantityOn(booking', C \cap HN, d) \in Nat
    BY <1>1, QuantityApart
  <2>4. QED
    BY <1>3, <1>4, <2>1, <2>2, <2>3
<1>6. rows'[d].reserved_rooms = QuantityOn(booking', RN, d)
  <2>1. QuantityOn(booking', RN \ C, d) = QuantityOn(booking, R \ C, d)
    <3>1. R \ C \in SUBSET Bookings
      BY <1>1
    <3>2. QuantityOn(booking', R \ C, d) = QuantityOn(booking, R \ C, d)
      BY <1>2, <3>1, QuantitySame
    <3>3. QED
      BY <1>1, <3>2
  <2>2. /\ QuantityOn(booking, R, d) = QuantityOn(booking, R \ C, d) + QuantityOn(booking, C \cap R, d)
        /\ QuantityOn(booking, R \ C, d) \in Nat
        /\ QuantityOn(booking, C \cap R, d) \in Nat
    BY <1>1, QuantityApart
  <2>3. /\ QuantityOn(booking', RN, d) = QuantityOn(booking', RN \ C, d) + QuantityOn(booking', C \cap RN, d)
        /\ QuantityOn(booking', RN \ C, d) \in Nat
        /\ QuantityOn(booking', C \cap RN, d) \in Nat
    BY <1>1, QuantityApart
  <2>4. QED
    BY <1>3, <1>4, <2>1, <2>2, <2>3
<1>7. /\ Exact(d)' <=> /\ rows'[d].held_rooms = QuantityOn(booking', HN, d)
                       /\ rows'[d].reserved_rooms = QuantityOn(booking', RN, d)
  BY DEF Exact, HN, RN, QuantityOn, RoomsOn
<1>8. QED
  BY <1>5, <1>6, <1>7

\* Giving rooms back leaves rows with what is left on the counters.
LEMMA ReleasedRow ==
  ASSUME rows \in [Days -> Row], NEW S \in SUBSET Bookings, CanRelease(S), NEW d \in Days
  PROVE  LET r == Released(S)[d]
         IN  /\ r \in Row
             /\ r.held_rooms = rows[d].held_rooms - QuantityOn(booking, S \cap Holding(booking), d)
             /\ r.reserved_rooms = rows[d].reserved_rooms
                                     - QuantityOn(booking, S \cap Reserving(booking), d)
<1> DEFINE h == QuantityOn(booking, S \cap Holding(booking), d)
           r == QuantityOn(booking, S \cap Reserving(booking), d)
<1>1. rows[d] \in Row /\ h \in Nat /\ r \in Nat
  BY QuantityType
<1>2. rows[d].held_rooms >= h /\ rows[d].reserved_rooms >= r
  BY DEF CanRelease
<1>3. Released(S)[d] = [rows[d] EXCEPT !.held_rooms = rows[d].held_rooms - h,
                                       !.reserved_rooms = rows[d].reserved_rooms - r]
  BY DEF Released
<1> HIDE DEF h, r
<1>4. /\ rows[d].held_rooms \in Nat /\ rows[d].reserved_rooms \in Nat
      /\ rows[d].held_rooms - h \in Nat /\ rows[d].reserved_rooms - r \in Nat
  BY <1>1, <1>2 DEF Row
<1>5. QED
  BY <1>1, <1>3, <1>4 DEF Row, h, r

\* Bookings leave the pool with the rooms they had on its counters.
LEMMA ReleaseNights ==
  ASSUME TypeOK, NEW S \in SUBSET Bookings, CanRelease(S), rows' = Released(S),
         inventory_mode' = inventory_mode,
         \A b \in Bookings : SameStay(b),
         \A b \in S : booking'[b].status \in {"CANCELED", "EXPIRED", "CHECKED_OUT"},
         \A b \in Bookings \ S : booking'[b].status = booking[b].status
  PROVE  NightsFollow
<1>1. rows \in [Days -> Row]
  BY DEF TypeOK
<1>2. ASSUME NEW d \in Days, Exact(d)
      PROVE  Exact(d)'
  <2>1. S \cap Holding(booking)' = {} /\ S \cap Reserving(booking)' = {}
    BY DEF Holding, Reserving, Shared, WithStatus
  <2>2. rows[d].held_rooms \in Nat /\ rows[d].reserved_rooms \in Nat
    BY <1>1 DEF Row
  <2>3. /\ rows'[d].held_rooms = rows[d].held_rooms - QuantityOn(booking, S \cap Holding(booking), d)
        /\ rows'[d].reserved_rooms = rows[d].reserved_rooms
                                       - QuantityOn(booking, S \cap Reserving(booking), d)
    BY <1>1, ReleasedRow
  <2>4. /\ QuantityOn(booking', S \cap Holding(booking)', d) = 0
        /\ QuantityOn(booking', S \cap Reserving(booking)', d) = 0
        /\ QuantityOn(booking, S \cap Holding(booking), d) \in Nat
        /\ QuantityOn(booking, S \cap Reserving(booking), d) \in Nat
    BY <2>1, QuantityOfNone, QuantityType
  <2>5. /\ rows'[d].held_rooms = rows[d].held_rooms
                                   - QuantityOn(booking, S \cap Holding(booking), d)
                                   + QuantityOn(booking', S \cap Holding(booking)', d)
        /\ rows'[d].reserved_rooms = rows[d].reserved_rooms
                                   - QuantityOn(booking, S \cap Reserving(booking), d)
                                   + QuantityOn(booking', S \cap Reserving(booking)', d)
    BY <2>2, <2>3, <2>4
  <2>6. \A b \in Bookings \ S : SameStay(b) /\ booking'[b].status = booking[b].status
    OBVIOUS
  <2>7. rows[d].held_rooms \in Int /\ rows[d].reserved_rooms \in Int
    BY <2>2
  <2>8. QED
    BY <1>2, <2>5, <2>6, <2>7, NightStep
<1>3. rows' \in [Days -> Row]
  BY <1>1, ReleasedRow DEF Released
<1>4. QED
  BY <1>2, <1>3 DEF NightsFollow

\* Bookings that stay where they are leave the counters exact.
LEMMA SameNights ==
  ASSUME TypeOK, inventory_mode' = inventory_mode, rows' \in [Days -> Row],
         \A b \in Bookings : SameStay(b),
         Holding(booking)' = Holding(booking), Reserving(booking)' = Reserving(booking),
         \A d \in Days : /\ rows'[d].held_rooms = rows[d].held_rooms
                         /\ rows'[d].reserved_rooms = rows[d].reserved_rooms
  PROVE  NightsFollow
<1>1. ASSUME NEW d \in Days, Exact(d)
      PROVE  Exact(d)'
  <2>1. /\ QuantityOn(booking', Holding(booking), d) = QuantityOn(booking, Holding(booking), d)
        /\ QuantityOn(booking', Reserving(booking), d) = QuantityOn(booking, Reserving(booking), d)
    BY CountedType, SameStays
  <2>2. /\ rows'[d].held_rooms = QuantityOn(booking', Holding(booking)', d)
        /\ rows'[d].reserved_rooms = QuantityOn(booking', Reserving(booking)', d)
    BY <1>1, <2>1 DEF Exact
  <2>3. QED
    BY <2>2 DEF Exact, QuantityOn, RoomsOn
<1>2. QED
  BY <1>1 DEF NightsFollow

\* A payment moves the rooms of a booking from one counter to the other.
LEMMA CommitNights ==
  ASSUME TypeOK, NEW b \in Bookings, CanRelease({b}), rows' = Committed(b),
         inventory_mode' = inventory_mode,
         \A x \in Bookings : SameStay(x),
         booking[b].status = "PENDING_PAYMENT",
         booking'[b].status = "CONFIRMED",
         \A x \in Bookings \ {b} : booking'[x].status = booking[x].status
  PROVE  NightsFollow
<1> DEFINE M == {b} \cap Holding(booking)
           n(d) == QuantityOn(booking, M, d)
<1>1. /\ {b} \cap Holding(booking)' = {}
      /\ {b} \cap Reserving(booking) = {}
      /\ {b} \cap Reserving(booking)' = M
      /\ M \in SUBSET Bookings
  BY DEF Holding, Reserving, Shared, WithStatus, UsesSharedDailyInventory, SameStay
<1>2. ASSUME NEW d \in Days
      PROVE  /\ n(d) \in Nat /\ rows[d] \in Row
             /\ rows[d].held_rooms \in Nat /\ rows[d].held_rooms >= n(d)
             /\ rows[d].reserved_rooms \in Nat
  BY <1>1, QuantityType DEF TypeOK, Row, CanRelease
<1>3. ASSUME NEW d \in Days
      PROVE  rows'[d] = [rows[d] EXCEPT !.held_rooms = rows[d].held_rooms - n(d),
                                        !.reserved_rooms = rows[d].reserved_rooms + n(d)]
  BY DEF Committed
<1>4. ASSUME NEW d \in Days
      PROVE  /\ QuantityOn(booking', M, d) = n(d)
             /\ QuantityOn(booking', {}, d) = 0
             /\ QuantityOn(booking, {}, d) = 0
  BY <1>1, SameStays, QuantityOfNone
<1>5. rows' = [d \in Days |-> rows'[d]]
  BY DEF Committed
<1> HIDE DEF n
<1>6. ASSUME NEW d \in Days
      PROVE  /\ rows'[d] \in Row
             /\ rows'[d].held_rooms = rows[d].held_rooms - n(d)
             /\ rows'[d].reserved_rooms = rows[d].reserved_rooms + n(d)
  <2>1. rows[d].held_rooms - n(d) \in Nat /\ rows[d].reserved_rooms + n(d) \in Nat
    BY <1>2
  <2>2. QED
    BY <1>2, <1>3, <2>1 DEF Row
<1>7. ASSUME NEW d \in Days, Exact(d)
      PROVE  Exact(d)'
  <2>1. /\ rows'[d].held_rooms = rows[d].held_rooms
                                   - QuantityOn(booking, {b} \cap Holding(booking), d)
                                   + QuantityOn(booking', {b} \cap Holding(booking)', d)
        /\ rows'[d].reserved_rooms = rows[d].reserved_rooms
                                   - QuantityOn(booking, {b} \cap Reserving(booking), d)
                                   + QuantityOn(booking', {b} \cap Reserving(booking)', d)
    <3>1. /\ QuantityOn(booking, {b} \cap Holding(booking), d) = n(d)
          /\ QuantityOn(booking', {b} \cap Holding(booking)', d) = 0
      BY <1>1, <1>4, Zenon DEF n
    <3>2. /\ QuantityOn(booking, {b} \cap Reserving(booking), d) = 0
          /\ QuantityOn(booking', {b} \cap Reserving(booking)', d) = n(d)
      BY <1>1, <1>4, Zenon
    <3>3. QED
      BY <1>2, <1>6, <3>1, <3>2
  <2>2. \A x \in Bookings \ {b} : SameStay(x) /\ booking'[x].status = booking[x].status
    OBVIOUS
  <2>3. rows[d].held_rooms \in Int /\ rows[d].reserved_rooms \in Int /\ {b} \in SUBSET Bookings
    BY <1>2
  <2>4. QED
    BY <1>7, <2>1, <2>2, <2>3, NightStep
<1>8. QED
  BY <1>5, <1>6, <1>7 DEF NightsFollow

\* Charging a row adds to the counter of the booking's status.
LEMMA TookRow ==
  ASSUME NEW row \in Row, NEW status, NEW n \in Nat
  PROVE  LET r == Took(row, status, n)
         IN  /\ r \in Row
             /\ r.held_rooms = row.held_rooms + IF status = "PENDING_PAYMENT" THEN n ELSE 0
             /\ r.reserved_rooms = row.reserved_rooms + IF status = "PENDING_PAYMENT" THEN 0 ELSE n
<1>1. row.held_rooms \in Nat /\ row.reserved_rooms \in Nat
  BY DEF Row
<1>2. CASE status = "PENDING_PAYMENT"
  <2>1. Took(row, status, n) = [row EXCEPT !.held_rooms = row.held_rooms + n]
    BY <1>2 DEF Took
  <2>2. QED
    BY <1>1, <1>2, <2>1 DEF Row
<1>3. CASE status # "PENDING_PAYMENT"
  <2>1. Took(row, status, n) = [row EXCEPT !.reserved_rooms = row.reserved_rooms + n]
    BY <1>3 DEF Took
  <2>2. QED
    BY <1>1, <1>3, <2>1 DEF Row
<1>4. QED
  BY <1>2, <1>3

\* A row that counts all bookings but b counts them all once it is charged with b.
LEMMA ChargedNight ==
  ASSUME NEW b \in Bookings, NEW new \in Booking, inventory_mode' = inventory_mode,
         booking'[b] = new, \A x \in Bookings \ {b} : booking'[x] = booking[x],
         new.status \in {"PENDING_PAYMENT", "CONFIRMED", "CHECKED_IN"},
         NEW d \in Days, NEW open \in Row,
         open.held_rooms = QuantityOn(booking, Holding(booking) \ {b}, d),
         open.reserved_rooms = QuantityOn(booking, Reserving(booking) \ {b}, d),
         rows'[d] = IF d \in Nights(new)
                    THEN Took(open, new.status,
                              IF UsesSharedDailyInventory(new.source, new.inventory_mode)
                              THEN new.quantity ELSE 0)
                    ELSE open
  PROVE  Exact(d)'
<1> DEFINE shared == UsesSharedDailyInventory(new.source, new.inventory_mode)
           pending == new.status = "PENDING_PAYMENT"
           n == IF d \in Nights(new) /\ shared THEN new.quantity ELSE 0
           H == Holding(booking)
           R == Reserving(booking)
           HN == Holding(booking)'
           RN == Reserving(booking)'
           HO == H \ {b}
           RO == R \ {b}
<1>1. new.quantity \in 0 .. MaxQuantity /\ new.quantity \in Nat /\ n \in Nat
  BY BoundsAssumption DEF Booking
<1>2. /\ H \in SUBSET Bookings /\ R \in SUBSET Bookings
      /\ HN = HO \cup (IF shared /\ pending THEN {b} ELSE {})
      /\ RN = RO \cup (IF shared /\ ~pending THEN {b} ELSE {})
      /\ HO \in SUBSET Bookings /\ RO \in SUBSET Bookings
      /\ HO \cap {b} = {} /\ RO \cap {b} = {}
      /\ \A x \in HO \cup RO : booking'[x] = booking[x]
  BY DEF Holding, Reserving, Shared, WithStatus, UsesSharedDailyInventory
<1>3. /\ rows'[d].held_rooms = open.held_rooms + (IF pending THEN n ELSE 0)
      /\ rows'[d].reserved_rooms = open.reserved_rooms + (IF pending THEN 0 ELSE n)
  <2>1. open.held_rooms \in Nat /\ open.reserved_rooms \in Nat
    BY DEF Row
  <2>2. CASE d \in Nights(new)
    <3>1. rows'[d] = Took(open, new.status, n)
      BY <2>2
    <3> HIDE DEF n
    <3>2. QED
      BY <1>1, <2>1, <3>1, TookRow
  <2>3. CASE d \notin Nights(new)
    BY <2>1, <2>3
  <2>4. QED
    BY <2>2, <2>3
<1>4. QuantityOn(booking', {b}, d) = IF d \in Nights(new) THEN new.quantity ELSE 0
  BY <1>1, <1>2, QuantityOfOne
<1>5. /\ open.held_rooms = QuantityOn(booking, HO, d)
      /\ open.reserved_rooms = QuantityOn(booking, RO, d)
  OBVIOUS
<1> HIDE DEF HO, RO, H, R, HN, RN, shared, pending
<1>6. /\ QuantityOn(booking', HO, d) = open.held_rooms
      /\ QuantityOn(booking', RO, d) = open.reserved_rooms
  BY <1>2, <1>5, QuantitySame
<1>7. /\ QuantityOn(booking', HO \cup {b}, d) = QuantityOn(booking', HO, d) + QuantityOn(booking', {b}, d)
      /\ QuantityOn(booking', RO \cup {b}, d) = QuantityOn(booking', RO, d) + QuantityOn(booking', {b}, d)
      /\ HO \cup {} = HO /\ RO \cup {} = RO
  <2>1. {b} \in SUBSET Bookings
    OBVIOUS
  <2>2. QED
    BY <1>2, <2>1, QuantitySum
<1>8. open.held_rooms \in Nat /\ open.reserved_rooms \in Nat
  BY DEF Row
<1>9. /\ rows'[d].held_rooms = QuantityOn(booking', HN, d)
      /\ rows'[d].reserved_rooms = QuantityOn(booking', RN, d)
  <2>1. CASE shared /\ pending
    BY <1>1, <1>2, <1>3, <1>4, <1>6, <1>7, <1>8, <2>1
  <2>2. CASE shared /\ ~pending
    BY <1>1, <1>2, <1>3, <1>4, <1>6, <1>7, <1>8, <2>2
  <2>3. CASE ~shared
    BY <1>1, <1>2, <1>3, <1>6, <1>7, <1>8, <2>3
  <2>4. QED
    BY <2>1, <2>2, <2>3
<1>10. QED
  BY <1>9 DEF Exact, HN, RN, QuantityOn, RoomsOn

\* Locking a row changes no counter.
LEMMA LockedCounters ==
  ASSUME TypeOK, NEW row \in Row
  PROVE  LET r == Locked(row)
         IN  /\ r \in Row
             /\ r.held_rooms = row.held_rooms
             /\ r.reserved_rooms = row.reserved_rooms
<1> DEFINE n == IF inventory_mode = "ROOM_TYPE_COUNT" THEN count_inventory
                ELSE default_inventory
<1>1. n \in Nat
  BY DEF TypeOK
<1>2. Locked(row) = IF row.exists THEN row
                    ELSE [row EXCEPT !.exists = TRUE, !.total_rooms = n]
  BY DEF Locked
<1> HIDE DEF n
<1>3. QED
  BY <1>1, <1>2 DEF Row

\* A row that is opened for a new booking counts what it counted.
LEMMA OpenedCounters ==
  ASSUME TypeOK, NEW new, NEW reconcile \in BOOLEAN, NEW d \in Days
  PROVE  LET r == Opened(new, reconcile, d)
         IN  /\ r \in Row
             /\ Exact(d) => /\ r.held_rooms = rows[d].held_rooms
                            /\ r.reserved_rooms = rows[d].reserved_rooms
<1> DEFINE shared == UsesSharedDailyInventory(new.source, new.inventory_mode)
           r == Opened(new, reconcile, d)
<1>0. rows[d] \in Row
  BY DEF TypeOK
<1> HIDE DEF r
<1>1. CASE reconcile
  <2>1. r = Reconciled(rows[d], d, booking)
    BY <1>1 DEF r, Opened
  <2>2. QED
    BY <2>1, ReconciledRow DEF r, Exact
<1>2. CASE ~reconcile /\ shared
  <2>1. r = Locked(rows[d])
    BY <1>2 DEF r, Opened
  <2>2. QED
    BY <1>0, <2>1, LockedCounters DEF r
<1>3. CASE ~reconcile /\ ~shared
  <2>1. r = rows[d]
    BY <1>3 DEF r, Opened
  <2>2. QED
    BY <1>0, <2>1 DEF r
<1>4. QED
  BY <1>1, <1>2, <1>3

\* A new booking is charged to the counters it is counted in.
LEMMA PlaceFollows ==
  ASSUME TypeOK, NEW b \in Bookings, NEW new \in Booking, NEW reconcile \in BOOLEAN,
         new.status \in {"PENDING_PAYMENT", "CONFIRMED", "CHECKED_IN"},
         PlaceBooking(b, new, reconcile)
  PROVE  PoolFollows
<1> DEFINE n == IF UsesSharedDailyInventory(new.source, new.inventory_mode)
                THEN new.quantity ELSE 0
           Open(d) == Opened(new, reconcile, d)
<1>1. /\ booking \in [Bookings -> Booking]
      /\ booking' = [booking EXCEPT ![b] = new]
      /\ booking[b].status = "NOT_CREATED"
      /\ UNCHANGED <<inventory_mode, access, count_inventory>>
  BY DEF PlaceBooking, TypeOK, hotelVars
<1>2. rows' = [d \in Days |-> IF d \in Nights(new) THEN Took(Open(d), new.status, n)
                              ELSE rows[d]]
  BY DEF PlaceBooking, Opened
<1>3. n \in Nat
  BY BoundsAssumption DEF Booking
<1>4. ASSUME NEW d \in Days
      PROVE  /\ rows[d] \in Row /\ Open(d) \in Row
             /\ Exact(d) => /\ Open(d).held_rooms = rows[d].held_rooms
                            /\ Open(d).reserved_rooms = rows[d].reserved_rooms
  BY OpenedCounters DEF TypeOK
<1> HIDE DEF Open
<1>5. ASSUME NEW d \in Days
      PROVE  rows'[d] \in Row
  <2>1. Took(Open(d), new.status, n) \in Row
    BY <1>3, <1>4, TookRow
  <2>2. QED
    BY <1>2, <1>4, <2>1
<1>6. rows' \in [Days -> Row]
  BY <1>2, <1>5
<1>7. ASSUME NEW d \in Days, Exact(d)
      PROVE  Exact(d)'
  <2> DEFINE open == IF d \in Nights(new) THEN Open(d) ELSE rows[d]
  <2>1. /\ open \in Row
        /\ open.held_rooms = rows[d].held_rooms
        /\ open.reserved_rooms = rows[d].reserved_rooms
    BY <1>4, <1>7
  <2>2. rows'[d] = IF d \in Nights(new) THEN Took(open, new.status, n) ELSE open
    BY <1>2
  <2> HIDE DEF open
  <2>3. Holding(booking) \ {b} = Holding(booking) /\ Reserving(booking) \ {b} = Reserving(booking)
    BY <1>1 DEF Holding, Reserving, Shared, WithStatus
  <2>4. /\ open.held_rooms = QuantityOn(booking, Holding(booking) \ {b}, d)
        /\ open.reserved_rooms = QuantityOn(booking, Reserving(booking) \ {b}, d)
    BY <1>7, <2>1, <2>3 DEF Exact
  <2>5. booking'[b] = new /\ \A x \in Bookings \ {b} : booking'[x] = booking[x]
    BY <1>1
  <2>6. QED
    BY <1>1, <2>1, <2>2, <2>4, <2>5, ChargedNight
<1>8. TypeOK'
  <2>1. booking' \in [Bookings -> Booking]
    BY <1>1
  <2>2. default_inventory' \in Nat
    BY DEF PlaceBooking, EnsuredDefault, TypeOK
  <2>3. QED
    BY <1>6, <2>1, <2>2 DEF PlaceBooking, TypeOK, hotelVars, roomVars
<1>9. \A x \in Bookings : WasConfirmed(x) => WasConfirmed(x)'
  BY <1>1 DEF WasConfirmed
<1>10. QED
  BY <1>1, <1>6, <1>7, <1>8, <1>9 DEF PoolFollows, NightsFollow

\* A restored no-show counts again: on the nights of its stay by a rebuild, and
\* on others not at all.
LEMMA RestoreFollows ==
  ASSUME TypeOK, NEW b \in Bookings, RestoreNoShow(b)
  PROVE  PoolFollows
<1> DEFINE reconcile == inventory_mode = "ROOM_TYPE_COUNT"
<1>0. NoHold \in Int
  BY DEF NoHold
<1>1. /\ booking \in [Bookings -> Booking]
      /\ booking' = [booking EXCEPT ![b].status = "CONFIRMED", ![b].hold_expires_at = NoHold]
      /\ booking[b].status = "CANCELED" /\ booking[b].source = "OTA"
      /\ booking[b].inventory_mode = "ROOM_TYPE_COUNT"
      /\ UNCHANGED <<inventory_mode, access, count_inventory>>
  BY DEF RestoreNoShow, TypeOK, hotelVars
<1>2. /\ \A x \in Bookings : SameStay(x)
      /\ \A x \in Bookings \ {b} : booking'[x] = booking[x]
      /\ booking'[b].status = "CONFIRMED" /\ booking'[b] \in Booking
  BY <1>0, <1>1 DEF SameStay, Booking, Statuses
<1>3. rows' = [d \in Days |-> IF reconcile /\ d \in Nights(booking[b])
                              THEN Reconciled(rows[d], d, booking') ELSE rows[d]]
  BY <1>1 DEF RestoreNoShow
<1>4. ASSUME NEW d \in Days
      PROVE  rows'[d] \in Row /\ (Exact(d) => Exact(d)')
  <2>1. CASE reconcile /\ d \in Nights(booking[b])
    <3> DEFINE r == Reconciled(rows[d], d, booking')
    <3>1. rows'[d] = r
      BY <1>3, <2>1
    <3>2. /\ r \in Row
          /\ r.held_rooms = QuantityOn(booking', Holding(booking'), d)
          /\ r.reserved_rooms = QuantityOn(booking', Reserving(booking'), d)
      BY ReconciledRow
    <3> HIDE DEF r
    <3>3. Holding(booking') = Holding(booking)' /\ Reserving(booking') = Reserving(booking)'
      BY <1>1 DEF Holding, Reserving, Shared, WithStatus, UsesSharedDailyInventory
    <3>4. QED
      BY <3>1, <3>2, <3>3 DEF Exact, QuantityOn, RoomsOn
  <2>2. CASE ~(reconcile /\ d \in Nights(booking[b]))
    <3>1. rows'[d] = rows[d] /\ rows[d] \in Row
      BY <1>3, <2>2 DEF TypeOK
    <3>2. ASSUME Exact(d)
          PROVE  Exact(d)'
      <4> DEFINE shared == UsesSharedDailyInventory("OTA", "ROOM_TYPE_COUNT")
                 new == booking'[b]
      <4>1. /\ Holding(booking) \ {b} = Holding(booking)
            /\ Reserving(booking) \ {b} = Reserving(booking)
        BY <1>1 DEF Holding, Reserving, Shared, WithStatus
      <4>2. /\ new.source = "OTA" /\ new.inventory_mode = "ROOM_TYPE_COUNT"
            /\ Nights(new) = Nights(booking[b])
        BY <1>1, <1>2 DEF SameStay, Nights
      <4>3. d \in Nights(new) => ~shared
        BY <2>2, <4>2 DEF UsesSharedDailyInventory
      <4>4. Took(rows[d], "CONFIRMED", 0) = rows[d]
        BY <3>1 DEF Took, Row
      <4>5. rows'[d] = IF d \in Nights(new)
                       THEN Took(rows[d], new.status, IF UsesSharedDailyInventory(new.source, new.inventory_mode)
                                                      THEN new.quantity ELSE 0)
                       ELSE rows[d]
        BY <1>2, <3>1, <4>2, <4>3, <4>4
      <4>6. /\ rows[d].held_rooms = QuantityOn(booking, Holding(booking) \ {b}, d)
            /\ rows[d].reserved_rooms = QuantityOn(booking, Reserving(booking) \ {b}, d)
        BY <3>2, <4>1 DEF Exact
      <4>7. QED
        BY <1>1, <1>2, <3>1, <4>5, <4>6, ChargedNight
    <3>3. QED
      BY <3>1, <3>2
  <2>3. QED
    BY <2>1, <2>2
<1>5. NightsFollow
  <2>1. rows' \in [Days -> Row]
    BY <1>3, <1>4
  <2>2. QED
    BY <1>4, <2>1 DEF NightsFollow
<1>6. TypeOK'
  <2>1. booking' \in [Bookings -> Booking]
    BY <1>1, <1>2
  <2>2. default_inventory' \in Nat
    BY DEF RestoreNoShow, EnsuredDefault, TypeOK
  <2>3. QED
    BY <1>5, <2>1, <2>2 DEF RestoreNoShow, TypeOK, NightsFollow, hotelVars, roomVars
<1>7. \A x \in Bookings : WasConfirmed(x) => WasConfirmed(x)'
  BY <1>1, <1>2 DEF WasConfirmed
<1>8. QED
  BY <1>1, <1>5, <1>6, <1>7 DEF PoolFollows

\* Payment, cancellation, check-in, check-out and restore keep the counters with
\* the bookings.
LEMMA StepsFollow ==
  ASSUME TypeOK, NEW b \in Bookings,
         RecordPayment(b) \/ CancelBooking(b) \/ CheckIn(b) \/ CheckOut(b) \/ RestoreNoShow(b)
  PROVE  PoolFollows
<1>0. NoHold \in Int
  BY DEF NoHold
<1>1. booking \in [Bookings -> Booking] /\ booking[b] \in Booking /\ {b} \in SUBSET Bookings
  BY DEF TypeOK
<1>2. UNCHANGED <<inventory_mode, access, count_inventory>>
  BY DEF RecordPayment, CancelBooking, CheckIn, CheckOut, RestoreNoShow, bookingOnly, hotelVars
<1>3. CASE RecordPayment(b) /\ booking[b].status = "PENDING_PAYMENT"
  <2>1. /\ CanRelease({b})
        /\ rows' = Committed(b)
        /\ booking' = [booking EXCEPT ![b].paid = TRUE, ![b].status = "CONFIRMED",
                                      ![b].hold_expires_at = NoHold]
        /\ UNCHANGED bookingOnly
    BY <1>3 DEF RecordPayment
  <2>2. /\ \A x \in Bookings : SameStay(x)
        /\ booking'[b].status = "CONFIRMED"
        /\ \A x \in Bookings \ {b} : booking'[x] = booking[x]
    BY <1>1, <2>1 DEF SameStay, Booking
  <2>3. NightsFollow
    BY <1>2, <1>3, <2>1, <2>2, CommitNights
  <2>4. booking' \in [Bookings -> Booking]
    BY <1>0, <1>1, <2>1 DEF Booking, Statuses
  <2>5. TypeOK'
    BY <2>1, <2>3, <2>4 DEF TypeOK, NightsFollow, bookingOnly, hotelVars, roomVars
  <2>6. \A x \in Bookings : WasConfirmed(x) => WasConfirmed(x)'
    BY <1>3, <2>2 DEF WasConfirmed
  <2>7. QED
    BY <1>2, <2>3, <2>5, <2>6 DEF PoolFollows
<1>4. CASE RecordPayment(b) /\ booking[b].status # "PENDING_PAYMENT"
  <2>1. /\ rows' = rows
        /\ booking' = [booking EXCEPT ![b].paid = TRUE, ![b].status = booking[b].status,
                                      ![b].hold_expires_at = booking[b].hold_expires_at]
        /\ UNCHANGED bookingOnly
    BY <1>4 DEF RecordPayment
  <2>2. /\ \A x \in Bookings : SameStay(x)
        /\ \A x \in Bookings : booking'[x].status = booking[x].status
    BY <1>1, <2>1 DEF SameStay, Booking
  <2>3. /\ Holding(booking)' = Holding(booking)
        /\ Reserving(booking)' = Reserving(booking)
    BY <1>2, <2>2 DEF Holding, Reserving, Shared, WithStatus, UsesSharedDailyInventory, SameStay
  <2>4. NightsFollow
    BY <1>2, <2>1, <2>2, <2>3, SameNights DEF TypeOK
  <2>5. booking' \in [Bookings -> Booking]
    BY <1>1, <2>1 DEF Booking
  <2>6. TypeOK'
    BY <2>1, <2>4, <2>5 DEF TypeOK, NightsFollow, bookingOnly, hotelVars, roomVars
  <2>7. \A x \in Bookings : WasConfirmed(x) => WasConfirmed(x)'
    BY <2>2 DEF WasConfirmed, SameStay
  <2>8. QED
    BY <1>2, <2>4, <2>6, <2>7 DEF PoolFollows
<1>5. CASE CancelBooking(b)
  <2>1. /\ UNCHANGED bookingOnly
        /\ CanRelease({b}) /\ rows' = Released({b})
        /\ booking' = [booking EXCEPT ![b].status = "CANCELED", ![b].hold_expires_at = NoHold]
    BY <1>5 DEF CancelBooking
  <2>2. /\ \A x \in Bookings : SameStay(x)
        /\ booking'[b].status = "CANCELED"
        /\ \A x \in Bookings \ {b} : booking'[x].status = booking[x].status
    BY <1>1, <2>1 DEF SameStay, Booking
  <2>3. NightsFollow
    BY <1>1, <1>2, <2>1, <2>2, ReleaseNights
  <2>4. booking' \in [Bookings -> Booking]
    BY <1>0, <1>1, <2>1 DEF Booking, Statuses
  <2>5. TypeOK'
    BY <2>1, <2>3, <2>4 DEF TypeOK, NightsFollow, bookingOnly, hotelVars, roomVars
  <2>6. \A x \in Bookings : WasConfirmed(x) => WasConfirmed(x)'
    BY <2>2 DEF WasConfirmed, SameStay
  <2>7. QED
    BY <1>2, <2>3, <2>5, <2>6 DEF PoolFollows
<1>6. CASE CheckIn(b)
  <2>1. /\ UNCHANGED bookingOnly /\ rows' = rows
        /\ booking[b].status = "CONFIRMED"
        /\ booking' = [booking EXCEPT ![b].status = "CHECKED_IN"]
    BY <1>6 DEF CheckIn
  <2>2. /\ \A x \in Bookings : SameStay(x)
        /\ booking'[b].status = "CHECKED_IN"
        /\ \A x \in Bookings \ {b} : booking'[x].status = booking[x].status
    BY <1>1, <2>1 DEF SameStay, Booking
  <2>3. /\ Holding(booking)' = Holding(booking)
        /\ Reserving(booking)' = Reserving(booking)
    BY <1>2, <2>1, <2>2 DEF Holding, Reserving, Shared, WithStatus, UsesSharedDailyInventory, SameStay
  <2>4. NightsFollow
    BY <1>2, <2>1, <2>2, <2>3, SameNights DEF TypeOK
  <2>5. booking' \in [Bookings -> Booking]
    BY <1>1, <2>1 DEF Booking, Statuses
  <2>6. TypeOK'
    BY <2>1, <2>4, <2>5 DEF TypeOK, NightsFollow, bookingOnly, hotelVars, roomVars
  <2>7. \A x \in Bookings : WasConfirmed(x) => WasConfirmed(x)'
    BY <2>2 DEF WasConfirmed, SameStay
  <2>8. QED
    BY <1>2, <2>4, <2>6, <2>7 DEF PoolFollows
<1>7. CASE CheckOut(b)
  <2>1. /\ CanRelease({b}) /\ rows' = Released({b})
        /\ booking' = [booking EXCEPT ![b].status = "CHECKED_OUT"]
    BY <1>7 DEF CheckOut
  <2>2. /\ \A x \in Bookings : SameStay(x)
        /\ booking'[b].status = "CHECKED_OUT"
        /\ \A x \in Bookings \ {b} : booking'[x].status = booking[x].status
    BY <1>1, <2>1 DEF SameStay, Booking
  <2>3. NightsFollow
    BY <1>1, <1>2, <2>1, <2>2, ReleaseNights
  <2>4. booking' \in [Bookings -> Booking]
    BY <1>1, <2>1 DEF Booking, Statuses
  <2>5. active_rooms' \in Nat
    <3>1. active_rooms \in Nat /\ booking[b].quantity \in Nat
      BY <1>1, BoundsAssumption DEF TypeOK, Booking
    <3>2. SellableRooms(active_rooms, booking[b].quantity) \in Nat
      BY <3>1 DEF SellableRooms, MaxOf
    <3>3. QED
      BY <1>7, <3>1, <3>2 DEF CheckOut
  <2>6. TypeOK'
    BY <1>7, <2>3, <2>4, <2>5 DEF CheckOut, TypeOK, NightsFollow, hotelVars
  <2>7. \A x \in Bookings : WasConfirmed(x) => WasConfirmed(x)'
    BY <2>2 DEF WasConfirmed, SameStay
  <2>8. QED
    BY <1>2, <2>3, <2>6, <2>7 DEF PoolFollows
<1>8. CASE RestoreNoShow(b)
  BY <1>8, RestoreFollows
<1>9. QED
  BY <1>3, <1>4, <1>5, <1>6, <1>7, <1>8

\* So does expiry.
LEMMA ExpiryFollows ==
  ASSUME TypeOK, ExpirePendingBookings
  PROVE  PoolFollows
<1>1. booking \in [Bookings -> Booking]
  BY DEF TypeOK
<1>2. /\ UNCHANGED bookingOnly /\ UNCHANGED <<inventory_mode, access, count_inventory>>
      /\ Overdue \in SUBSET Bookings
      /\ \A x \in Overdue : booking[x].status = "PENDING_PAYMENT"
      /\ CanRelease(Overdue) /\ rows' = Released(Overdue)
      /\ booking' = [b \in Bookings |-> IF b \in Overdue
                                        THEN [booking[b] EXCEPT !.status = "EXPIRED"]
                                        ELSE booking[b]]
  BY DEF ExpirePendingBookings, bookingOnly, hotelVars, Overdue
<1> HIDE DEF Overdue
<1>3. /\ \A x \in Bookings : SameStay(x)
      /\ \A x \in Overdue : booking'[x].status = "EXPIRED"
      /\ \A x \in Bookings \ Overdue : booking'[x].status = booking[x].status
  BY <1>1, <1>2 DEF SameStay, Booking
<1>4. NightsFollow
  BY <1>2, <1>3, ReleaseNights
<1>5. booking' \in [Bookings -> Booking]
  BY <1>1, <1>2 DEF Booking, Statuses
<1>6. TypeOK'
  BY <1>2, <1>4, <1>5 DEF TypeOK, NightsFollow, bookingOnly, hotelVars, roomVars
<1>7. \A x \in Bookings : WasConfirmed(x) => WasConfirmed(x)'
  BY <1>2, <1>3 DEF WasConfirmed, SameStay
<1>8. QED
  BY <1>2, <1>4, <1>6, <1>7 DEF PoolFollows

\* A correction gives the old stay back and charges the new one.
LEMMA CorrectionFollows ==
  ASSUME TypeOK, NEW b \in Bookings, NEW check_in \in Days, NEW check_out \in 1 .. LastDay + 1,
         CorrectReservation(b, check_in, check_out)
  PROVE  PoolFollows
<1> DEFINE old == booking[b]
           new == [old EXCEPT !.check_in = check_in, !.check_out = check_out]
           shared == UsesSharedDailyInventory(old.source, old.inventory_mode)
           n == IF shared THEN old.quantity ELSE 0
           freed(d) == Released({b})[d]
           open(d) == IF d \in Nights(new)
                      THEN IF shared THEN Locked(freed(d)) ELSE rows[d]
                      ELSE freed(d)
<1>1. /\ booking \in [Bookings -> Booking] /\ rows \in [Days -> Row]
      /\ booking' = [booking EXCEPT ![b] = new]
      /\ old.status \in {"PENDING_PAYMENT", "CONFIRMED"}
      /\ CanRelease({b}) /\ {b} \in SUBSET Bookings
      /\ UNCHANGED bookingOnly /\ UNCHANGED <<inventory_mode, access, count_inventory>>
  BY DEF CorrectReservation, TypeOK, bookingOnly, hotelVars
<1>2. rows' = [d \in Days |-> IF d \in Nights(new) THEN Took(open(d), old.status, n) ELSE open(d)]
  BY DEF CorrectReservation
<1>3. /\ new \in Booking
      /\ new.status = old.status /\ new.quantity = old.quantity /\ new.source = old.source
      /\ new.inventory_mode = old.inventory_mode
  <2>1. check_out \in 0 .. LastDay + 1 /\ old \in Booking
    BY <1>1, BoundsAssumption
  <2>2. QED
    BY <2>1 DEF Booking
<1>4. n \in Nat
  BY <1>1, BoundsAssumption DEF Booking
<1>5. ASSUME NEW d \in Days
      PROVE  /\ open(d) \in Row
             /\ open(d).held_rooms = rows[d].held_rooms
                                       - QuantityOn(booking, {b} \cap Holding(booking), d)
             /\ open(d).reserved_rooms = rows[d].reserved_rooms
                                       - QuantityOn(booking, {b} \cap Reserving(booking), d)
  <2>1. /\ freed(d) \in Row
        /\ freed(d).held_rooms = rows[d].held_rooms
                                   - QuantityOn(booking, {b} \cap Holding(booking), d)
        /\ freed(d).reserved_rooms = rows[d].reserved_rooms
                                   - QuantityOn(booking, {b} \cap Reserving(booking), d)
    BY <1>1, ReleasedRow
  <2>2. CASE shared \/ d \notin Nights(new)
    <3>1. open(d) = Locked(freed(d)) \/ open(d) = freed(d)
      BY <2>2
    <3> HIDE DEF freed, open
    <3>2. QED
      BY <2>1, <3>1, LockedCounters
  <2>3. CASE ~shared /\ d \in Nights(new)
    <3>1. open(d) = rows[d]
      BY <2>3
    <3>2. {b} \cap Holding(booking) = {} /\ {b} \cap Reserving(booking) = {}
      BY <2>3 DEF Holding, Reserving, Shared
    <3>3. /\ QuantityOn(booking, {b} \cap Holding(booking), d) = 0
          /\ QuantityOn(booking, {b} \cap Reserving(booking), d) = 0
      BY <3>2, QuantityOfNone
    <3>4. rows[d] \in Row /\ rows[d].held_rooms \in Nat /\ rows[d].reserved_rooms \in Nat
      BY <1>1 DEF Row
    <3> HIDE DEF open
    <3>5. QED
      BY <3>1, <3>3, <3>4
  <2>4. QED
    BY <2>2, <2>3
<1> HIDE DEF open
<1>6. rows' \in [Days -> Row]
  <2>1. ASSUME NEW d \in Days
        PROVE  rows'[d] \in Row
    <3>1. Took(open(d), old.status, n) \in Row
      BY <1>4, <1>5, TookRow
    <3>2. QED
      BY <1>2, <1>5, <3>1
  <2>2. QED
    BY <1>2, <2>1
<1>7. ASSUME NEW d \in Days, Exact(d)
      PROVE  Exact(d)'
  <2>1. /\ QuantityOn(booking, Holding(booking), d)
             = QuantityOn(booking, Holding(booking) \ {b}, d)
               + QuantityOn(booking, {b} \cap Holding(booking), d)
        /\ QuantityOn(booking, Holding(booking) \ {b}, d) \in Nat
        /\ QuantityOn(booking, {b} \cap Holding(booking), d) \in Nat
    BY <1>1, CountedType, QuantityApart
  <2>2. /\ QuantityOn(booking, Reserving(booking), d)
             = QuantityOn(booking, Reserving(booking) \ {b}, d)
               + QuantityOn(booking, {b} \cap Reserving(booking), d)
        /\ QuantityOn(booking, Reserving(booking) \ {b}, d) \in Nat
        /\ QuantityOn(booking, {b} \cap Reserving(booking), d) \in Nat
    BY <1>1, CountedType, QuantityApart
  <2>3. /\ open(d).held_rooms = QuantityOn(booking, Holding(booking) \ {b}, d)
        /\ open(d).reserved_rooms = QuantityOn(booking, Reserving(booking) \ {b}, d)
    BY <1>5, <1>7, <2>1, <2>2 DEF Exact
  <2>4. booking'[b] = new /\ \A x \in Bookings \ {b} : booking'[x] = booking[x]
    BY <1>1
  <2>5. rows'[d] = IF d \in Nights(new) THEN Took(open(d), new.status, n) ELSE open(d)
    BY <1>2, <1>3
  <2>6. /\ n = IF UsesSharedDailyInventory(new.source, new.inventory_mode)
               THEN new.quantity ELSE 0
        /\ new.status \in {"PENDING_PAYMENT", "CONFIRMED", "CHECKED_IN"}
        /\ inventory_mode' = inventory_mode /\ open(d) \in Row
    BY <1>1, <1>3, <1>5
  <2> HIDE DEF new, n
  <2>7. QED
    BY <1>3, <2>3, <2>4, <2>5, <2>6, ChargedNight
<1>8. TypeOK'
  <2>1. booking' \in [Bookings -> Booking]
    BY <1>1, <1>3
  <2>2. QED
    BY <1>1, <1>6, <2>1 DEF TypeOK, bookingOnly, hotelVars, roomVars
<1>9. \A x \in Bookings : WasConfirmed(x) => WasConfirmed(x)'
  BY <1>1, <1>3 DEF WasConfirmed
<1>10. QED
  BY <1>1, <1>6, <1>7, <1>8, <1>9 DEF PoolFollows, NightsFollow

\* A new allotment is no change of counters.
LEMMA AllotmentFollows ==
  ASSUME TypeOK, NEW total \in Nat, PutCountInventory(total)
  PROVE  TypeOK' /\ NightsFollow /\ UNCHANGED <<booking, inventory_mode, access>>
<1> DEFINE base == BaseTotals(active_rooms, blocked_rooms, total)
<1>1. /\ UNCHANGED <<booking, hotelVars, roomVars, rooms_to_close, now>>
      /\ UNCHANGED <<inventory_mode, access>>
      /\ rows' = EnsuredRows(InThisWindow, base, rooms_to_close)
      /\ count_inventory' = total /\ default_inventory' = total /\ edits' = edits + 1
  BY DEF PutCountInventory, hotelVars, hotelEdit
<1>2. base \in [Days -> Nat] /\ rooms_to_close \in [Days -> Nat] /\ rows \in [Days -> Row]
  BY DEF TypeOK, BaseTotals, SellableRooms, MaxOf
<1> HIDE DEF base
<1>3. ASSUME NEW d \in Days
      PROVE  /\ rows'[d] \in Row
             /\ rows'[d].held_rooms = rows[d].held_rooms
             /\ rows'[d].reserved_rooms = rows[d].reserved_rooms
  <2>1. rows'[d] = Ensured(rows[d], base[d], rooms_to_close[d]) \/ rows'[d] = rows[d]
    BY <1>1 DEF EnsuredRows
  <2>2. rows[d] \in Row /\ base[d] \in Nat /\ rooms_to_close[d] \in Nat
    BY <1>2
  <2> DEFINE e == Ensured(rows[d], base[d], rooms_to_close[d])
  <2>3. /\ e \in Row
        /\ e.held_rooms = rows[d].held_rooms
        /\ e.reserved_rooms = rows[d].reserved_rooms
    BY <2>2, EnsuredRow
  <2>4. rows'[d] = e \/ rows'[d] = rows[d]
    BY <2>1
  <2> HIDE DEF e
  <2>5. QED
    BY <2>2, <2>3, <2>4
<1>4. rows' \in [Days -> Row]
  BY <1>1, <1>3 DEF EnsuredRows
<1>5. /\ Holding(booking)' = Holding(booking) /\ Reserving(booking)' = Reserving(booking)
      /\ \A b \in Bookings : SameStay(b)
  BY <1>1 DEF Holding, Reserving, Shared, WithStatus, UsesSharedDailyInventory, SameStay
<1>6. NightsFollow
  BY <1>1, <1>3, <1>4, <1>5, SameNights
<1>7. TypeOK'
  BY <1>1, <1>4 DEF TypeOK, hotelVars, roomVars
<1>8. QED
  BY <1>1, <1>6, <1>7

\* A request that read the hotel before a switch may charge counters that are
\* not its own; one whose mode is still the hotel's is a booking like others.
LEMMA AskedFollows ==
  ASSUME TypeOK, asked \in Modes \cup {Nobody}, NEW b \in Bookings,
         NEW check_in \in Days, NEW check_out \in 1 .. LastDay + 1,
         BookAsAsked(b, check_in, check_out)
  PROVE  /\ TypeOK'
         /\ asked = inventory_mode => NightsFollow
         /\ \A x \in Bookings : WasConfirmed(x) => WasConfirmed(x)'
         /\ UNCHANGED <<inventory_mode, access, count_inventory>>
<1> DEFINE new == [NewBooking("OTA", check_in, check_out, 1, "PENDING_PAYMENT", FALSE)
                     EXCEPT !.inventory_mode = asked]
           Open(d) == IF asked = "ROOM_TYPE_COUNT" THEN Reconciled(rows[d], d, booking)
                      ELSE Locked(rows[d])
<1>1. /\ asked \in Modes
      /\ booking \in [Bookings -> Booking] /\ rows \in [Days -> Row]
      /\ booking' = [booking EXCEPT ![b] = new]
      /\ booking[b].status = "NOT_CREATED"
      /\ rows' = [d \in Days |-> IF d \in Nights(new) THEN Took(Open(d), new.status, 1)
                                 ELSE rows[d]]
      /\ UNCHANGED <<inventory_mode, access, count_inventory>>
  BY DEF BookAsAsked, TypeOK, hotelVars
<1>2. /\ new \in Booking
      /\ new.status = "PENDING_PAYMENT" /\ new.quantity = 1 /\ new.source = "OTA"
      /\ new.inventory_mode = asked
  <2>1. check_out \in 0 .. LastDay + 1 /\ 1 \in 0 .. MaxQuantity
    BY BoundsAssumption
  <2>2. now + HoldTicks \in Int
    BY BoundsAssumption DEF TypeOK
  <2>3. QED
    BY <1>1, <2>1, <2>2 DEF NewBooking, Booking, Statuses, Sources
<1>3. ASSUME NEW d \in Days
      PROVE  /\ rows[d] \in Row /\ Open(d) \in Row
             /\ Exact(d) => /\ Open(d).held_rooms = rows[d].held_rooms
                            /\ Open(d).reserved_rooms = rows[d].reserved_rooms
  <2>1. rows[d] \in Row
    BY <1>1
  <2>2. CASE asked = "ROOM_TYPE_COUNT"
    <3>1. Open(d) = Reconciled(rows[d], d, booking)
      BY <2>2
    <3> HIDE DEF Open
    <3>2. QED
      BY <2>1, <3>1, ReconciledRow DEF Exact
  <2>3. CASE asked # "ROOM_TYPE_COUNT"
    <3>1. Open(d) = Locked(rows[d])
      BY <2>3
    <3> HIDE DEF Open
    <3>2. QED
      BY <2>1, <3>1, LockedCounters
  <2>4. QED
    BY <2>2, <2>3
<1> HIDE DEF Open, new
<1>4. rows' \in [Days -> Row]
  <2>1. ASSUME NEW d \in Days
        PROVE  rows'[d] \in Row
    <3>1. Took(Open(d), new.status, 1) \in Row
      BY <1>3, TookRow
    <3>2. QED
      BY <1>1, <1>3, <3>1
  <2>2. QED
    BY <1>1, <2>1
<1>5. ASSUME asked = inventory_mode, NEW d \in Days, Exact(d)
      PROVE  Exact(d)'
  <2> DEFINE open == IF d \in Nights(new) THEN Open(d) ELSE rows[d]
  <2>1. /\ open \in Row
        /\ open.held_rooms = rows[d].held_rooms
        /\ open.reserved_rooms = rows[d].reserved_rooms
    BY <1>3, <1>5
  <2>2. UsesSharedDailyInventory(new.source, new.inventory_mode)
    BY <1>2, <1>5 DEF UsesSharedDailyInventory
  <2>3. rows'[d] = IF d \in Nights(new)
                   THEN Took(open, new.status,
                             IF UsesSharedDailyInventory(new.source, new.inventory_mode)
                             THEN new.quantity ELSE 0)
                   ELSE open
    BY <1>1, <1>2, <2>2
  <2> HIDE DEF open
  <2>4. Holding(booking) \ {b} = Holding(booking) /\ Reserving(booking) \ {b} = Reserving(booking)
    BY <1>1 DEF Holding, Reserving, Shared, WithStatus
  <2>5. /\ open.held_rooms = QuantityOn(booking, Holding(booking) \ {b}, d)
        /\ open.reserved_rooms = QuantityOn(booking, Reserving(booking) \ {b}, d)
    BY <1>5, <2>1, <2>4 DEF Exact
  <2>6. /\ booking'[b] = new /\ \A x \in Bookings \ {b} : booking'[x] = booking[x]
        /\ new.status \in {"PENDING_PAYMENT", "CONFIRMED", "CHECKED_IN"}
        /\ inventory_mode' = inventory_mode
    BY <1>1, <1>2
  <2>7. QED
    BY <1>2, <2>1, <2>3, <2>5, <2>6, ChargedNight
<1>6. TypeOK'
  <2>1. booking' \in [Bookings -> Booking]
    BY <1>1, <1>2
  <2>2. default_inventory' \in Nat
    BY DEF BookAsAsked, EnsuredDefault, TypeOK
  <2>3. QED
    BY <1>4, <2>1, <2>2 DEF BookAsAsked, TypeOK, hotelVars, roomVars
<1>7. \A x \in Bookings : WasConfirmed(x) => WasConfirmed(x)'
  BY <1>1 DEF WasConfirmed
<1>8. QED
  BY <1>1, <1>4, <1>5, <1>6, <1>7 DEF NightsFollow

\* A rebuild under the mode of a switch counts the bookings of that mode.
LEMMA RebuiltRow ==
  ASSUME TypeOK, NEW mode \in Modes, NEW count \in Nat, inventory_mode' = mode,
         booking' = booking, NEW row \in Row, NEW d \in Days
  PROVE  LET r == Under(mode, count)!Reconciled(row, d, booking)
         IN  /\ r \in Row
             /\ r.exists
             /\ r.held_rooms = QuantityOn(booking, Holding(booking)', d)
             /\ r.reserved_rooms = QuantityOn(booking, Reserving(booking)', d)
             /\ r.held_rooms + r.reserved_rooms <= r.total_rooms
<1> DEFINE held == QuantityOn(booking, Holding(booking)', d)
           reserved == QuantityOn(booking, Reserving(booking)', d)
           base == Under(mode, count)!BaseTotal(d)
           ensured == Under(mode, count)!Ensured(row, base, rooms_to_close[d])
           total == Under(mode, count)!MaxOf(base, held + reserved)
<1>1. /\ Under(mode, count)!Holding(booking) = Holding(booking)'
      /\ Under(mode, count)!Reserving(booking) = Reserving(booking)'
  BY DEF Under!Holding, Under!Reserving, Under!Shared, Under!WithStatus,
         Under!UsesSharedDailyInventory,
         Holding, Reserving, Shared, WithStatus, UsesSharedDailyInventory
<1>2. \A S : Under(mode, count)!QuantityOn(booking, S, d) = QuantityOn(booking, S, d)
  <2>1. \A T : Under(mode, count)!Cardinality(T) = Cardinality(T)
    BY DEF Under!Cardinality, Cardinality
  <2>2. QED
    BY <2>1 DEF Under!QuantityOn, Under!RoomsOn, Under!Nights, Under!Days,
                QuantityOn, RoomsOn, Nights, Days
<1>3. base \in Nat
  <2>1. /\ active_rooms \in Nat /\ blocked_rooms[d] \in Nat /\ d \in Under(mode, count)!Days
    BY DEF TypeOK, Under!Days, Days
  <2>2. QED
    BY <2>1 DEF Under!BaseTotal, Under!BaseTotals, Under!SellableRooms, Under!MaxOf
<1>4. held \in Nat /\ reserved \in Nat
  <2>1. Holding(booking)' \in SUBSET Bookings /\ Reserving(booking)' \in SUBSET Bookings
    BY DEF Holding, Reserving, Shared, WithStatus
  <2>2. QED
    BY <2>1, QuantityType
<1>5. ensured \in Row /\ ensured.exists
  <2> DEFINE t == Under(mode, count)!MaxOf(base, row.held_rooms + row.reserved_rooms)
             c == IF mode = "ROOM_TYPE_COUNT" THEN Under(mode, count)!MinOf(rooms_to_close[d], t)
                  ELSE row.closed_rooms
  <2> HIDE DEF base
  <2>1. row.held_rooms \in Nat /\ row.reserved_rooms \in Nat /\ row.closed_rooms \in Nat
    BY DEF Row
  <2>2. t \in Nat
    BY <1>3, <2>1 DEF Under!MaxOf
  <2>3. c \in Nat
    <3>1. rooms_to_close[d] \in Nat
      BY DEF TypeOK
    <3> HIDE DEF t
    <3>2. QED
      BY <2>1, <2>2, <3>1 DEF Under!MinOf
  <2>4. ensured = [row EXCEPT !.exists = TRUE, !.total_rooms = t, !.closed_rooms = c]
    BY DEF Under!Ensured
  <2> HIDE DEF t, c
  <2>5. QED
    BY <2>2, <2>3, <2>4 DEF Row
<1>6. total \in Nat /\ held + reserved <= total
  BY <1>3, <1>4 DEF Under!MaxOf
<1>7. Under(mode, count)!Reconciled(row, d, booking)
        = [ensured EXCEPT !.held_rooms = held, !.reserved_rooms = reserved, !.total_rooms = total]
  BY <1>1, <1>2 DEF Under!Reconciled
<1> HIDE DEF held, reserved, base, ensured, total
<1>8. QED
  BY <1>4, <1>5, <1>6, <1>7 DEF Row, held, reserved

\* A switch rebuilds the counters of the window, if the room type is on sale.
LEMMA SwitchFollows ==
  ASSUME TypeOK, SwitchMode
  PROVE  /\ TypeOK'
         /\ selling => \A d \in settled' : Exact(d)'
         /\ UNCHANGED <<booking, access>>
<1>1. PICK mode \in Modes \ {inventory_mode} :
        LET count == IF selling THEN CountAfter(mode) ELSE count_inventory
        IN  /\ inventory_mode' = mode
            /\ count_inventory' = count
            /\ rows' = IF selling THEN Rebuilt(mode, count) ELSE rows
            /\ default_inventory' = IF selling THEN Under(mode, count)!EnsuredDefault(active_rooms, count)
                                     ELSE default_inventory
            /\ settled' = IF selling THEN InThisWindow ELSE settled
  BY DEF SwitchMode
<1> DEFINE count == IF selling THEN CountAfter(mode) ELSE count_inventory
           opened(d) == IF mode = "PHYSICAL_ROOM" /\ d >= Today
                        THEN [rows[d] EXCEPT !.closed_rooms = 0] ELSE rows[d]
           rebuilt(d) == Under(mode, count)!Reconciled(opened(d), d, booking)
<1>2. /\ UNCHANGED <<booking, access, overtaken, active_rooms, blocked_rooms, rooms_to_close,
                  now, edits>>
      /\ booking' = booking
  BY DEF SwitchMode, roomVars
<1>3. count \in Nat
  BY DEF CountAfter, TypeOK
<1>4. ASSUME NEW d \in Days
      PROVE  opened(d) \in Row /\ rows[d] \in Row
  BY DEF TypeOK, Row
<1> HIDE DEF opened
<1>5. ASSUME NEW d \in Days
      PROVE  /\ rebuilt(d) \in Row
             /\ rebuilt(d).held_rooms = QuantityOn(booking, Holding(booking)', d)
             /\ rebuilt(d).reserved_rooms = QuantityOn(booking, Reserving(booking)', d)
  <2> HIDE DEF count
  <2>1. opened(d) \in Row
    BY <1>4
  <2>2. QED
    BY <1>1, <1>2, <1>3, <2>1, RebuiltRow
<1>6. selling => rows' = [d \in Days |-> IF d \in InThisWindow THEN rebuilt(d) ELSE opened(d)]
  BY <1>1 DEF Rebuilt, opened
<1> HIDE DEF rebuilt
<1>7. rows' \in [Days -> Row]
  <2>1. CASE selling
    BY <1>4, <1>5, <1>6, <2>1
  <2>2. CASE ~selling
    BY <1>1, <2>2 DEF TypeOK
  <2>3. QED
    BY <2>1, <2>2
<1>8. TypeOK'
  <2>1. default_inventory' \in Nat
    BY <1>1, <1>3 DEF Under!EnsuredDefault, TypeOK
  <2>2. QED
    BY <1>1, <1>2, <1>3, <1>7, <2>1 DEF TypeOK
<1>9. ASSUME selling, NEW d \in settled'
      PROVE  Exact(d)'
  <2>1. d \in InThisWindow /\ d \in Days
    BY <1>1, <1>9 DEF InThisWindow, InventoryWindow
  <2>2. /\ rows'[d].held_rooms = QuantityOn(booking', Holding(booking)', d)
        /\ rows'[d].reserved_rooms = QuantityOn(booking', Reserving(booking)', d)
    BY <1>2, <1>5, <1>6, <1>9, <2>1
  <2>3. QED
    BY <2>2 DEF Exact, QuantityOn, RoomsOn
<1>10. QED
  BY <1>2, <1>8, <1>9

\* A step of the pool keeps the invariant of the two inventories, whatever the
\* no-show job has struck off its list.
LEMMA PoolFollowsInv ==
  ASSUME SiloInv, PoolFollows, UNCHANGED <<configured, switches, settled, strayed>>,
         asked' \in Modes \cup {Nobody}, no_shows' \subseteq no_shows
  PROVE  SiloInv'
<1>1. SilosTypeOK'
  BY DEF SiloInv, CountersFollowMode, SilosTypeOK, PoolFollows
<1>2. ASSUME ~strayed', NEW d \in settled'
      PROVE  Exact(d)'
  <2>1. d \in Days /\ Exact(d)
    BY <1>2 DEF SiloInv, CountersFollowMode, SilosTypeOK, Exact
  <2>2. QED
    BY <2>1 DEF PoolFollows, NightsFollow
<1>3. CountersFollowMode'
  BY <1>1, <1>2 DEF CountersFollowMode, Exact
<1>4. NoShowsConfirmed'
  BY DEF SiloInv, CountersFollowMode, SilosTypeOK, NoShowsConfirmed, PoolFollows, WasConfirmed
<1>5. UnsetMeansEmpty'
  BY DEF SiloInv, UnsetMeansEmpty, PoolFollows, selling
<1>6. QED
  BY <1>3, <1>4, <1>5 DEF SiloInv

\* Both inventories start exact.
LEMMA SiloInitInv == SiloInit => SiloInv
<1> SUFFICES ASSUME SiloInit
             PROVE  SiloInv
  OBVIOUS
<1>1. IInv
  BY InitInv DEF SiloInit
<1>2. SilosTypeOK
  <2>1. TypeOK
    BY <1>1 DEF IInv
  <2>2. /\ configured = FALSE /\ asked = Nobody /\ no_shows = {}
        /\ switches = 0 /\ settled = Days /\ strayed = FALSE
    BY DEF SiloInit
  <2>3. 0 \in 0 .. MaxSwitches
    BY SwitchesAssumption
  <2>4. QED
    BY <2>1, <2>2, <2>3 DEF SilosTypeOK
<1>3. CountersFollowMode
  BY <1>1, <1>2 DEF IInv, SiloInit, CountersFollowMode, CountersMatchBookings
<1>4. NoShowsConfirmed /\ UnsetMeansEmpty
  BY DEF SiloInit, Init, NoShowsConfirmed, UnsetMeansEmpty, selling
<1>5. QED
  BY <1>3, <1>4 DEF SiloInv

\* Every step keeps the invariant.
LEMMA SiloNextInv == SiloInv /\ [SiloNext]_siloVars => SiloInv'
<1> SUFFICES ASSUME SiloInv, [SiloNext]_siloVars
             PROVE  SiloInv'
  OBVIOUS
<1>1. TypeOK /\ SilosTypeOK /\ asked \in Modes \cup {Nobody} /\ no_shows \subseteq no_shows
  BY DEF SiloInv, CountersFollowMode, SilosTypeOK
<1>2. CASE PoolStep
  <2>1. PoolFollows
    <3>1. CASE NewBookings
      <4>1. PICK b \in Bookings, new \in Booking, reconcile \in BOOLEAN :
              /\ PlaceBooking(b, new, reconcile)
              /\ new.status \in {"PENDING_PAYMENT", "CONFIRMED", "CHECKED_IN"}
        BY <1>1, <3>1, NewBookingsPlace
      <4>2. QED
        BY <1>1, <4>1, PlaceFollows
    <3>2. CASE \E b \in Bookings :
                 \/ RecordPayment(b) \/ CheckOut(b) \/ RestoreNoShow(b)
                 \/ Listed(b) /\ (CancelBooking(b) \/ CheckIn(b))
      BY <1>1, <3>2, StepsFollow
    <3>3. CASE ExpirePendingBookings
      BY <1>1, <3>3, ExpiryFollows
    <3>4. CASE Tick
      <4>1. /\ UNCHANGED <<booking, rows, hotelVars, roomVars, count_inventory,
                           default_inventory, rooms_to_close, edits>>
            /\ now' = now + 1
        BY <3>4 DEF Tick
      <4>2. TypeOK'
        BY <1>1, <4>1 DEF TypeOK, hotelVars, roomVars
      <4>3. NightsFollow /\ UNCHANGED <<inventory_mode, access, count_inventory>>
        BY <4>1, <4>2 DEF NightsFollow, Exact, Holding, Reserving, Shared, WithStatus,
                          UsesSharedDailyInventory, TypeOK, hotelVars
      <4>4. QED
        BY <4>1, <4>2, <4>3 DEF PoolFollows, WasConfirmed
    <3>5. QED
      BY <1>2, <3>1, <3>2, <3>3, <3>4 DEF PoolStep
  <2>2. QED
    BY <1>1, <1>2, <2>1, PoolFollowsInv DEF PoolStep, jobVars, history
<1>3. CASE SetAllotment
  <2>1. PICK total \in 0 .. MaxRooms : PutCountInventory(total)
    BY <1>3 DEF SetAllotment
  <2>2. total \in Nat
    BY BoundsAssumption
  <2>3. TypeOK' /\ NightsFollow /\ UNCHANGED <<booking, inventory_mode, access>>
    BY <1>1, <2>1, <2>2, AllotmentFollows
  <2>4. /\ configured' = TRUE
        /\ UNCHANGED <<asked, no_shows, switches, settled, strayed>>
    BY <1>3 DEF SetAllotment, jobVars, history
  <2>5. SilosTypeOK'
    BY <1>1, <2>3, <2>4 DEF SilosTypeOK
  <2>6. CountersFollowMode'
    BY <2>3, <2>4, <2>5 DEF SiloInv, CountersFollowMode, SilosTypeOK, NightsFollow, Exact
  <2>7. NoShowsConfirmed' /\ UnsetMeansEmpty'
    BY <2>3, <2>4 DEF SiloInv, NoShowsConfirmed, WasConfirmed, UnsetMeansEmpty, selling
  <2>8. QED
    BY <2>6, <2>7 DEF SiloInv
<1>4. CASE SwitchMode
  <2>1. /\ TypeOK'
        /\ \A d \in settled' : Exact(d)'
        /\ UNCHANGED <<booking, access>>
        /\ selling
    BY <1>1, <1>4, SwitchFollows DEF SiloInv, UnsetMeansEmpty
  <2>2. /\ UNCHANGED <<configured, asked, no_shows>>
        /\ settled' = InThisWindow /\ switches' = switches + 1 /\ switches < MaxSwitches
        /\ inventory_mode' # inventory_mode
        /\ count_inventory' = CountAfter(inventory_mode')
        /\ strayed' = ~selling
    BY <1>4, <2>1 DEF SwitchMode, jobVars
  <2>3. SilosTypeOK'
    <3>1. switches' \in 0 .. MaxSwitches
      BY <1>1, <2>2, SwitchesAssumption DEF SilosTypeOK
    <3>2. settled' \subseteq Days
      BY <2>2 DEF InThisWindow, InventoryWindow
    <3>3. QED
      BY <1>1, <2>1, <2>2, <3>1, <3>2 DEF SilosTypeOK
  <2>4. CountersFollowMode'
    BY <2>1, <2>3 DEF CountersFollowMode, Exact
  <2>5. NoShowsConfirmed' /\ UnsetMeansEmpty'
    BY <2>1, <2>2 DEF SiloInv, NoShowsConfirmed, WasConfirmed, UnsetMeansEmpty, selling, CountAfter
  <2>6. QED
    BY <2>4, <2>5 DEF SiloInv
<1>5. CASE UNCHANGED <<booking, rows, inventory_mode, access, count_inventory,
                       configured, switches, settled, strayed>> /\ TypeOK'
            /\ asked' \in Modes \cup {Nobody}
            /\ \A b \in no_shows' : b \in no_shows \/ (b \in Bookings /\ WasConfirmed(b))
  <2>1. SilosTypeOK'
    BY <1>1, <1>5 DEF SilosTypeOK
  <2>2. CountersFollowMode'
    BY <1>5, <2>1 DEF SiloInv, CountersFollowMode, Holding, Reserving, Shared, WithStatus,
                      UsesSharedDailyInventory
  <2>3. NoShowsConfirmed' /\ UnsetMeansEmpty'
    BY <1>5 DEF SiloInv, NoShowsConfirmed, WasConfirmed, UnsetMeansEmpty, selling
  <2>4. QED
    BY <2>2, <2>3 DEF SiloInv
<1>6. CASE AskForBooking \/ FindNoShows \/ (\E b \in Bookings : PassOver(b)) \/ UNCHANGED siloVars
  <2>1. /\ UNCHANGED vars /\ UNCHANGED <<configured, switches, settled, strayed>>
        /\ asked' \in Modes \cup {Nobody}
        /\ \A b \in no_shows' : b \in no_shows \/ (b \in Bookings /\ WasConfirmed(b))
    BY <1>1, <1>6 DEF AskForBooking, FindNoShows, PassOver, siloVars, jobVars, history, TypeOK,
                      WasConfirmed
  <2>2. TypeOK'
    BY <1>1, <2>1 DEF TypeOK, vars
  <2>3. QED
    BY <1>5, <2>1, <2>2 DEF vars
<1>7. CASE \E b \in Bookings : CancelNoShow(b)
  <2>1. PICK b \in Bookings : CancelNoShow(b)
    BY <1>7
  <2>2. PoolFollows
    BY <1>1, <2>1, StepsFollow DEF CancelNoShow
  <2>3. /\ UNCHANGED <<configured, switches, settled, strayed>>
        /\ asked' \in Modes \cup {Nobody} /\ no_shows' \subseteq no_shows
    BY <1>1, <2>1 DEF CancelNoShow, history
  <2>4. QED
    BY <2>2, <2>3, PoolFollowsInv
<1>8. ASSUME NEW b \in Bookings, NEW check_in \in Days, NEW check_out \in 1 .. LastDay + 1,
             CorrectReservation(b, check_in, check_out)
      PROVE  SiloInv'
  <2>1. PoolFollows
    BY <1>1, <1>8, CorrectionFollows
  <2>2. /\ UNCHANGED <<configured, switches, settled, strayed>>
        /\ asked' \in Modes \cup {Nobody} /\ no_shows' \subseteq no_shows
    BY <1>1, <1>8 DEF CorrectReservation, jobVars, history
  <2>3. QED
    BY <2>1, <2>2, PoolFollowsInv
<1>9. ASSUME NEW b \in Bookings, NEW check_in \in Days, NEW check_out \in 1 .. LastDay + 1,
             BookAsAsked(b, check_in, check_out)
      PROVE  SiloInv'
  <2>1. /\ TypeOK'
        /\ asked = inventory_mode => NightsFollow
        /\ \A x \in Bookings : WasConfirmed(x) => WasConfirmed(x)'
        /\ UNCHANGED <<inventory_mode, access, count_inventory>>
    BY <1>1, <1>9, AskedFollows
  <2>2. /\ UNCHANGED <<configured, no_shows, switches, settled>>
        /\ asked' = Nobody
        /\ strayed' = (strayed \/ asked # inventory_mode)
    BY <1>9 DEF BookAsAsked
  <2>3. SilosTypeOK'
    BY <1>1, <2>1, <2>2 DEF SilosTypeOK
  <2>4. ASSUME ~strayed', NEW d \in settled'
        PROVE  Exact(d)'
    <3>1. d \in Days /\ Exact(d) /\ asked = inventory_mode
      BY <2>2, <2>4 DEF SiloInv, CountersFollowMode, SilosTypeOK, Exact
    <3>2. QED
      BY <2>1, <3>1 DEF NightsFollow
  <2>5. CountersFollowMode'
    BY <2>3, <2>4 DEF CountersFollowMode, Exact
  <2>6. NoShowsConfirmed' /\ UnsetMeansEmpty'
    BY <1>1, <2>1, <2>2 DEF SiloInv, SilosTypeOK, NoShowsConfirmed, UnsetMeansEmpty, selling
  <2>7. QED
    BY <2>5, <2>6 DEF SiloInv
<1>10. QED
  BY <1>2, <1>3, <1>4, <1>6, <1>7, <1>8, <1>9 DEF SiloNext

\* Whatever switches, corrections, no-show jobs and late requests there are, the
\* invariant of the two inventories holds.
THEOREM SilosInvariance == SiloSpec => []SiloInv
<1>1. QED
  BY SiloInitInv, SiloNextInv, PTL DEF SiloSpec

\* Counters never go below zero, and those of the dates the last switch covered
\* stand for the bookings of the hotel's mode, as long as nothing strayed.
THEOREM CountersFollow == SiloSpec => []CountersFollowMode
<1>1. SiloInv => CountersFollowMode
  BY DEF SiloInv
<1>2. QED
  BY <1>1, SilosInvariance, PTL

-----------------------------------------------------------------------------
(* What the two inventories may sell, and what the no-show job may cancel. *)

\* The bookings that count under the hotel's mode, before a step and after.
Counted == Holding(booking) \cup Reserving(booking)

\* What is taken does not rise when no stay changes and none becomes live.
LEMMA NoneBegins ==
  ASSUME inventory_mode' = inventory_mode, \A b \in Bookings : SameStay(b),
         Counted' \subseteq Counted, NEW d \in Days
  PROVE  Taken(booking, d)' <= Taken(booking, d)
<1>1. Counted \in SUBSET Bookings /\ Counted' \in SUBSET Bookings
  BY DEF Counted, Holding, Reserving, Shared, WithStatus
<1>2. QuantityOn(booking', Counted', d) = QuantityOn(booking, Counted', d)
  BY <1>1, SameStays
<1>3. QuantityOn(booking, Counted', d) <= QuantityOn(booking, Counted, d)
  BY <1>1, QuantityMonotone
<1>4. /\ Taken(booking, d) = QuantityOn(booking, Counted, d)
      /\ Taken(booking, d)' = QuantityOn(booking', Counted', d)
  BY DEF Taken, Counted, QuantityOn, RoomsOn
<1>5. QED
  BY <1>2, <1>3, <1>4

\* Nor when one booking changes and takes nothing that night.
LEMMA OneTakesNothing ==
  ASSUME inventory_mode' = inventory_mode, NEW b \in Bookings,
         booking' \in [Bookings -> Booking],
         \A x \in Bookings \ {b} : booking'[x] = booking[x], NEW d \in Days,
         b \notin Counted' \/ d \notin Nights(booking'[b])
  PROVE  Taken(booking, d)' <= Taken(booking, d)
<1> DEFINE S == Counted \ {b}
           T == Counted' \cap {b}
<1>1. /\ Counted \in SUBSET Bookings /\ S \in SUBSET Bookings /\ S \subseteq Counted
      /\ T \in SUBSET Bookings /\ Counted' = S \cup T /\ S \cap T = {}
      /\ \A x \in S : booking'[x] = booking[x]
  BY DEF Counted, Holding, Reserving, Shared, WithStatus, UsesSharedDailyInventory
<1>2. T = {} \/ (T = {b} /\ d \notin Nights(booking'[b]))
  OBVIOUS
<1>3. booking'[b].quantity \in 0 .. MaxQuantity
  BY DEF Booking
<1> HIDE DEF S, T
<1>4. QuantityOn(booking', T, d) = 0
  BY <1>2, <1>3, QuantityOfNone, QuantityOfOne
<1>5. QuantityOn(booking', S, d) = QuantityOn(booking, S, d)
  BY <1>1, QuantitySame
<1>6. QuantityOn(booking', Counted', d) = QuantityOn(booking', S, d) + QuantityOn(booking', T, d)
  BY <1>1, QuantitySum
<1>7. QuantityOn(booking, S, d) <= QuantityOn(booking, Counted, d) /\ QuantityOn(booking, S, d) \in Nat
  BY <1>1, QuantityMonotone, QuantityType
<1>8. /\ Taken(booking, d) = QuantityOn(booking, Counted, d)
      /\ Taken(booking, d)' = QuantityOn(booking', Counted', d)
  BY DEF Taken, Counted, QuantityOn, RoomsOn
<1>9. QED
  BY <1>4, <1>5, <1>6, <1>7, <1>8

\* An empty allotment leaves nothing open: a rebuilt row has room for what is
\* committed and no more.
LEMMA EmptyAllotmentClosed ==
  ASSUME TypeOK, inventory_mode = "ROOM_TYPE_COUNT", count_inventory = 0, NEW d \in Days
  PROVE  AvailableRooms(Reconciled(rows[d], d, booking)) = 0
<1> DEFINE held == QuantityOn(booking, Holding(booking), d)
           reserved == QuantityOn(booking, Reserving(booking), d)
           r == Reconciled(rows[d], d, booking)
           e == Ensured(rows[d], BaseTotal(d), rooms_to_close[d])
<1>1. /\ r \in Row /\ r.held_rooms = held /\ r.reserved_rooms = reserved
  BY ReconciledRow
<1>2. BaseTotal(d) = 0
  BY DEF BaseTotal, BaseTotals
<1>3. held \in Nat /\ reserved \in Nat
  BY CountedType, QuantityType
<1>4. e \in Row
  BY <1>2, EnsuredRow DEF TypeOK
<1>5. r = [e EXCEPT !.held_rooms = held, !.reserved_rooms = reserved,
                    !.total_rooms = MaxOf(BaseTotal(d), held + reserved)]
  BY DEF Reconciled
<1> HIDE DEF e, held, reserved, r
<1>6. r.total_rooms = held + reserved
  BY <1>2, <1>3, <1>4, <1>5 DEF Row, MaxOf
<1>7. r.closed_rooms \in Nat
  BY <1>1 DEF Row
<1>8. AvailableRooms(r) = 0
  BY <1>1, <1>3, <1>6, <1>7 DEF AvailableRooms, MaxOf
<1>9. QED
  BY <1>8 DEF r

\* Payment, cancellation, check-in, check-out and expiry open no booking.
LEMMA StepsBeginNone ==
  ASSUME TypeOK, NEW d \in Days,
         \/ \E b \in Bookings : RecordPayment(b) \/ CancelBooking(b) \/ CheckIn(b) \/ CheckOut(b)
         \/ ExpirePendingBookings
         \/ UNCHANGED <<booking, inventory_mode>>
  PROVE  Taken(booking, d)' <= Taken(booking, d)
<1>1. booking \in [Bookings -> Booking]
  BY DEF TypeOK
<1>2. ASSUME inventory_mode' = inventory_mode, \A b \in Bookings : SameStay(b),
             \A b \in Bookings : booking[b].status \notin {"PENDING_PAYMENT", "CONFIRMED", "CHECKED_IN"}
                                   => booking'[b].status = booking[b].status
      PROVE  Taken(booking, d)' <= Taken(booking, d)
  <2>1. Counted' \subseteq Counted
    BY <1>2 DEF Counted, Holding, Reserving, Shared, WithStatus, UsesSharedDailyInventory, SameStay
  <2>2. QED
    BY <1>2, <2>1, NoneBegins
<1>3. CASE UNCHANGED <<booking, inventory_mode>>
  BY <1>2, <1>3 DEF SameStay
<1>4. CASE ExpirePendingBookings
  <2>1. /\ inventory_mode' = inventory_mode
        /\ booking' = [b \in Bookings |-> IF b \in Overdue
                                          THEN [booking[b] EXCEPT !.status = "EXPIRED"]
                                          ELSE booking[b]]
        /\ \A b \in Overdue : booking[b].status = "PENDING_PAYMENT"
    BY <1>4 DEF ExpirePendingBookings, bookingOnly, hotelVars, Overdue
  <2> HIDE DEF Overdue
  <2>2. \A b \in Bookings : SameStay(b)
    BY <1>1, <2>1 DEF SameStay, Booking
  <2>3. QED
    BY <1>2, <2>1, <2>2
<1>5. ASSUME NEW b \in Bookings,
             RecordPayment(b) \/ CancelBooking(b) \/ CheckIn(b) \/ CheckOut(b)
      PROVE  Taken(booking, d)' <= Taken(booking, d)
  <2>1. inventory_mode' = inventory_mode
    BY <1>5 DEF RecordPayment, CancelBooking, CheckIn, CheckOut, bookingOnly, hotelVars
  <2> DEFINE Apart == /\ \A x \in Bookings : SameStay(x)
                      /\ \A x \in Bookings :
                           booking[x].status \notin {"PENDING_PAYMENT", "CONFIRMED", "CHECKED_IN"}
                             => booking'[x].status = booking[x].status
  <2>2. CASE RecordPayment(b) /\ booking[b].status = "PENDING_PAYMENT"
    <3>1. booking' = [booking EXCEPT ![b].paid = TRUE, ![b].status = "CONFIRMED",
                                     ![b].hold_expires_at = NoHold]
      BY <2>2 DEF RecordPayment
    <3>2. Apart
      BY <1>1, <2>2, <3>1 DEF SameStay, Booking
    <3>3. QED
      BY <1>2, <2>1, <3>2
  <2>3. CASE RecordPayment(b) /\ booking[b].status # "PENDING_PAYMENT"
    <3>1. booking' = [booking EXCEPT ![b].paid = TRUE, ![b].status = booking[b].status,
                                     ![b].hold_expires_at = booking[b].hold_expires_at]
      BY <2>3 DEF RecordPayment
    <3>2. Apart
      BY <1>1, <3>1 DEF SameStay, Booking
    <3>3. QED
      BY <1>2, <2>1, <3>2
  <2>4. CASE CancelBooking(b)
    <3>1. /\ booking[b].status \in {"PENDING_PAYMENT", "CONFIRMED"}
          /\ booking' = [booking EXCEPT ![b].status = "CANCELED", ![b].hold_expires_at = NoHold]
      BY <2>4 DEF CancelBooking
    <3>2. Apart
      BY <1>1, <3>1 DEF SameStay, Booking
    <3>3. QED
      BY <1>2, <2>1, <3>2
  <2>5. CASE CheckIn(b)
    <3>1. /\ booking[b].status = "CONFIRMED"
          /\ booking' = [booking EXCEPT ![b].status = "CHECKED_IN"]
      BY <2>5 DEF CheckIn
    <3>2. Apart
      BY <1>1, <3>1 DEF SameStay, Booking
    <3>3. QED
      BY <1>2, <2>1, <3>2
  <2>6. CASE CheckOut(b)
    <3>1. /\ booking[b].status = "CHECKED_IN"
          /\ booking' = [booking EXCEPT ![b].status = "CHECKED_OUT"]
      BY <2>6 DEF CheckOut
    <3>2. Apart
      BY <1>1, <3>1 DEF SameStay, Booking
    <3>3. QED
      BY <1>2, <2>1, <3>2
  <2>7. QED
    BY <1>5, <2>2, <2>3, <2>4, <2>5, <2>6
<1>6. QED
  BY <1>3, <1>4, <1>5

\* While the allotment is unset, a step that takes rooms of it restores a no-show.
LEMMA UnsetTakesNothing ==
  ASSUME SiloInv, SiloInv', [SiloNext]_siloVars, NEW d \in Days,
         inventory_mode = "ROOM_TYPE_COUNT", inventory_mode' = inventory_mode,
         switches > 0, ~configured,
         ~ \E b \in Bookings : booking[b].status = "CANCELED" /\ booking'[b].status = "CONFIRMED"
  PROVE  Taken(booking, d)' <= Taken(booking, d)
<1>1. /\ TypeOK /\ booking \in [Bookings -> Booking] /\ booking' \in [Bookings -> Booking]
      /\ count_inventory = 0
  BY DEF SiloInv, CountersFollowMode, SilosTypeOK, TypeOK, UnsetMeansEmpty
<1>2. AvailableRooms(Reconciled(rows[d], d, booking)) = 0
  BY <1>1, EmptyAllotmentClosed
<1>3. CASE NewBookings
  <2>1. PICK b \in Bookings, new \in Booking, reconcile \in BOOLEAN :
          /\ PlaceBooking(b, new, reconcile)
          /\ new.quantity >= 1
          /\ \/ reconcile \/ inventory_mode # "ROOM_TYPE_COUNT"
             \/ ~UsesSharedDailyInventory(new.source, new.inventory_mode)
    BY <1>1, <1>3, NewBookingsPlace
  <2>2. booking' = [booking EXCEPT ![b] = new]
    BY <2>1 DEF PlaceBooking
  <2>3. booking'[b] = new /\ \A x \in Bookings \ {b} : booking'[x] = booking[x]
    BY <1>1, <2>2
  <2>4. ~UsesSharedDailyInventory(new.source, new.inventory_mode) \/ d \notin Nights(new)
    <3> SUFFICES ASSUME UsesSharedDailyInventory(new.source, new.inventory_mode), d \in Nights(new)
                 PROVE  FALSE
      OBVIOUS
    <3>1. AvailableRooms(Reconciled(rows[d], d, booking)) >= new.quantity
      BY <2>1 DEF PlaceBooking
    <3>2. new.quantity \in Nat
      BY BoundsAssumption DEF Booking
    <3>3. QED
      BY <1>2, <2>1, <3>1, <3>2
  <2>5. b \notin Counted' \/ d \notin Nights(booking'[b])
    BY <2>3, <2>4 DEF Counted, Holding, Reserving, Shared, UsesSharedDailyInventory
  <2>6. QED
    BY <1>1, <2>3, <2>5, OneTakesNothing
<1>4. ASSUME NEW b \in Bookings, RestoreNoShow(b)
      PROVE  FALSE
  BY <1>1, <1>4 DEF RestoreNoShow, Booking
<1>5. CASE PoolStep
  <2>1. CASE \E b \in Bookings : RecordPayment(b) \/ CancelBooking(b) \/ CheckIn(b) \/ CheckOut(b)
    BY <1>1, <2>1, StepsBeginNone
  <2>2. CASE ExpirePendingBookings
    BY <1>1, <2>2, StepsBeginNone
  <2>3. CASE Tick
    <3>1. UNCHANGED <<booking, inventory_mode>>
      BY <2>3 DEF Tick, hotelVars
    <3>2. QED
      BY <1>1, <3>1, StepsBeginNone
  <2>4. QED
    BY <1>3, <1>4, <1>5, <2>1, <2>2, <2>3 DEF PoolStep
<1>6. CASE \/ SetAllotment \/ AskForBooking \/ FindNoShows
           \/ (\E b \in Bookings : PassOver(b)) \/ UNCHANGED siloVars
  <2>1. UNCHANGED <<booking, inventory_mode>>
    BY <1>6 DEF SetAllotment, PutCountInventory, AskForBooking, FindNoShows, PassOver,
                siloVars, vars, hotelVars
  <2>2. QED
    BY <1>1, <2>1, StepsBeginNone
<1>7. CASE SwitchMode
  BY <1>7 DEF SwitchMode
<1>8. CASE \E b \in Bookings : CancelNoShow(b)
  BY <1>1, <1>8, StepsBeginNone DEF CancelNoShow
<1>9. ASSUME NEW b \in Bookings, NEW check_in \in Days, NEW check_out \in 1 .. LastDay + 1,
             BookAsAsked(b, check_in, check_out)
      PROVE  Taken(booking, d)' <= Taken(booking, d)
  <2> DEFINE new == [NewBooking("OTA", check_in, check_out, 1, "PENDING_PAYMENT", FALSE)
                       EXCEPT !.inventory_mode = asked]
  <2>1. /\ booking' = [booking EXCEPT ![b] = new]
        /\ asked = "ROOM_TYPE_COUNT" =>
             \A n \in Nights(new) : AvailableRooms(Reconciled(rows[n], n, booking)) >= 1
    BY <1>9 DEF BookAsAsked
  <2>2. new.inventory_mode = asked
    BY DEF NewBooking
  <2> HIDE DEF new
  <2>3. booking'[b] = new /\ \A x \in Bookings \ {b} : booking'[x] = booking[x]
    BY <1>1, <2>1
  <2>4. asked # "ROOM_TYPE_COUNT" \/ d \notin Nights(new)
    BY <1>2, <2>1
  <2>5. b \notin Counted' \/ d \notin Nights(booking'[b])
    BY <2>2, <2>3, <2>4 DEF Counted, Holding, Reserving, Shared, UsesSharedDailyInventory
  <2>6. QED
    BY <1>1, <2>3, <2>5, OneTakesNothing
<1>10. ASSUME NEW b \in Bookings, NEW check_in \in Days, NEW check_out \in 1 .. LastDay + 1,
              CorrectReservation(b, check_in, check_out)
       PROVE  Taken(booking, d)' <= Taken(booking, d)
  <2>1. /\ booking' = [booking EXCEPT ![b] = [booking[b] EXCEPT !.check_in = check_in,
                                                                !.check_out = check_out]]
        /\ booking[b].inventory_mode = "PHYSICAL_ROOM"
    BY <1>10 DEF CorrectReservation
  <2>2. /\ booking'[b].inventory_mode = "PHYSICAL_ROOM"
        /\ \A x \in Bookings \ {b} : booking'[x] = booking[x]
    BY <1>1, <2>1 DEF Booking
  <2>3. b \notin Counted'
    BY <2>2 DEF Counted, Holding, Reserving, Shared, UsesSharedDailyInventory
  <2>4. QED
    BY <1>1, <2>2, <2>3, OneTakesNothing
<1>11. QED
  BY <1>5, <1>6, <1>7, <1>8, <1>9, <1>10 DEF SiloNext

\* An allotment nobody has set sells nothing, however full of physical rooms the
\* rows were before the switch.
THEOREM UnsetSellsNothing == SiloSpec => UnsetAllotmentSellsNothing
<1>1. \A d \in Days : Taken(booking, d) \in Nat /\ Taken(booking, d)' \in Nat
  <2>1. TAKE d \in Days
  <2>2. /\ Counted \in SUBSET Bookings /\ Counted' \in SUBSET Bookings
        /\ Taken(booking, d) = QuantityOn(booking, Counted, d)
        /\ Taken(booking, d)' = QuantityOn(booking', Counted', d)
    BY DEF Counted, Holding, Reserving, Shared, WithStatus, Taken, QuantityOn, RoomsOn
  <2>3. QED
    BY <2>2, QuantityType
<1>2. SiloInv /\ SiloInv' /\ [SiloNext]_siloVars =>
        [\A d \in Days :
           /\ inventory_mode = "ROOM_TYPE_COUNT" /\ inventory_mode' = inventory_mode
           /\ switches > 0 /\ ~configured
           /\ Taken(booking, d)' > Taken(booking, d)
           => \E b \in Bookings : booking[b].status = "CANCELED" /\ booking'[b].status = "CONFIRMED"
        ]_siloVars
  BY <1>1, UnsetTakesNothing
<1>3. QED
  BY <1>2, SilosInvariance, PTL DEF SiloSpec, UnsetAllotmentSellsNothing

\* The no-show job turns out nobody: what it cancels is a booking of the house's
\* own rooms that is confirmed at that moment.
LEMMA JobCancelsNoShows ==
  ASSUME SiloInv, [SiloNext]_siloVars, NEW b \in no_shows \ no_shows', booking'[b] # booking[b]
  PROVE  /\ booking[b].status = "CONFIRMED"
         /\ booking[b].inventory_mode = "PHYSICAL_ROOM"
         /\ booking'[b].status = "CANCELED"
<1>1. /\ b \in Bookings /\ WasConfirmed(b) /\ booking \in [Bookings -> Booking]
  BY DEF SiloInv, CountersFollowMode, SilosTypeOK, TypeOK, NoShowsConfirmed
<1>2. no_shows' # no_shows /\ booking' # booking
  OBVIOUS
<1>3. \E x \in Bookings : CancelNoShow(x)
  <2>1. ~PoolStep /\ ~SetAllotment /\ ~SwitchMode /\ ~AskForBooking
    BY <1>2 DEF PoolStep, SetAllotment, SwitchMode, AskForBooking, jobVars
  <2>2. ~FindNoShows /\ ~(\E x \in Bookings : PassOver(x)) /\ ~UNCHANGED siloVars
    BY <1>2 DEF FindNoShows, PassOver, siloVars, vars
  <2>3. ~ \E x \in Bookings, check_in \in Days, check_out \in 1 .. LastDay + 1 :
            BookAsAsked(x, check_in, check_out)
    <3> SUFFICES ASSUME NEW x \in Bookings, NEW check_in \in Days, NEW check_out \in 1 .. LastDay + 1,
                        BookAsAsked(x, check_in, check_out)
                 PROVE  no_shows' = no_shows
      BY <1>2
    <3> QED
      BY DEF BookAsAsked
  <2>4. ~ \E x \in Bookings, check_in \in Days, check_out \in 1 .. LastDay + 1 :
            CorrectReservation(x, check_in, check_out)
    <3> SUFFICES ASSUME NEW x \in Bookings, NEW check_in \in Days, NEW check_out \in 1 .. LastDay + 1,
                        CorrectReservation(x, check_in, check_out)
                 PROVE  no_shows' = no_shows
      BY <1>2
    <3> QED
      BY DEF CorrectReservation, jobVars
  <2>5. QED
    BY <2>1, <2>2, <2>3, <2>4 DEF SiloNext
<1>4. CancelNoShow(b)
  <2>1. PICK x \in Bookings : CancelNoShow(x)
    BY <1>3
  <2>2. no_shows' = no_shows \ {x}
    BY <2>1 DEF CancelNoShow
  <2>3. QED
    BY <2>1, <2>2
<1>5. /\ booking[b].status \in {"PENDING_PAYMENT", "CONFIRMED"}
      /\ booking' = [booking EXCEPT ![b].status = "CANCELED", ![b].hold_expires_at = NoHold]
  BY <1>4 DEF CancelNoShow, CancelBooking
<1>6. booking'[b].status = "CANCELED"
  BY <1>1, <1>5 DEF Booking
<1>7. QED
  BY <1>1, <1>5, <1>6 DEF WasConfirmed

\* A guest who arrives while the job is at work stays, and so does a booking sold
\* from an allotment.
THEOREM NoShowsOnly == SiloSpec => NoShowsNeverCame
<1>1. SiloInv /\ [SiloNext]_siloVars =>
        [\A b \in no_shows \ no_shows' :
           booking'[b] # booking[b] =>
             /\ booking[b].status = "CONFIRMED"
             /\ booking[b].inventory_mode = "PHYSICAL_ROOM"
             /\ booking'[b].status = "CANCELED"
        ]_siloVars
  BY JobCancelsNoShows
<1>2. QED
  BY <1>1, SilosInvariance, PTL DEF SiloSpec, NoShowsNeverCame
-----------------------------------------------------------------------------
(* The outline that both inventories keep. *)

\* What is committed on a row fits its total, and a missing row has nothing on it.
SoundRow(row) ==
  /\ row.held_rooms + row.reserved_rooms <= row.total_rooms
  /\ ~row.exists => row.held_rooms = 0 /\ row.reserved_rooms = 0

RowsSound == \A d \in Days : SoundRow(rows[d])

\* A row that is ensured, rebuilt, locked, relieved, moved on or charged within
\* what it has open is sound afterwards.
LEMMA EnsuredSound ==
  ASSUME NEW row \in Row, NEW base \in Nat, NEW to_close \in Nat
  PROVE  SoundRow(Ensured(row, base, to_close))
BY EnsuredRow DEF SoundRow

LEMMA ReconciledSound ==
  ASSUME TypeOK, NEW d \in Days, NEW bk
  PROVE  Reconciled(rows[d], d, bk).exists /\ SoundRow(Reconciled(rows[d], d, bk))
BY ReconciledRow DEF SoundRow

LEMMA LockedSound ==
  ASSUME TypeOK, NEW row \in Row, SoundRow(row)
  PROVE  Locked(row).exists /\ SoundRow(Locked(row))
<1> DEFINE n == IF inventory_mode = "ROOM_TYPE_COUNT" THEN count_inventory
                ELSE default_inventory
<1>1. n \in Nat
  BY DEF TypeOK
<1>2. Locked(row) = IF row.exists THEN row
                    ELSE [row EXCEPT !.exists = TRUE, !.total_rooms = n]
  BY DEF Locked
<1> HIDE DEF n
<1>3. CASE row.exists
  BY <1>2, <1>3
<1>4. CASE ~row.exists
  <2> DEFINE made == [row EXCEPT !.exists = TRUE, !.total_rooms = n]
  <2>1. /\ made.exists /\ made.total_rooms = n
        /\ made.held_rooms = row.held_rooms /\ made.reserved_rooms = row.reserved_rooms
    BY DEF Row
  <2>2. row.held_rooms = 0 /\ row.reserved_rooms = 0
    BY <1>4 DEF SoundRow
  <2>3. Locked(row) = made
    BY <1>2, <1>4
  <2> HIDE DEF made
  <2>4. QED
    BY <1>1, <2>1, <2>2, <2>3 DEF SoundRow
<1>5. QED
  BY <1>3, <1>4

LEMMA ReleasedSound ==
  ASSUME rows \in [Days -> Row], NEW S \in SUBSET Bookings, CanRelease(S), NEW d \in Days,
         SoundRow(rows[d])
  PROVE  Released(S)[d] \in Row /\ SoundRow(Released(S)[d])
<1> DEFINE h == QuantityOn(booking, S \cap Holding(booking), d)
           r == QuantityOn(booking, S \cap Reserving(booking), d)
           row == rows[d]
<1>1. row \in Row /\ h \in Nat /\ r \in Nat
  BY QuantityType
<1>2. row.held_rooms >= h /\ row.reserved_rooms >= r
  BY DEF CanRelease
<1>3. /\ row.held_rooms \in Nat /\ row.reserved_rooms \in Nat /\ row.total_rooms \in Nat
      /\ SoundRow(row)
  BY <1>1 DEF Row
<1>4. Released(S)[d] = [row EXCEPT !.held_rooms = row.held_rooms - h,
                                   !.reserved_rooms = row.reserved_rooms - r]
  BY DEF Released
<1>5. Released(S)[d] \in Row
  BY ReleasedRow
<1> HIDE DEF h, r, row
<1>6. /\ Released(S)[d].exists = row.exists /\ Released(S)[d].total_rooms = row.total_rooms
      /\ Released(S)[d].held_rooms = row.held_rooms - h
      /\ Released(S)[d].reserved_rooms = row.reserved_rooms - r
  BY <1>1, <1>4 DEF Row
<1>7. QED
  BY <1>1, <1>2, <1>3, <1>5, <1>6 DEF SoundRow

LEMMA CommittedSound ==
  ASSUME rows \in [Days -> Row], NEW b \in Bookings, CanRelease({b}), NEW d \in Days,
         SoundRow(rows[d])
  PROVE  SoundRow(Committed(b)[d])
<1> DEFINE n == QuantityOn(booking, {b} \cap Holding(booking), d)
           row == rows[d]
<1>1. row \in Row /\ n \in Nat
  BY QuantityType
<1>2. row.held_rooms >= n
  BY DEF CanRelease
<1>3. /\ row.held_rooms \in Nat /\ row.reserved_rooms \in Nat /\ row.total_rooms \in Nat
      /\ SoundRow(row)
  BY <1>1 DEF Row
<1>4. Committed(b)[d] = [row EXCEPT !.held_rooms = row.held_rooms - n,
                                    !.reserved_rooms = row.reserved_rooms + n]
  BY DEF Committed
<1> HIDE DEF n, row
<1>5. /\ Committed(b)[d].exists = row.exists /\ Committed(b)[d].total_rooms = row.total_rooms
      /\ Committed(b)[d].held_rooms = row.held_rooms - n
      /\ Committed(b)[d].reserved_rooms = row.reserved_rooms + n
  BY <1>1, <1>4 DEF Row
<1>6. QED
  BY <1>1, <1>2, <1>3, <1>5 DEF SoundRow

LEMMA TookSound ==
  ASSUME NEW row \in Row, SoundRow(row), NEW status, NEW n \in Nat,
         n = 0 \/ (row.exists /\ AvailableRooms(row) >= n)
  PROVE  SoundRow(Took(row, status, n))
<1>1. /\ row.held_rooms \in Nat /\ row.reserved_rooms \in Nat /\ row.total_rooms \in Nat
      /\ row.closed_rooms \in Nat
  BY DEF Row
<1>2. row.held_rooms + row.reserved_rooms + n <= row.total_rooms
  BY <1>1 DEF AvailableRooms, MaxOf, SoundRow
<1>3. n # 0 => row.exists
  OBVIOUS
<1>4. /\ Took(row, status, n).exists = row.exists
      /\ Took(row, status, n).total_rooms = row.total_rooms
      /\ Took(row, status, n).held_rooms + Took(row, status, n).reserved_rooms
           = row.held_rooms + row.reserved_rooms + n
      /\ n = 0 => /\ Took(row, status, n).held_rooms = row.held_rooms
                  /\ Took(row, status, n).reserved_rooms = row.reserved_rooms
  <2>1. CASE status = "PENDING_PAYMENT"
    <3>1. Took(row, status, n) = [row EXCEPT !.held_rooms = row.held_rooms + n]
      BY <2>1 DEF Took
    <3>2. QED
      BY <1>1, <3>1 DEF Row
  <2>2. CASE status # "PENDING_PAYMENT"
    <3>1. Took(row, status, n) = [row EXCEPT !.reserved_rooms = row.reserved_rooms + n]
      BY <2>2 DEF Took
    <3>2. QED
      BY <1>1, <3>1 DEF Row
  <2>3. QED
    BY <2>1, <2>2
<1>5. QED
  BY <1>1, <1>2, <1>3, <1>4 DEF SoundRow
\* A booking that is placed finds room on every row it is charged to.
LEMMA PlaceSound ==
  ASSUME TypeOK, RowsSound, NEW b \in Bookings, NEW new \in Booking, NEW reconcile \in BOOLEAN,
         PlaceBooking(b, new, reconcile)
  PROVE  RowsSound'
<1> DEFINE shared == UsesSharedDailyInventory(new.source, new.inventory_mode)
           n == IF shared THEN new.quantity ELSE 0
           Open(d) == Opened(new, reconcile, d)
<1>1. /\ rows' = [d \in Days |-> IF d \in Nights(new) THEN Took(Open(d), new.status, n)
                                 ELSE rows[d]]
      /\ shared => \A d \in Nights(new) : AvailableRooms(Open(d)) >= new.quantity
  BY DEF PlaceBooking, Opened
<1>2. n \in Nat
  BY BoundsAssumption DEF Booking
<1>3. ASSUME NEW d \in Days
      PROVE  /\ Open(d) \in Row /\ SoundRow(Open(d))
             /\ shared => Open(d).exists
  <2>1. rows[d] \in Row /\ SoundRow(rows[d])
    BY DEF TypeOK, RowsSound
  <2>2. Open(d) \in Row
    BY OpenedCounters
  <2>3. CASE reconcile
    <3>1. Open(d) = Reconciled(rows[d], d, booking)
      BY <2>3 DEF Opened
    <3> HIDE DEF Open
    <3>2. QED
      BY <2>2, <3>1, ReconciledSound
  <2>4. CASE ~reconcile /\ shared
    <3>1. Open(d) = Locked(rows[d])
      BY <2>4 DEF Opened
    <3> HIDE DEF Open
    <3>2. QED
      BY <2>1, <2>2, <3>1, LockedSound
  <2>5. CASE ~reconcile /\ ~shared
    <3>1. Open(d) = rows[d]
      BY <2>5 DEF Opened
    <3> HIDE DEF Open
    <3>2. QED
      BY <2>1, <2>5, <3>1
  <2>6. QED
    BY <2>3, <2>4, <2>5
<1> HIDE DEF Open
<1>4. ASSUME NEW d \in Days
      PROVE  SoundRow(rows'[d])
  <2>1. CASE d \in Nights(new)
    <3>1. n = 0 \/ (Open(d).exists /\ AvailableRooms(Open(d)) >= n)
      BY <1>1, <1>3, <2>1
    <3>2. SoundRow(Took(Open(d), new.status, n))
      BY <1>2, <1>3, <3>1, TookSound
    <3>3. QED
      BY <1>1, <2>1, <3>2
  <2>2. CASE d \notin Nights(new)
    BY <1>1, <2>2 DEF RowsSound
  <2>3. QED
    BY <2>1, <2>2
<1>5. QED
  BY <1>4 DEF RowsSound

\* Payment, cancellation, check-in, check-out, restore and expiry.
LEMMA StepsSound ==
  ASSUME TypeOK, RowsSound, NEW b \in Bookings,
         RecordPayment(b) \/ CancelBooking(b) \/ CheckIn(b) \/ CheckOut(b) \/ RestoreNoShow(b)
  PROVE  RowsSound'
<1>1. rows \in [Days -> Row] /\ \A d \in Days : SoundRow(rows[d])
  BY DEF TypeOK, RowsSound
<1>2. CASE RecordPayment(b)
  <2>1. rows' = rows \/ (CanRelease({b}) /\ rows' = Committed(b))
    BY <1>2 DEF RecordPayment
  <2>2. \A d \in Days : CanRelease({b}) => SoundRow(Committed(b)[d])
    BY <1>1, CommittedSound
  <2>3. QED
    BY <1>1, <2>1, <2>2 DEF RowsSound
<1>3. CASE CancelBooking(b) \/ CheckOut(b)
  <2>1. CanRelease({b}) /\ rows' = Released({b})
    BY <1>3 DEF CancelBooking, CheckOut
  <2>2. \A d \in Days : SoundRow(Released({b})[d])
    BY <1>1, <2>1, ReleasedSound
  <2>3. QED
    BY <2>1, <2>2 DEF RowsSound
<1>4. CASE CheckIn(b)
  BY <1>1, <1>4 DEF CheckIn, RowsSound
<1>5. CASE RestoreNoShow(b)
  <2> DEFINE restored == [booking EXCEPT ![b].status = "CONFIRMED", ![b].hold_expires_at = NoHold]
  <2>1. \A d \in Days : rows'[d] = Reconciled(rows[d], d, restored) \/ rows'[d] = rows[d]
    BY <1>5 DEF RestoreNoShow
  <2> HIDE DEF restored
  <2>2. \A d \in Days : SoundRow(Reconciled(rows[d], d, restored))
    BY ReconciledSound
  <2>3. QED
    BY <1>1, <2>1, <2>2 DEF RowsSound
<1>6. QED
  BY <1>2, <1>3, <1>4, <1>5

LEMMA ExpirySound ==
  ASSUME TypeOK, RowsSound, ExpirePendingBookings
  PROVE  RowsSound'
<1>1. /\ rows \in [Days -> Row] /\ \A d \in Days : SoundRow(rows[d])
      /\ Overdue \in SUBSET Bookings
  BY DEF TypeOK, RowsSound, Overdue
<1>2. CanRelease(Overdue) /\ rows' = Released(Overdue)
  BY DEF ExpirePendingBookings
<1>3. \A d \in Days : SoundRow(Released(Overdue)[d])
  BY <1>1, <1>2, ReleasedSound
<1>4. QED
  BY <1>2, <1>3 DEF RowsSound

\* A corrected stay is charged to rows that were relieved of the old one first.
LEMMA CorrectionSound ==
  ASSUME TypeOK, RowsSound, NEW b \in Bookings,
         NEW check_in \in Days, NEW check_out \in 1 .. LastDay + 1,
         CorrectReservation(b, check_in, check_out)
  PROVE  RowsSound'
<1> DEFINE old == booking[b]
           corrected == [old EXCEPT !.check_in = check_in, !.check_out = check_out]
           shared == UsesSharedDailyInventory(old.source, old.inventory_mode)
           n == IF shared THEN old.quantity ELSE 0
           freed(d) == Released({b})[d]
           Open(d) == IF shared THEN Locked(freed(d)) ELSE rows[d]
<1>1. /\ CanRelease({b}) /\ {b} \in SUBSET Bookings
      /\ shared => \A d \in Nights(corrected) : AvailableRooms(Open(d)) >= old.quantity
      /\ rows' = [d \in Days |-> IF d \in Nights(corrected) THEN Took(Open(d), old.status, n)
                                 ELSE freed(d)]
  BY DEF CorrectReservation
<1>2. n \in Nat
  BY BoundsAssumption DEF TypeOK, Booking
<1>3. ASSUME NEW d \in Days
      PROVE  /\ rows[d] \in Row /\ SoundRow(rows[d])
             /\ freed(d) \in Row /\ SoundRow(freed(d))
  BY <1>1, ReleasedSound DEF TypeOK, RowsSound
<1> HIDE DEF freed
<1>4. ASSUME NEW d \in Days
      PROVE  Open(d) \in Row /\ SoundRow(Open(d)) /\ (shared => Open(d).exists)
  <2>1. CASE shared
    <3>1. Open(d) = Locked(freed(d))
      BY <2>1
    <3> HIDE DEF Open
    <3>2. QED
      BY <1>3, <3>1, LockedSound, LockedCounters
  <2>2. CASE ~shared
    <3>1. Open(d) = rows[d]
      BY <2>2
    <3> HIDE DEF Open
    <3>2. QED
      BY <1>3, <2>2, <3>1
  <2>3. QED
    BY <2>1, <2>2
<1> HIDE DEF Open
<1>5. ASSUME NEW d \in Days
      PROVE  SoundRow(rows'[d])
  <2>1. CASE d \in Nights(corrected)
    <3>1. n = 0 \/ (Open(d).exists /\ AvailableRooms(Open(d)) >= n)
      BY <1>1, <1>4, <2>1
    <3>2. SoundRow(Took(Open(d), old.status, n))
      BY <1>2, <1>4, <3>1, TookSound
    <3>3. QED
      BY <1>1, <2>1, <3>2
  <2>2. CASE d \notin Nights(corrected)
    BY <1>1, <1>3, <2>2
  <2>3. QED
    BY <2>1, <2>2
<1>6. QED
  BY <1>5 DEF RowsSound

\* A late request finds room on the rows as its own mode opens them.
LEMMA AskedSound ==
  ASSUME TypeOK, RowsSound, NEW b \in Bookings,
         NEW check_in \in Days, NEW check_out \in 1 .. LastDay + 1,
         BookAsAsked(b, check_in, check_out)
  PROVE  RowsSound'
<1> DEFINE new == [NewBooking("OTA", check_in, check_out, 1, "PENDING_PAYMENT", FALSE)
                     EXCEPT !.inventory_mode = asked]
           Open(d) == IF asked = "ROOM_TYPE_COUNT" THEN Reconciled(rows[d], d, booking)
                      ELSE Locked(rows[d])
<1>1. /\ rows' = [d \in Days |-> IF d \in Nights(new) THEN Took(Open(d), new.status, 1)
                                 ELSE rows[d]]
      /\ \A d \in Nights(new) : AvailableRooms(Open(d)) >= 1
  BY DEF BookAsAsked
<1>2. ASSUME NEW d \in Days
      PROVE  Open(d) \in Row /\ SoundRow(Open(d)) /\ Open(d).exists
  <2>1. rows[d] \in Row /\ SoundRow(rows[d])
    BY DEF TypeOK, RowsSound
  <2>2. Open(d) = Reconciled(rows[d], d, booking) \/ Open(d) = Locked(rows[d])
    OBVIOUS
  <2> HIDE DEF Open
  <2>3. /\ Reconciled(rows[d], d, booking) \in Row
        /\ Reconciled(rows[d], d, booking).exists /\ SoundRow(Reconciled(rows[d], d, booking))
    BY ReconciledRow, ReconciledSound
  <2>4. Locked(rows[d]) \in Row /\ Locked(rows[d]).exists /\ SoundRow(Locked(rows[d]))
    BY <2>1, LockedCounters, LockedSound
  <2>5. QED
    BY <2>2, <2>3, <2>4
<1> HIDE DEF Open, new
<1>3. ASSUME NEW d \in Days
      PROVE  SoundRow(rows'[d])
  <2>1. CASE d \in Nights(new)
    BY <1>1, <1>2, <2>1, TookSound
  <2>2. CASE d \notin Nights(new)
    BY <1>1, <2>2 DEF RowsSound
  <2>3. QED
    BY <2>1, <2>2
<1>4. QED
  BY <1>3 DEF RowsSound

\* A new allotment leaves room for what is committed.
LEMMA AllotmentSound ==
  ASSUME TypeOK, RowsSound, NEW total \in Nat, PutCountInventory(total)
  PROVE  RowsSound'
<1> DEFINE base == BaseTotals(active_rooms, blocked_rooms, total)
<1>1. rows' = EnsuredRows(InThisWindow, base, rooms_to_close)
  BY DEF PutCountInventory
<1>2. base \in [Days -> Nat] /\ rooms_to_close \in [Days -> Nat] /\ rows \in [Days -> Row]
  BY DEF TypeOK, BaseTotals, SellableRooms, MaxOf
<1> HIDE DEF base
<1>3. ASSUME NEW d \in Days
      PROVE  SoundRow(rows'[d])
  <2>1. rows'[d] = Ensured(rows[d], base[d], rooms_to_close[d]) \/ rows'[d] = rows[d]
    BY <1>1 DEF EnsuredRows
  <2>2. SoundRow(Ensured(rows[d], base[d], rooms_to_close[d])) /\ SoundRow(rows[d])
    BY <1>2, EnsuredSound DEF RowsSound
  <2>3. QED
    BY <2>1, <2>2
<1>4. QED
  BY <1>3 DEF RowsSound

\* So does the rebuild of a switch.
LEMMA SwitchSound ==
  ASSUME TypeOK, RowsSound, SwitchMode
  PROVE  RowsSound'
<1>1. PICK mode \in Modes \ {inventory_mode} :
        LET count == IF selling THEN CountAfter(mode) ELSE count_inventory
        IN  /\ inventory_mode' = mode
            /\ rows' = IF selling THEN Rebuilt(mode, count) ELSE rows
  BY DEF SwitchMode
<1> DEFINE count == IF selling THEN CountAfter(mode) ELSE count_inventory
           opened(d) == IF mode = "PHYSICAL_ROOM" /\ d >= Today
                        THEN [rows[d] EXCEPT !.closed_rooms = 0] ELSE rows[d]
           rebuilt(d) == Under(mode, count)!Reconciled(opened(d), d, booking)
<1>2. count \in Nat /\ booking' = booking
  BY DEF CountAfter, TypeOK, SwitchMode
<1>3. ASSUME NEW d \in Days
      PROVE  opened(d) \in Row /\ SoundRow(opened(d)) /\ SoundRow(rows[d])
  BY DEF TypeOK, RowsSound, Row, SoundRow
<1>4. CASE selling
  <2>1. rows' = [d \in Days |-> IF d \in InThisWindow THEN rebuilt(d) ELSE opened(d)]
    BY <1>1, <1>4 DEF Rebuilt
  <2> HIDE DEF opened, count
  <2>2. ASSUME NEW d \in Days
        PROVE  SoundRow(rebuilt(d))
    <3>1. /\ rebuilt(d).exists
          /\ rebuilt(d).held_rooms + rebuilt(d).reserved_rooms <= rebuilt(d).total_rooms
      BY <1>1, <1>2, <1>3, RebuiltRow
    <3> HIDE DEF rebuilt
    <3>2. QED
      BY <3>1 DEF SoundRow
  <2> HIDE DEF rebuilt
  <2>3. QED
    BY <1>3, <2>1, <2>2 DEF RowsSound
<1>5. CASE ~selling
  BY <1>1, <1>3, <1>5 DEF RowsSound
<1>6. QED
  BY <1>4, <1>5
\* The lives that a step leaves alone, and the one that it turns.
LEMMA NoneTurns ==
  ASSUME \A b \in Bookings : booking'[b].status = booking[b].status
  PROVE  Promised!Orderly
BY DEF Promised!Orderly, Promised!Turning, LifeOf

LEMMA OneTurns ==
  ASSUME NEW b \in Bookings,
         \A x \in Bookings \ {b} : booking'[x].status = booking[x].status,
         <<LifeOf(booking[b].status), LifeOf(booking'[b].status)>> \in Promised!Turns
  PROVE  Promised!Orderly
<1>1. \A x \in Bookings \ {b} : LifeOf(booking'[x].status) = LifeOf(booking[x].status)
  OBVIOUS
<1>2. Promised!Turning \subseteq {b}
  BY <1>1 DEF Promised!Turning
<1>3. QED
  BY <1>2 DEF Promised!Orderly

\* The turns that the steps of the pool make.
LEMMA PlaceTurns ==
  ASSUME NEW b \in Bookings, booking[b].status = "NOT_CREATED",
         booking'[b].status \in {"PENDING_PAYMENT", "CONFIRMED", "CHECKED_IN"},
         \A x \in Bookings \ {b} : booking'[x].status = booking[x].status
  PROVE  Promised!Orderly
<1>1. <<LifeOf(booking[b].status), LifeOf(booking'[b].status)>> \in Promised!Turns
  BY DEF LifeOf, Promised!Turns
<1>2. QED
  BY <1>1, OneTurns

LEMMA StepsTurn ==
  ASSUME TypeOK, NEW b \in Bookings,
         RecordPayment(b) \/ CancelBooking(b) \/ CheckIn(b) \/ CheckOut(b) \/ RestoreNoShow(b)
  PROVE  Promised!Orderly
<1>1. booking \in [Bookings -> Booking] /\ booking[b] \in Booking
  BY DEF TypeOK
<1>2. \A x \in Bookings \ {b} : booking'[x].status = booking[x].status
  BY <1>1 DEF RecordPayment, CancelBooking, CheckIn, CheckOut, RestoreNoShow
<1>3. CASE RecordPayment(b) /\ booking[b].status # "PENDING_PAYMENT"
  <2>1. booking'[b].status = booking[b].status
    BY <1>1, <1>3 DEF RecordPayment, Booking
  <2>2. QED
    BY <1>2, <2>1, NoneTurns
<1>4. CASE ~(RecordPayment(b) /\ booking[b].status # "PENDING_PAYMENT")
  <2>1. \/ booking[b].status = "PENDING_PAYMENT" /\ booking'[b].status \in {"CONFIRMED", "CANCELED"}
        \/ booking[b].status = "CONFIRMED" /\ booking'[b].status \in {"CANCELED", "CHECKED_IN"}
        \/ booking[b].status = "CHECKED_IN" /\ booking'[b].status = "CHECKED_OUT"
        \/ booking[b].status = "CANCELED" /\ booking'[b].status = "CONFIRMED"
    <3>1. CASE RecordPayment(b)
      BY <1>1, <1>4, <3>1 DEF RecordPayment, Booking
    <3>2. CASE CancelBooking(b)
      BY <1>1, <3>2 DEF CancelBooking, Booking
    <3>3. CASE CheckIn(b)
      BY <1>1, <3>3 DEF CheckIn, Booking
    <3>4. CASE CheckOut(b)
      BY <1>1, <3>4 DEF CheckOut, Booking
    <3>5. CASE RestoreNoShow(b)
      BY <1>1, <3>5 DEF RestoreNoShow, Booking
    <3>6. QED
      BY <3>1, <3>2, <3>3, <3>4, <3>5
  <2>2. <<LifeOf(booking[b].status), LifeOf(booking'[b].status)>> \in Promised!Turns
    BY <2>1 DEF LifeOf, Promised!Turns
  <2>3. QED
    BY <1>2, <2>2, OneTurns
<1>5. QED
  BY <1>3, <1>4

LEMMA ExpiryTurns ==
  ASSUME TypeOK, ExpirePendingBookings
  PROVE  Promised!Orderly
<1>1. booking \in [Bookings -> Booking]
  BY DEF TypeOK
<1>2. /\ \A b \in Overdue : booking[b].status = "PENDING_PAYMENT" /\ b \in Bookings
      /\ booking' = [b \in Bookings |-> IF b \in Overdue
                                        THEN [booking[b] EXCEPT !.status = "EXPIRED"]
                                        ELSE booking[b]]
  BY DEF ExpirePendingBookings, Overdue
<1> HIDE DEF Overdue
<1>3. \A b \in Overdue : LifeOf(booking[b].status) = "WAITING" /\ LifeOf(booking'[b].status) = "GONE"
  BY <1>1, <1>2 DEF LifeOf, Booking
<1>4. \A b \in Bookings \ Overdue : LifeOf(booking'[b].status) = LifeOf(booking[b].status)
  BY <1>2
<1>5. Promised!Turning \subseteq Overdue
  BY <1>4 DEF Promised!Turning
<1>6. QED
  BY <1>2, <1>3, <1>5 DEF Promised!Orderly, Promised!Turning, Promised!Turns

\* Every step of the two inventories keeps the rows sound and the lives in order.
LEMMA SiloNextOutline ==
  ASSUME SiloInv, RowsSound, [SiloNext]_siloVars
  PROVE  RowsSound' /\ Promised!Orderly
<1>1. /\ TypeOK /\ booking \in [Bookings -> Booking]
  BY DEF SiloInv, CountersFollowMode, SilosTypeOK, TypeOK
<1>2. CASE PoolStep
  <2>1. CASE NewBookings
    <3>1. PICK b \in Bookings, new \in Booking, reconcile \in BOOLEAN :
            /\ PlaceBooking(b, new, reconcile)
            /\ new.status \in {"PENDING_PAYMENT", "CONFIRMED", "CHECKED_IN"}
      BY <1>1, <2>1, NewBookingsPlace
    <3>2. /\ booking[b].status = "NOT_CREATED" /\ booking'[b] = new
          /\ \A x \in Bookings \ {b} : booking'[x] = booking[x]
      BY <1>1, <3>1 DEF PlaceBooking
    <3>3. RowsSound'
      BY <1>1, <3>1, PlaceSound
    <3>4. Promised!Orderly
      BY <3>1, <3>2, PlaceTurns
    <3>5. QED
      BY <3>3, <3>4
  <2>2. CASE \E b \in Bookings :
               \/ RecordPayment(b) \/ CheckOut(b) \/ RestoreNoShow(b)
               \/ Listed(b) /\ (CancelBooking(b) \/ CheckIn(b))
    BY <1>1, <2>2, StepsSound, StepsTurn
  <2>3. CASE ExpirePendingBookings
    BY <1>1, <2>3, ExpirySound, ExpiryTurns
  <2>4. CASE Tick
    BY <2>4, NoneTurns DEF Tick, RowsSound
  <2>5. QED
    BY <1>2, <2>1, <2>2, <2>3, <2>4 DEF PoolStep
<1>3. CASE SetAllotment
  <2>1. PICK total \in 0 .. MaxRooms : PutCountInventory(total)
    BY <1>3 DEF SetAllotment
  <2>2. total \in Nat /\ booking' = booking
    BY <2>1, BoundsAssumption DEF PutCountInventory
  <2>3. QED
    BY <1>1, <2>1, <2>2, AllotmentSound, NoneTurns
<1>4. CASE SwitchMode
  <2>1. booking' = booking
    BY <1>4 DEF SwitchMode
  <2>2. QED
    BY <1>1, <1>4, <2>1, SwitchSound, NoneTurns
<1>5. CASE AskForBooking \/ FindNoShows \/ (\E b \in Bookings : PassOver(b)) \/ UNCHANGED siloVars
  <2>1. rows' = rows /\ booking' = booking
    BY <1>5 DEF AskForBooking, FindNoShows, PassOver, siloVars, vars
  <2>2. QED
    BY <2>1, NoneTurns DEF RowsSound
<1>6. CASE \E b \in Bookings : CancelNoShow(b)
  BY <1>1, <1>6, StepsSound, StepsTurn DEF CancelNoShow
<1>7. ASSUME NEW b \in Bookings, NEW check_in \in Days, NEW check_out \in 1 .. LastDay + 1,
             CorrectReservation(b, check_in, check_out)
      PROVE  RowsSound' /\ Promised!Orderly
  <2>1. booking' = [booking EXCEPT ![b] = [booking[b] EXCEPT !.check_in = check_in,
                                                             !.check_out = check_out]]
    BY <1>7 DEF CorrectReservation
  <2>2. \A x \in Bookings : booking'[x].status = booking[x].status
    BY <1>1, <2>1 DEF Booking
  <2>3. QED
    BY <1>1, <1>7, <2>2, CorrectionSound, NoneTurns
<1>8. ASSUME NEW b \in Bookings, NEW check_in \in Days, NEW check_out \in 1 .. LastDay + 1,
             BookAsAsked(b, check_in, check_out)
      PROVE  RowsSound' /\ Promised!Orderly
  <2> DEFINE new == [NewBooking("OTA", check_in, check_out, 1, "PENDING_PAYMENT", FALSE)
                       EXCEPT !.inventory_mode = asked]
  <2>1. /\ booking[b].status = "NOT_CREATED" /\ booking'[b] = new
        /\ \A x \in Bookings \ {b} : booking'[x] = booking[x]
    BY <1>1, <1>8 DEF BookAsAsked
  <2>2. new.status = "PENDING_PAYMENT"
    BY DEF NewBooking
  <2> HIDE DEF new
  <2>3. RowsSound'
    BY <1>1, <1>8, AskedSound
  <2>4. Promised!Orderly
    BY <2>1, <2>2, PlaceTurns
  <2>5. QED
    BY <2>3, <2>4
<1>9. QED
  BY <1>2, <1>3, <1>4, <1>5, <1>6, <1>7, <1>8 DEF SiloNext

\* Sound rows of the right type fit.
LEMMA SoundFits ==
  ASSUME TypeOK', RowsSound'
  PROVE  Promised!Fitted
<1>1. ASSUME NEW d \in Days
      PROVE  /\ rows'[d].held_rooms + rows'[d].reserved_rooms \in Nat
             /\ rows'[d].total_rooms \in Nat
             /\ rows'[d].held_rooms + rows'[d].reserved_rooms <= rows'[d].total_rooms
  BY DEF TypeOK, RowsSound, SoundRow, Row
<1>2. QED
  BY <1>1 DEF Promised!Fitted, Promised!Fits, Days

\* Switches, corrections, no-show jobs and late requests commit no night beyond
\* its total and turn no life out of order: both inventories keep the outline of
\* the promise.
THEOREM SilosKeepOutline == SiloSpec => KeepsOutline
<1> DEFINE OutlineInv == SiloInv /\ RowsSound
<1>1. SiloInit => OutlineInv /\ Promised!PromiseInit
  <2>1. SiloInit => Init /\ IInv
    BY InitInv DEF SiloInit
  <2>2. IInv => RowsSound
    BY DEF IInv, CommittedWithinTotal, MissingRowsEmpty, RowsSound, SoundRow
  <2>3. QED
    BY <2>1, <2>2, SiloInitInv, InitKeeps
<1>2. OutlineInv /\ [SiloNext]_siloVars => OutlineInv' /\ Promised!Fitted /\ Promised!Orderly
  <2> SUFFICES ASSUME OutlineInv, [SiloNext]_siloVars
               PROVE  OutlineInv' /\ Promised!Fitted /\ Promised!Orderly
    OBVIOUS
  <2>1. SiloInv' /\ RowsSound' /\ Promised!Orderly
    BY SiloNextInv, SiloNextOutline
  <2>2. TypeOK'
    BY <2>1 DEF SiloInv, CountersFollowMode, SilosTypeOK
  <2>3. QED
    BY <2>1, <2>2, SoundFits
<1> HIDE DEF OutlineInv
<1>3. QED
  BY <1>1, <1>2, PTL DEF SiloSpec, KeepsOutline, Promised!Outline
\* Every step of the promise keeps its outline.
LEMMA PromiseOutline ==
  ASSUME Promised!PromiseNext
  PROVE  Promised!Fitted /\ Promised!Orderly
<1> DEFINE life == [b \in Bookings |-> LifeOf(booking[b].status)]
           after == [b \in Bookings |-> LifeOf(booking'[b].status)]
<1> SUFFICES Promised!Orderly
  BY DEF Promised!PromiseNext
<1>1. Promised!Turning = {b \in Bookings : after[b] # life[b]}
  BY DEF Promised!Turning
<1>2. ASSUME NEW b \in Bookings, NEW l, Promised!Becomes(b, l), <<life[b], l>> \in Promised!Turns
      PROVE  Promised!Orderly
  <2>1. after = [life EXCEPT ![b] = l]
    BY <1>2 DEF Promised!Becomes
  <2>2. after[b] = l /\ \A x \in Bookings \ {b} : after[x] = life[x]
    BY <2>1
  <2>3. Promised!Turning \subseteq {b}
    BY <1>1, <2>2
  <2>4. <<LifeOf(booking[b].status), LifeOf(booking'[b].status)>> \in Promised!Turns
    BY <1>2, <2>2
  <2>5. QED
    BY <2>3, <2>4 DEF Promised!Orderly
<1>3. CASE \E b \in Bookings :
             \/ Promised!Begin(b) \/ Promised!Pay(b) \/ Promised!Arrive(b)
             \/ Promised!Cancel(b) \/ Promised!Leave(b) \/ Promised!Restore(b)
  <2>1. PICK b \in Bookings :
          \/ Promised!Begin(b) \/ Promised!Pay(b) \/ Promised!Arrive(b)
          \/ Promised!Cancel(b) \/ Promised!Leave(b) \/ Promised!Restore(b)
    BY <1>3
  <2>2. \E l : Promised!Becomes(b, l) /\ <<life[b], l>> \in Promised!Turns
    BY <2>1 DEF Promised!Begin, Promised!Pay, Promised!Arrive, Promised!Cancel, Promised!Leave,
                Promised!Restore, Promised!Turns
  <2> HIDE DEF life, after
  <2>3. QED
    BY <1>2, <2>2
<1>4. CASE Promised!Expire
  <2>1. PICK S \in SUBSET {b \in Bookings : life[b] = "WAITING"} :
          after = [b \in Bookings |-> IF b \in S THEN "GONE" ELSE life[b]]
    BY <1>4 DEF Promised!Expire
  <2> HIDE DEF life, after
  <2>2. \A b \in Promised!Turning : life[b] = "WAITING" /\ after[b] = "GONE"
    BY <1>1, <2>1
  <2>3. \A b \in Promised!Turning : LifeOf(booking[b].status) = "WAITING"
                                    /\ LifeOf(booking'[b].status) = "GONE"
    BY <1>1, <2>2 DEF life, after
  <2>4. <<"WAITING", "GONE">> \in Promised!Turns /\ Promised!Turning \subseteq Bookings
    BY <1>1 DEF Promised!Turns
  <2>5. QED
    BY <2>3, <2>4 DEF Promised!Orderly
<1>5. CASE Promised!Resize
  BY <1>5 DEF Promised!Resize, Promised!Orderly, Promised!Turning
<1>6. QED
  BY <1>3, <1>4, <1>5 DEF Promised!PromiseNext

\* The outline is part of the promise.
THEOREM PromiseHasOutline == KeepsPromise => KeepsOutline
<1>1. [Promised!PromiseNext]_(Promised!promiseVars)
        => [Promised!Fitted /\ Promised!Orderly]_(Promised!promiseVars)
  BY PromiseOutline
<1>2. QED
  BY <1>1, PTL DEF KeepsPromise, KeepsOutline, Promised!Promise, Promised!Outline

\* What is given back is refused by no counter of the dates that the last switch
\* covered, as long as nothing strayed: any bookings whose nights are among them
\* can be canceled, expired, corrected or checked out.
THEOREM SettledNightsRefuseNothing ==
  SiloSpec => [](~strayed => \A S \in SUBSET Bookings :
                   (\A b \in S : Nights(booking[b]) \subseteq settled) => CanRelease(S))
<1>1. ASSUME SiloInv, ~strayed, NEW S \in SUBSET Bookings,
             \A b \in S : Nights(booking[b]) \subseteq settled
      PROVE  CanRelease(S)
  <2>1. ASSUME NEW d \in Days
        PROVE  /\ rows[d].held_rooms >= QuantityOn(booking, S \cap Holding(booking), d)
               /\ rows[d].reserved_rooms >= QuantityOn(booking, S \cap Reserving(booking), d)
    <3>1. CASE d \in settled
      BY <1>1, <3>1, ExactReleases DEF SiloInv, CountersFollowMode
    <3>2. CASE d \notin settled
      <4>1. /\ RoomsOn(booking, S \cap Holding(booking), d) = {}
            /\ RoomsOn(booking, S \cap Reserving(booking), d) = {}
        BY <1>1, <3>2 DEF RoomsOn
      <4>2. /\ QuantityOn(booking, S \cap Holding(booking), d) = 0
            /\ QuantityOn(booking, S \cap Reserving(booking), d) = 0
        BY <4>1, FS_EmptySet DEF QuantityOn
      <4>3. rows[d].held_rooms \in Nat /\ rows[d].reserved_rooms \in Nat
        BY <1>1 DEF SiloInv, CountersFollowMode, SilosTypeOK, TypeOK, Row
      <4>4. QED
        BY <4>2, <4>3
    <3>3. QED
      BY <3>1, <3>2
  <2>2. QED
    BY <2>1 DEF CanRelease
<1>2. SiloInv => (~strayed => \A S \in SUBSET Bookings :
                    (\A b \in S : Nights(booking[b]) \subseteq settled) => CanRelease(S))
  BY <1>1
<1>3. QED
  BY <1>2, SilosInvariance, PTL
=============================================================================
