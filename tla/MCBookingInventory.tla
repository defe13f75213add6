------------------------ MODULE MCBookingInventory ------------------------
(* BookingInventory on small instances. *)
EXTENDS BookingInventory, TLC

\* The booking rows are interchangeable: every action treats them alike.
BookingSymmetry == Permutations(Bookings)

\* Bookings of two rooms and the last tick are explored alone, bookings of one
\* room with either hotel edits or an overtaken request.  Payments are followed
\* for OTA bookings: a desk booking's change nothing here.
MCNext ==
  /\ Next
  /\ \A b \in Bookings : booking'[b].source = "PMS" => ~booking'[b].paid
  /\ Cardinality(overtaken') <= 1
  /\ \/ edits' = 0 /\ overtaken' = {}
     \/ /\ edits' = 0 \/ overtaken' = {}
        /\ now' < LastTick /\ \A b \in Bookings : booking'[b].quantity <= 1
MCSpec == Init /\ [][MCNext]_vars
=============================================================================
