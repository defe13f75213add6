--------------------------- MODULE MCInventorySilos ---------------------------
(* InventorySilos on small instances. *)
EXTENDS InventorySilos, TLC

\* The booking rows are interchangeable: every action treats them alike.
BookingSymmetry == Permutations(Bookings)

\* Rooms come back from cleaning at once, payments are followed for OTA bookings
\* (only those are restored for them), a request and the job are not under way
\* together, and after a stray the next thing of interest is the next switch.
MCNext ==
  /\ SiloNext
  /\ active_rooms' = active_rooms
  /\ \A b \in Bookings : booking'[b].source = "PMS" => ~booking'[b].paid
  /\ asked' = Nobody \/ no_shows' = {}
  /\ strayed => switches' # switches
MCSpec == SiloInit /\ [][MCNext]_siloVars
===============================================================================
