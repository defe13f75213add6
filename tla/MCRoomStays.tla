----------------------------- MODULE MCRoomStays -----------------------------
(* RoomStays on small instances. *)
EXTENDS RoomStays, TLC

\* Bookings are interchangeable, and so are the rooms: which of the candidates
\* a payment takes is left open.
StaySymmetry == Permutations(Bookings) \cup Permutations(Rooms)
=============================================================================
