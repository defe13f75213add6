---------------------------- MODULE MCRoomRaces ----------------------------
(* RoomRaces on small instances. *)
EXTENDS RoomRaces, TLC

\* Bookings are interchangeable, and so are rooms.
RaceSymmetry == Permutations(Bookings) \cup Permutations(Rooms)
=============================================================================
