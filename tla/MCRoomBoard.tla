----------------------------- MODULE MCRoomBoard -----------------------------
(* RoomBoard on small instances. *)
EXTENDS RoomBoard, TLC

\* Bookings are interchangeable, and so are the rooms: which of the candidates
\* a payment takes is left open.
BoardSymmetry == Permutations(Bookings) \cup Permutations(Rooms)

\* Up to MaxReleased pairs of a booking and a room it has left are followed,
\* and up to MaxBlocked rooms are blocked at a time.
MaxReleased == 1
MaxBlocked == 1
MCNext ==
  /\ BoardNext
  /\ Cardinality(released') <= MaxReleased
  /\ Cardinality({r \in Rooms : blocked'[r] # {}}) <= MaxBlocked
MCSpec == BoardInit /\ [][MCNext]_boardVars
=============================================================================
