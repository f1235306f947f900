-------------------------- MODULE MCRoomAssignment --------------------------
(* Small instances of RoomAssignment for TLC. *)
EXTENDS RoomAssignment, TLC

Interchangeable ==
    Permutations(Reservations) \cup Permutations(Rooms) \cup Permutations(Clerks)
=============================================================================
