--------------------------- MODULE MCRoomInventory ---------------------------
(* Small instances of RoomInventory for TLC. *)
EXTENDS RoomInventory, TLC

Interchangeable == Permutations(Reservations) \cup Permutations(Rooms \ Frail)
=============================================================================
