--------------------------- MODULE RoomAssignment ---------------------------
(***************************************************************************)
(* Which guest is in which room: checkIn, roomMove and checkOut of         *)
(* src/backend/src/modules/reservations/service.js, with the room archive  *)
(* of setup/room-management.js and housekeeping's discrepancies.           *)
(*                                                                         *)
(* A front-desk request is two steps.  Begin: withIdempotency's plain read *)
(* of the key fixes the transaction's REPEATABLE READ snapshot.  Then the  *)
(* handler, in one step: it holds the locks of the reservation and of the  *)
(* rooms, which it reads as they are, and writes the open assignments as   *)
(* they are; a plain read of reservation_rooms sees the snapshot, taken    *)
(* before it queued on those locks.                                        *)
(*                                                                         *)
(* Dates, cleanliness (front desk may override it) and out-of-order        *)
(* periods (RoomInventory) do not decide who holds a room and are left out. *)
(***************************************************************************)

CONSTANTS
    Reservations,
    Rooms,
    Clerks,       \* requests that may be under way at once
    None          \* no reservation

ASSUME NoneAssumption == None \notin Reservations

VARIABLES
    status,       \* reservations.status
    held,         \* reservation_rooms with effective_to null: <<reservation, room>>
    occupied,     \* rooms with front_desk_status 'occupied'
    archived,     \* rooms with status 'archived'
    discrepant,   \* rooms with has_discrepancy
    request,      \* the reservation each clerk's request is about
    view,         \* held, as each request's snapshot has it
    overlapped    \* history: two requests about one reservation have overlapped

vars == <<status, held, occupied, archived, discrepant, request, view, overlapped>>

TypeOK ==
    /\ status \in [Reservations -> {"confirmed", "checked_in", "checked_out"}]
    /\ held \subseteq Reservations \X Rooms
    /\ occupied \subseteq Rooms
    /\ archived \subseteq Rooms
    /\ discrepant \subseteq Rooms
    /\ request \in [Clerks -> Reservations \cup {None}]
    /\ view \in [Clerks -> SUBSET (Reservations \X Rooms)]
    /\ overlapped \in BOOLEAN

Init ==
    /\ status = [r \in Reservations |-> "confirmed"]
    /\ held = {}
    /\ occupied = {}
    /\ archived = {}
    /\ discrepant = {}
    /\ request = [c \in Clerks |-> None]
    /\ view = [c \in Clerks |-> {}]
    /\ overlapped = FALSE

-----------------------------------------------------------------------------
RoomsOf(r, rows)   == {k \in Rooms : <<r, k>> \in rows}
GuestsIn(k, rows)  == {r \in Reservations : <<r, k>> \in rows}
Others(r, rows)    == {row \in rows : row[1] # r}

(* Mutant: the flag of the locked row is not looked at. *)
IsRoomOccupiedBySnapshot(k, rows) == GuestsIn(k, rows) # {}

(* isRoomOccupied: the locked row's flag, or an open assignment of the      *)
(* snapshot.                                                                *)
IsRoomOccupied(k, rows) == k \in occupied \/ GuestsIn(k, rows) # {}

(* The room guards of checkIn and roomMove. *)
Assignable(c, k) == k \notin archived /\ k \notin discrepant /\ ~IsRoomOccupied(k, view[c])

(* withIdempotency: the snapshot. *)
Begin(c, r) ==
    /\ request[c] = None
    /\ request' = [request EXCEPT ![c] = r]
    /\ view' = [view EXCEPT ![c] = held]
    /\ overlapped' = (overlapped \/ \E other \in Clerks : request[other] = r)
    /\ UNCHANGED <<status, held, occupied, archived, discrepant>>

(* The request ends: committed, or rolled back by a refusal or an error. *)
Ended(c) ==
    /\ request' = [request EXCEPT ![c] = None]
    /\ view' = [view EXCEPT ![c] = {}]
    /\ UNCHANGED overlapped

CheckIn(c, k) ==
    LET r == request[c] IN
    /\ r # None
    /\ status[r] = "confirmed"
    /\ Assignable(c, k)
    /\ held' = held \cup {<<r, k>>}
    /\ occupied' = occupied \cup {k}
    /\ status' = [status EXCEPT ![r] = "checked_in"]
    /\ Ended(c)
    /\ UNCHANGED <<archived, discrepant>>

(* Mutant: the assignment to close is the one the snapshot has. *)
RoomMoveFromView(c, k) ==
    LET r == request[c] IN
    /\ r # None
    /\ status[r] = "checked_in"
    /\ Assignable(c, k)
    /\ held' = (held \ {<<r, old>> : old \in RoomsOf(r, view[c])}) \cup {<<r, k>>}
    /\ occupied' = (occupied \ RoomsOf(r, view[c])) \cup {k}
    /\ Ended(c)
    /\ UNCHANGED <<status, archived, discrepant>>

(* roomMove: the assignment that is open now is closed, the room that the   *)
(* snapshot has for the guest becomes vacant.                               *)
RoomMove(c, k) ==
    LET r == request[c] IN
    /\ r # None
    /\ status[r] = "checked_in"
    /\ Assignable(c, k)
    /\ held' = Others(r, held) \cup {<<r, k>>}
    /\ occupied' = (occupied \ RoomsOf(r, view[c])) \cup {k}
    /\ Ended(c)
    /\ UNCHANGED <<status, archived, discrepant>>

(* Mutant: a check-out is written as a no-show. *)
CheckOutAsNoShow(c) ==
    LET r == request[c] IN
    /\ r # None
    /\ status[r] = "checked_in"
    /\ held' = Others(r, held)
    /\ occupied' = occupied \ RoomsOf(r, view[c])
    /\ status' = [status EXCEPT ![r] = "no_show"]
    /\ Ended(c)
    /\ UNCHANGED <<archived, discrepant>>

(* checkOut, once the folios are settled (StayBilling): likewise.           *)
CheckOut(c) ==
    LET r == request[c] IN
    /\ r # None
    /\ status[r] = "checked_in"
    /\ held' = Others(r, held)
    /\ occupied' = occupied \ RoomsOf(r, view[c])
    /\ status' = [status EXCEPT ![r] = "checked_out"]
    /\ Ended(c)
    /\ UNCHANGED <<archived, discrepant>>

GiveUp(c) ==
    /\ request[c] # None
    /\ Ended(c)
    /\ UNCHANGED <<status, held, occupied, archived, discrepant>>

-----------------------------------------------------------------------------
(* archiveRooms takes its locks before its first plain read, so it sees the *)
(* assignments as they are; restoreRoom.                                    *)
ArchiveRooms(gone) ==
    /\ \A k \in gone : k \notin discrepant /\ ~IsRoomOccupied(k, held)
    /\ archived' = archived \cup gone
    /\ UNCHANGED <<status, held, occupied, discrepant, request, view, overlapped>>

RestoreRoom(k) ==
    /\ k \in archived
    /\ archived' = archived \ {k}
    /\ UNCHANGED <<status, held, occupied, discrepant, request, view, overlapped>>

(* reportRoomStatus: what the housekeeper saw differs from the flag.        *)
(* resolveDiscrepancy leaves the flag as it is.                             *)
RaiseDiscrepancy(k, seen) ==
    /\ seen # (IF k \in occupied THEN "occupied" ELSE "vacant")
    /\ k \notin discrepant
    /\ discrepant' = discrepant \cup {k}
    /\ UNCHANGED <<status, held, occupied, archived, request, view, overlapped>>

ResolveDiscrepancy(k) ==
    /\ k \in discrepant
    /\ discrepant' = discrepant \ {k}
    /\ UNCHANGED <<status, held, occupied, archived, request, view, overlapped>>

FrontDesk(c) ==
    \/ \E r \in Reservations : Begin(c, r)
    \/ \E k \in Rooms : CheckIn(c, k) \/ RoomMove(c, k)
    \/ CheckOut(c) \/ GiveUp(c)

Rest ==
    \/ \E gone \in SUBSET Rooms \ {{}} : ArchiveRooms(gone)
    \/ \E k \in Rooms :
        \/ RestoreRoom(k) \/ ResolveDiscrepancy(k)
        \/ \E seen \in {"occupied", "vacant"} : RaiseDiscrepancy(k, seen)

Next == (\E c \in Clerks : FrontDesk(c)) \/ Rest

Spec == Init /\ [][Next]_vars

-----------------------------------------------------------------------------
(* Exactly the guests in house have a room, and one each, however moves and *)
(* check-outs of the same reservation race: the open assignment is closed   *)
(* where it is, not where the snapshot has it.                              *)
GuestHasOneRoom ==
    \A r \in Reservations :
        IF status[r] = "checked_in" THEN \E k \in Rooms : RoomsOf(r, held) = {k}
        ELSE RoomsOf(r, held) = {}

(* No guest is in a room taken out of service, also when the flag of the    *)
(* room is wrong.                                                           *)
GuestsInActiveRooms == \A row \in held : row[2] \notin archived

(* Whoever is in house has one room, in service.                            *)
GuestIsPlaced == GuestHasOneRoom /\ GuestsInActiveRooms

(* isRoomOccupied's comment calls front_desk_status "the race-proof signal" *)
(* that check-in and room move set to occupied, check-out and move-out to   *)
(* vacant.  As long as no two requests about one guest have overlapped, it  *)
(* is set on the rooms with a guest and on no other.                        *)
FlagIsTheAssignment ==
    ~overlapped => occupied = {k \in Rooms : GuestsIn(k, held) # {}}

(* lockRooms' comment: without the room locks two check-ins "both read the  *)
(* room as free and both get assigned".  With them no room has two guests.  *)
NoRoomIsShared ==
    \A k \in Rooms : \A r1, r2 \in GuestsIn(k, held) : r1 = r2

(* It is so as long as no two requests about one guest have overlapped,     *)
(* however requests about different guests do, for the same room or not.    *)
NoRoomIsSharedInOrder == ~overlapped => NoRoomIsShared

(* The flag the next check-in relies on and the rooms given out agree.      *)
RoomsGivenInOrder == FlagIsTheAssignment /\ NoRoomIsSharedInOrder
=============================================================================
