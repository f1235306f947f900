------------------------ MODULE RoomAssignmentProofs ------------------------
(***************************************************************************)
(* Proofs about RoomAssignment, for any number of reservations, rooms and  *)
(* concurrent requests.                                                    *)
(*                                                                         *)
(* The two properties that hold whatever the snapshots are inductive with  *)
(* the types.  That the flag of a room is right needs two more facts of    *)
(* the histories in which requests about one guest never overlapped: such  *)
(* requests are about different guests, and each one's snapshot shows its  *)
(* own guest's rooms as they are.                                          *)
(***************************************************************************)
EXTENDS RoomAssignment, TLAPS

USE NoneAssumption

(* Requests under way are about different guests. *)
DifferentGuests ==
    ~overlapped => \A c, d \in Clerks :
        request[c] # None /\ request[c] = request[d] => c = d

(* A request's snapshot has its own guest's rooms as they are. *)
OwnViewIsCurrent ==
    ~overlapped => \A c \in Clerks : request[c] # None =>
        RoomsOf(request[c], view[c]) = RoomsOf(request[c], held)

Assigned == TypeOK /\ GuestHasOneRoom /\ GuestsInActiveRooms

Ordered == DifferentGuests /\ OwnViewIsCurrent /\ FlagIsTheAssignment /\ NoRoomIsSharedInOrder

-----------------------------------------------------------------------------
(* The two sides of an assignment. *)
LEMMA BothSides ==
  ASSUME NEW rows, NEW r \in Reservations, NEW k \in Rooms
  PROVE  k \in RoomsOf(r, rows) <=> r \in GuestsIn(k, rows)
BY DEF RoomsOf, GuestsIn

(* Every row stays a row of reservation_rooms. *)
LEMMA RowsOf ==
  ASSUME NEW rows \in SUBSET (Reservations \X Rooms), NEW r \in Reservations
  PROVE  /\ Others(r, rows) \in SUBSET (Reservations \X Rooms)
         /\ \A row \in Others(r, rows) : row \in rows
BY DEF Others

-----------------------------------------------------------------------------
(* Check-in, move and check-out: who is where, whatever the snapshot shows. *)
LEMMA CheckInAssigns ==
  ASSUME Assigned, NEW c \in Clerks, NEW k \in Rooms, CheckIn(c, k)
  PROVE  Assigned'
<1> DEFINE r == request[c]
<1>1. r \in Reservations /\ status[r] = "confirmed" /\ held \in SUBSET (Reservations \X Rooms)
  BY DEF CheckIn, Assigned, TypeOK
<1>2. held' = held \cup {<<r, k>>} /\ status' = [status EXCEPT ![r] = "checked_in"]
  BY DEF CheckIn
<1>3. TypeOK'
  BY <1>1, <1>2, RowsOf DEF CheckIn, Ended, Assigned, TypeOK
<1>4. GuestHasOneRoom'
  <2> SUFFICES ASSUME NEW q \in Reservations
               PROVE  IF status'[q] = "checked_in" THEN \E m \in Rooms : RoomsOf(q, held') = {m}
                      ELSE RoomsOf(q, held') = {}
    BY DEF GuestHasOneRoom
  <2>1. RoomsOf(q, held') = (IF q = r THEN RoomsOf(q, held) \cup {k} ELSE RoomsOf(q, held))
    BY <1>1, <1>2 DEF RoomsOf
  <2>2. CASE q = r
    <3>1. RoomsOf(r, held) = {}
      BY <1>1 DEF Assigned, GuestHasOneRoom
    <3> QED BY <3>1, <2>1, <2>2, <1>1, <1>2 DEF Assigned, TypeOK
  <2>3. CASE q # r
    BY <2>1, <2>3, <1>1, <1>2 DEF Assigned, GuestHasOneRoom, TypeOK
  <2> QED BY <2>2, <2>3
<1>5. GuestsInActiveRooms'
  BY <1>2 DEF CheckIn, Assignable, Assigned, GuestsInActiveRooms
<1> QED BY <1>3, <1>4, <1>5 DEF Assigned

LEMMA RoomMoveAssigns ==
  ASSUME Assigned, NEW c \in Clerks, NEW k \in Rooms, RoomMove(c, k)
  PROVE  Assigned'
<1> DEFINE r == request[c]
<1>1. r \in Reservations /\ status[r] = "checked_in" /\ held \in SUBSET (Reservations \X Rooms)
  BY DEF RoomMove, Assigned, TypeOK
<1>2. held' = Others(r, held) \cup {<<r, k>>} /\ status' = status
  BY DEF RoomMove
<1>3. Others(r, held) \in SUBSET (Reservations \X Rooms)
  BY <1>1, RowsOf
<1>4. TypeOK'
  BY <1>1, <1>2, <1>3, RowsOf DEF RoomMove, Ended, Assigned, TypeOK
<1>5. GuestHasOneRoom'
  <2> SUFFICES ASSUME NEW q \in Reservations
               PROVE  IF status'[q] = "checked_in" THEN \E m \in Rooms : RoomsOf(q, held') = {m}
                      ELSE RoomsOf(q, held') = {}
    BY DEF GuestHasOneRoom
  <2>1. RoomsOf(q, held') = (IF q = r THEN {k} ELSE RoomsOf(q, held))
    BY <1>1, <1>2 DEF RoomsOf, Others
  <2> QED BY <2>1, <1>1, <1>2 DEF Assigned, GuestHasOneRoom
<1>6. GuestsInActiveRooms'
  BY <1>1, <1>2, RowsOf DEF RoomMove, Assignable, Assigned, GuestsInActiveRooms
<1> QED BY <1>4, <1>5, <1>6 DEF Assigned

LEMMA CheckOutAssigns ==
  ASSUME Assigned, NEW c \in Clerks, CheckOut(c)
  PROVE  Assigned'
<1> DEFINE r == request[c]
<1>1. r \in Reservations /\ status[r] = "checked_in" /\ held \in SUBSET (Reservations \X Rooms)
  BY DEF CheckOut, Assigned, TypeOK
<1>2. held' = Others(r, held) /\ status' = [status EXCEPT ![r] = "checked_out"]
  BY DEF CheckOut
<1>3. TypeOK'
  BY <1>1, <1>2, RowsOf DEF CheckOut, Ended, Assigned, TypeOK
<1>4. GuestHasOneRoom'
  <2> SUFFICES ASSUME NEW q \in Reservations
               PROVE  IF status'[q] = "checked_in" THEN \E m \in Rooms : RoomsOf(q, held') = {m}
                      ELSE RoomsOf(q, held') = {}
    BY DEF GuestHasOneRoom
  <2>1. RoomsOf(q, held') = (IF q = r THEN {} ELSE RoomsOf(q, held))
    BY <1>1, <1>2 DEF RoomsOf, Others
  <2> QED BY <2>1, <1>1, <1>2 DEF Assigned, GuestHasOneRoom, TypeOK
<1>5. GuestsInActiveRooms'
  BY <1>1, <1>2, RowsOf DEF CheckOut, Assigned, GuestsInActiveRooms, Others
<1> QED BY <1>3, <1>4, <1>5 DEF Assigned

(* No step moves a guest into a room that is, or is going, out of service.  *)
LEMMA AssignedStep ==
  ASSUME Assigned, [Next]_vars
  PROVE  Assigned'
<1> USE DEF Assigned
<1>1. ASSUME NEW c \in Clerks, NEW r \in Reservations, Begin(c, r) PROVE Assigned'
  BY <1>1 DEF Begin, TypeOK, GuestHasOneRoom, GuestsInActiveRooms, RoomsOf
<1>2. ASSUME NEW c \in Clerks, GiveUp(c) PROVE Assigned'
  BY <1>2 DEF GiveUp, Ended, TypeOK, GuestHasOneRoom, GuestsInActiveRooms, RoomsOf
<1>3. ASSUME NEW gone \in SUBSET Rooms, ArchiveRooms(gone) PROVE Assigned'
  <2>1. TypeOK' /\ GuestHasOneRoom'
    BY <1>3 DEF ArchiveRooms, TypeOK, GuestHasOneRoom, RoomsOf
  <2>2. \A row \in held : row[2] \notin gone
    <3> SUFFICES ASSUME NEW row \in held, row[2] \in gone PROVE FALSE
      OBVIOUS
    <3>1. row = <<row[1], row[2]>> /\ row[1] \in Reservations
      BY DEF TypeOK
    <3> QED BY <3>1, <1>3 DEF ArchiveRooms, IsRoomOccupied, GuestsIn
  <2>3. GuestsInActiveRooms'
    BY <2>2, <1>3 DEF ArchiveRooms, GuestsInActiveRooms
  <2> QED BY <2>1, <2>3
<1>4. ASSUME NEW k \in Rooms, RestoreRoom(k) PROVE Assigned'
  BY <1>4 DEF RestoreRoom, TypeOK, GuestHasOneRoom, GuestsInActiveRooms, RoomsOf
<1>5. ASSUME NEW k \in Rooms, ResolveDiscrepancy(k) PROVE Assigned'
  BY <1>5 DEF ResolveDiscrepancy, TypeOK, GuestHasOneRoom, GuestsInActiveRooms, RoomsOf
<1>6. ASSUME NEW k \in Rooms, NEW seen \in {"occupied", "vacant"}, RaiseDiscrepancy(k, seen)
      PROVE Assigned'
  BY <1>6 DEF RaiseDiscrepancy, TypeOK, GuestHasOneRoom, GuestsInActiveRooms, RoomsOf
<1>7. CASE UNCHANGED vars
  BY <1>7 DEF vars, TypeOK, GuestHasOneRoom, GuestsInActiveRooms, RoomsOf
<1> QED
  BY <1>1, <1>2, <1>3, <1>4, <1>5, <1>6, <1>7, CheckInAssigns, RoomMoveAssigns,
     CheckOutAssigns DEF Next, FrontDesk, Rest

-----------------------------------------------------------------------------
(* A request begins with a snapshot of its guest's rooms as they are.       *)
LEMMA BeginInOrder ==
  ASSUME Assigned, Ordered, NEW c \in Clerks, NEW r \in Reservations, Begin(c, r)
  PROVE  Ordered'
<1> USE DEF Assigned
<1>1. FlagIsTheAssignment' /\ NoRoomIsSharedInOrder'
  BY DEF Begin, Ordered, FlagIsTheAssignment, NoRoomIsSharedInOrder, NoRoomIsShared, GuestsIn
<1>2. DifferentGuests'
  BY DEF Begin, Ordered, DifferentGuests, TypeOK
<1>3. OwnViewIsCurrent'
  BY DEF Begin, Ordered, OwnViewIsCurrent, TypeOK, RoomsOf
<1> QED BY <1>1, <1>2, <1>3 DEF Ordered

(* When a request ends and only its own guest's rooms change, every other   *)
(* request still sees its own guest's rooms as they are.                    *)
LEMMA EndInOrder ==
  ASSUME Assigned, Ordered, NEW c \in Clerks, Ended(c), request[c] # None,
         \A q \in Reservations : q # request[c] => RoomsOf(q, held') = RoomsOf(q, held)
  PROVE  DifferentGuests' /\ OwnViewIsCurrent'
<1> USE DEF Assigned
<1>1. DifferentGuests'
  BY DEF Ended, Ordered, DifferentGuests, TypeOK
<1>2. OwnViewIsCurrent'
  <2> SUFFICES ASSUME ~overlapped', NEW d \in Clerks, request'[d] # None
               PROVE  RoomsOf(request'[d], view'[d]) = RoomsOf(request'[d], held')
    BY DEF OwnViewIsCurrent
  <2>1. d # c /\ request'[d] = request[d] /\ view'[d] = view[d] /\ ~overlapped
    BY DEF Ended, TypeOK
  <2>2. request[d] # request[c] /\ request[d] \in Reservations
    BY <2>1 DEF Ordered, DifferentGuests, TypeOK
  <2>3. RoomsOf(request[d], view[d]) = RoomsOf(request[d], held)
    BY <2>1 DEF Ordered, OwnViewIsCurrent
  <2> QED BY <2>1, <2>2, <2>3
<1> QED BY <1>1, <1>2

(* A check-in that finds the flag vacant finds the room empty. *)
LEMMA CheckInInOrder ==
  ASSUME Assigned, Ordered, NEW c \in Clerks, NEW k \in Rooms, CheckIn(c, k)
  PROVE  Ordered'
<1> USE DEF Assigned
<1> DEFINE r == request[c]
<1>1. r \in Reservations /\ held \in SUBSET (Reservations \X Rooms) /\ r # None
  BY DEF CheckIn, TypeOK
<1>2. held' = held \cup {<<r, k>>} /\ occupied' = occupied \cup {k} /\ overlapped' = overlapped
  BY DEF CheckIn, Ended
<1>3. \A m \in Rooms : GuestsIn(m, held') =
        (IF m = k THEN GuestsIn(m, held) \cup {r} ELSE GuestsIn(m, held))
  BY <1>1, <1>2 DEF GuestsIn
<1>4. DifferentGuests' /\ OwnViewIsCurrent'
  <2>1. \A q \in Reservations : q # r => RoomsOf(q, held') = RoomsOf(q, held)
    BY <1>1, <1>2 DEF RoomsOf
  <2> QED BY <2>1, <1>1, EndInOrder DEF CheckIn
<1>5. ~overlapped => GuestsIn(k, held) = {}
  BY DEF CheckIn, Assignable, IsRoomOccupied, Ordered, FlagIsTheAssignment
<1>6. FlagIsTheAssignment'
  BY <1>2, <1>3 DEF Ordered, FlagIsTheAssignment
<1>7. NoRoomIsSharedInOrder'
  BY <1>2, <1>3, <1>5 DEF Ordered, NoRoomIsSharedInOrder, NoRoomIsShared
<1> QED BY <1>4, <1>6, <1>7 DEF Ordered

(* The room the snapshot has for the guest is the one the guest is in, and  *)
(* the guest is alone there: it can be set vacant.                          *)
LEMMA VacatesOwnRoom ==
  ASSUME Assigned, Ordered, ~overlapped, NEW c \in Clerks, request[c] # None,
         NEW m \in Rooms
  PROVE  (m \in RoomsOf(request[c], view[c])) <=> (GuestsIn(m, held) = {request[c]})
<1> DEFINE r == request[c]
<1>1. r \in Reservations
  BY DEF Assigned, TypeOK
<1>2. RoomsOf(r, view[c]) = RoomsOf(r, held)
  BY DEF Ordered, OwnViewIsCurrent
<1>3. m \in RoomsOf(r, held) <=> r \in GuestsIn(m, held)
  BY <1>1, BothSides
<1>4. \A q \in GuestsIn(m, held) : r \in GuestsIn(m, held) => q = r
  BY DEF Ordered, NoRoomIsSharedInOrder, NoRoomIsShared
<1> QED BY <1>2, <1>3, <1>4

LEMMA RoomMoveInOrder ==
  ASSUME Assigned, Ordered, NEW c \in Clerks, NEW k \in Rooms, RoomMove(c, k)
  PROVE  Ordered'
<1> USE DEF Assigned
<1> DEFINE r == request[c]
<1>1. r \in Reservations /\ held \in SUBSET (Reservations \X Rooms) /\ r # None
  BY DEF RoomMove, TypeOK
<1>2. /\ held' = Others(r, held) \cup {<<r, k>>}
      /\ occupied' = (occupied \ RoomsOf(r, view[c])) \cup {k}
      /\ overlapped' = overlapped
  BY DEF RoomMove, Ended
<1>3. Others(r, held) \in SUBSET (Reservations \X Rooms)
  BY <1>1, RowsOf
<1>4. \A m \in Rooms : GuestsIn(m, held') =
        (IF m = k THEN (GuestsIn(m, held) \ {r}) \cup {r} ELSE GuestsIn(m, held) \ {r})
  BY <1>1, <1>2 DEF GuestsIn, Others
<1>5. DifferentGuests' /\ OwnViewIsCurrent'
  <2>1. \A q \in Reservations : q # r => RoomsOf(q, held') = RoomsOf(q, held)
    BY <1>1, <1>2 DEF RoomsOf, Others
  <2> QED BY <2>1, <1>1, EndInOrder DEF RoomMove
<1>6. ~overlapped => GuestsIn(k, held) = {}
  BY DEF RoomMove, Assignable, IsRoomOccupied, Ordered, FlagIsTheAssignment
<1>7. FlagIsTheAssignment'
  <2> SUFFICES ASSUME ~overlapped, NEW m \in Rooms
               PROVE  m \in occupied' <=> GuestsIn(m, held') # {}
    BY <1>2, <1>1 DEF FlagIsTheAssignment, TypeOK
  <2>1. m \in occupied <=> GuestsIn(m, held) # {}
    BY DEF Ordered, FlagIsTheAssignment
  <2>2. m \in RoomsOf(r, view[c]) <=> GuestsIn(m, held) = {r}
    BY <1>1, VacatesOwnRoom
  <2> QED BY <2>1, <2>2, <1>2, <1>4
<1>8. NoRoomIsSharedInOrder'
  BY <1>2, <1>4, <1>6 DEF Ordered, NoRoomIsSharedInOrder, NoRoomIsShared
<1> QED BY <1>5, <1>7, <1>8 DEF Ordered

LEMMA CheckOutInOrder ==
  ASSUME Assigned, Ordered, NEW c \in Clerks, CheckOut(c)
  PROVE  Ordered'
<1> USE DEF Assigned
<1> DEFINE r == request[c]
<1>1. r \in Reservations /\ held \in SUBSET (Reservations \X Rooms) /\ r # None
  BY DEF CheckOut, TypeOK
<1>2. /\ held' = Others(r, held)
      /\ occupied' = occupied \ RoomsOf(r, view[c])
      /\ overlapped' = overlapped
  BY DEF CheckOut, Ended
<1>3. \A m \in Rooms : GuestsIn(m, held') = GuestsIn(m, held) \ {r}
  BY <1>1, <1>2 DEF GuestsIn, Others
<1>4. DifferentGuests' /\ OwnViewIsCurrent'
  <2>1. \A q \in Reservations : q # r => RoomsOf(q, held') = RoomsOf(q, held)
    BY <1>1, <1>2 DEF RoomsOf, Others
  <2> QED BY <2>1, <1>1, EndInOrder DEF CheckOut
<1>5. FlagIsTheAssignment'
  <2> SUFFICES ASSUME ~overlapped, NEW m \in Rooms
               PROVE  m \in occupied' <=> GuestsIn(m, held') # {}
    BY <1>2, <1>1 DEF FlagIsTheAssignment, TypeOK
  <2>1. m \in occupied <=> GuestsIn(m, held) # {}
    BY DEF Ordered, FlagIsTheAssignment
  <2>2. m \in RoomsOf(r, view[c]) <=> GuestsIn(m, held) = {r}
    BY <1>1, VacatesOwnRoom
  <2> QED BY <2>1, <2>2, <1>2, <1>3
<1>6. NoRoomIsSharedInOrder'
  BY <1>2, <1>3 DEF Ordered, NoRoomIsSharedInOrder, NoRoomIsShared
<1> QED BY <1>4, <1>5, <1>6 DEF Ordered

LEMMA OrderedStep ==
  ASSUME Assigned, Ordered, [Next]_vars
  PROVE  Ordered'
<1> USE DEF Ordered, DifferentGuests, OwnViewIsCurrent, FlagIsTheAssignment,
            NoRoomIsSharedInOrder, NoRoomIsShared, GuestsIn, RoomsOf
<1>1. ASSUME NEW c \in Clerks, GiveUp(c) PROVE Ordered'
  <2>1. DifferentGuests' /\ OwnViewIsCurrent'
    BY <1>1, EndInOrder DEF GiveUp
  <2> QED BY <2>1, <1>1 DEF GiveUp, Ended
<1>2. ASSUME UNCHANGED <<held, occupied, request, view, overlapped>> PROVE Ordered'
  BY <1>2
<1>3. ASSUME Rest PROVE Ordered'
  BY <1>2, <1>3 DEF Rest, ArchiveRooms, RestoreRoom, RaiseDiscrepancy, ResolveDiscrepancy
<1>4. CASE UNCHANGED vars
  BY <1>2, <1>4 DEF vars
<1> QED
  BY <1>1, <1>3, <1>4, BeginInOrder, CheckInInOrder, RoomMoveInOrder, CheckOutInOrder
     DEF Next, FrontDesk

(* At the start nobody is in house and no request is under way.             *)
LEMMA InitAssigned == Init => Assigned /\ Ordered
BY DEF Init, Assigned, Ordered, TypeOK, GuestHasOneRoom, GuestsInActiveRooms, DifferentGuests,
       OwnViewIsCurrent, FlagIsTheAssignment, NoRoomIsSharedInOrder, NoRoomIsShared, RoomsOf, GuestsIn

-----------------------------------------------------------------------------
(* The tables keep their types: a guest is confirmed, in house or gone.     *)
THEOREM AssignmentTypes == Spec => []TypeOK
<1>1. Assigned => TypeOK
  BY DEF Assigned
<1> QED BY <1>1, InitAssigned, AssignedStep, PTL DEF Spec

(* Every guest in house has one room, nobody else has any, however stale    *)
(* the snapshots of the moves and check-outs are.                           *)
THEOREM OneRoomEach == Spec => []GuestHasOneRoom
<1>1. Assigned => GuestHasOneRoom
  BY DEF Assigned
<1> QED BY <1>1, InitAssigned, AssignedStep, PTL DEF Spec

(* An archive never takes a room with a guest, even one whose flag is wrong. *)
THEOREM NobodyInArchivedRoom == Spec => []GuestsInActiveRooms
<1>1. Assigned => GuestsInActiveRooms
  BY DEF Assigned
<1> QED BY <1>1, InitAssigned, AssignedStep, PTL DEF Spec

(* Without overlapping requests about one guest, front_desk_status is right. *)
THEOREM FlagIsRight == Spec => []FlagIsTheAssignment
<1>1. Ordered => FlagIsTheAssignment
  BY DEF Ordered
<1> QED BY <1>1, InitAssigned, AssignedStep, OrderedStep, PTL DEF Spec

(* And then no room is given to two guests, however check-ins race for it.  *)
THEOREM RoomGivenOnce == Spec => []NoRoomIsSharedInOrder
<1>1. Ordered => NoRoomIsSharedInOrder
  BY DEF Ordered
<1> QED BY <1>1, InitAssigned, AssignedStep, OrderedStep, PTL DEF Spec

(* checkIn, roomMove, checkOut and archiving leave every guest in house in  *)
(* exactly one room, which is in service.                                   *)
THEOREM GuestsPlaced == Spec => []GuestIsPlaced
BY OneRoomEach, NobodyInArchivedRoom, PTL DEF GuestIsPlaced

(* As long as no two requests about one guest overlap, front_desk_status is *)
(* right and no room is given out twice.                                    *)
THEOREM RoomsGiven == Spec => []RoomsGivenInOrder
BY FlagIsRight, RoomGivenOnce, PTL DEF RoomsGivenInOrder

=============================================================================
