--------------------------- MODULE InventoryProofs ---------------------------
(***************************************************************************)
(* Theorems about what is sold from a limited stock: the nights of a room  *)
(* type (RoomInventory), and the units of an item and the uses of a        *)
(* voucher (Register).  Both are counts kept beside the rows they count.   *)
(*                                                                         *)
(* RoomInventory, for any number of bookings, rooms and nights and any     *)
(* overbooking percentage: the nights a booking is rated and counted for,  *)
(* and what may oversell a night.  What makes the counts exact is that an  *)
(* audit which commits found every overstaying guest booked as its         *)
(* snapshot shows: an extension meanwhile has rated the first night the    *)
(* audit would add, and the unique key refuses the audit (NotExtended).    *)
(*                                                                         *)
(* Register, for any number of checks, groups, items and requests and any  *)
(* stock.  What a settlement bills was read before the check was locked,   *)
(* so all that is known of it is that it bills something (RequestOK); a    *)
(* settlement is of a check that has none, so nothing is counted twice.    *)
(***************************************************************************)
EXTENDS RoomInventory, Register, FiniteSetTheorems, TLAPS

-----------------------------------------------------------------------------
(* RoomInventory. *)

(* A booking has a rate for each of its nights and for no other. *)
StayIsRated ==
    \A r \in Reservations :
        status[r] # "none" => rated[r] = StayDates(arrive[r], depart[r])

StaysHaveNights == \A r \in Reservations : status[r] # "none" => arrive[r] < depart[r]

(* What the snapshot of a running audit still tells of each guest in it. *)
StillKnown(r) ==
    /\ status[r] \in {"checked_in", "checked_out"}
    /\ arrive[r] < audit.leaves[r]
    /\ audit.leaves[r] <= depart[r]
    /\ audit.rates[r] = StayDates(arrive[r], audit.leaves[r])

SnapshotRight == audit.running => today \in Nights /\ \A r \in audit.guests : StillKnown(r)

StayInv == TypeOK /\ StayIsRated /\ StaysHaveNights /\ SnapshotRight

(* The fields of the snapshot. *)
LEMMA AuditFields ==
  ASSUME TypeOK
  PROVE  /\ audit.running \in BOOLEAN
         /\ audit.guests \subseteq Reservations
         /\ audit.leaves \in [Reservations -> Days]
         /\ audit.rates \in [Reservations -> SUBSET Nights]
  BY DEF TypeOK

(* A guest the audit adds a night for has not been extended since its        *)
(* snapshot: the night of the old departure would be rated twice.            *)
LEMMA NotExtended ==
  ASSUME StayInv, CommitAudit, NEW r \in Overstays
  PROVE  /\ r \in Reservations /\ r \in audit.guests /\ StillKnown(r)
         /\ depart[r] = audit.leaves[r] /\ depart[r] <= today
<1>1. /\ r \in audit.guests /\ audit.leaves[r] <= today
      /\ r \in Reservations /\ StillKnown(r) /\ today \in Nights
  BY AuditFields DEF Overstays, StayInv, SnapshotRight, CommitAudit
<1>2. rated[r] = StayDates(arrive[r], depart[r])
  BY <1>1 DEF StayInv, StayIsRated, StillKnown
<1>3. arrive[r] \in Days /\ depart[r] \in Days /\ audit.leaves[r] \in Days
  BY <1>1, AuditFields DEF StayInv, TypeOK
<1>4. audit.leaves[r] \in Nights
  BY <1>1, <1>3, NightAssumption DEF Days, Nights
<1>5. ASSUME audit.leaves[r] < depart[r] PROVE FALSE
  <2>1. audit.leaves[r] \in rated[r]
    BY <1>1, <1>2, <1>3, <1>4, <1>5 DEF StayDates, StillKnown, Days, Nights
  <2>2. audit.leaves[r] \in NewRates(r)
    BY <1>1, <1>3, <1>4 DEF NewRates, OverstayNights, StayDates, StillKnown, Days, Nights
  <2>. QED
    BY <2>1, <2>2 DEF CommitAudit
<1>. QED
  BY <1>1, <1>3, <1>5 DEF StillKnown, Days

-----------------------------------------------------------------------------
(* Types and stays.  Every operation but the audit's concerns one booking.   *)

(* The operations that leave bookings and the snapshot alone. *)
LEMMA HouseStays ==
  ASSUME StayInv, Housekeeping
  PROVE  StayInv'
<1>1. UNCHANGED <<booking, sold, today, audit>>
  BY DEF Housekeeping, ArchiveRooms, RestoreRoom, RaiseDiscrepancy, ResolveDiscrepancy,
     OpenOutOfOrder, CloseOutOfOrder
<1>2. active' \subseteq Rooms /\ discrepant' \subseteq Rooms
  BY FrailAssumption DEF Housekeeping, ArchiveRooms, RestoreRoom, RaiseDiscrepancy,
     ResolveDiscrepancy, OpenOutOfOrder, CloseOutOfOrder, StayInv, TypeOK
<1>3. outOfOrder' \in [Rooms -> SUBSET Nights]
  <2>1. ASSUME NEW k \in Frail, NEW from \in Nights, NEW to \in Nights, OpenOutOfOrder(k, from, to)
        PROVE  outOfOrder' \in [Rooms -> SUBSET Nights]
    <3>1. from..to \in SUBSET Nights
      BY NightAssumption DEF Nights
    <3>2. outOfOrder' = [outOfOrder EXCEPT ![k] = from..to]
      BY <2>1 DEF OpenOutOfOrder
    <3>3. outOfOrder \in [Rooms -> SUBSET Nights]
      BY DEF StayInv, TypeOK
    <3> DEFINE period == from..to
    <3> HIDE DEF period
    <3>4. period \in SUBSET Nights /\ outOfOrder' = [outOfOrder EXCEPT ![k] = period]
      BY <3>1, <3>2 DEF period
    <3>. QED
      BY <3>3, <3>4
  <2>2. ASSUME NEW k \in Frail, NEW to, CloseOutOfOrder(k, to)
        PROVE  outOfOrder' \in [Rooms -> SUBSET Nights]
    <3>1. outOfOrder' = [outOfOrder EXCEPT ![k] =
                           {n \in Nights : n <= to /\ \E from \in @ : from <= n}]
      BY <2>2 DEF CloseOutOfOrder
    <3>2. outOfOrder \in [Rooms -> SUBSET Nights]
      BY DEF StayInv, TypeOK
    <3>. QED
      BY <3>1, <3>2
  <2>3. CASE UNCHANGED outOfOrder
    BY <2>3 DEF StayInv, TypeOK
  <2>. QED
    BY <2>1, <2>2, <2>3 DEF Housekeeping, ArchiveRooms, RestoreRoom, RaiseDiscrepancy,
       ResolveDiscrepancy
<1>4. TypeOK'
  BY <1>1, <1>2, <1>3 DEF StayInv, TypeOK, booking
<1>. QED
  BY <1>1, <1>4 DEF StayInv, StayIsRated, StaysHaveNights, SnapshotRight, StillKnown, booking

(* A booking that is made, or changes its status alone. *)
LEMMA BookStays ==
  ASSUME StayInv, NEW r \in Reservations, NEW from \in Nights, NEW to \in Days, NEW s \in Statuses,
         Book(r, from, to, s)
  PROVE  StayInv'
<1>1. /\ status[r] = "none" /\ from < to /\ s # "none"
      /\ status' = [status EXCEPT ![r] = s]
      /\ arrive' = [arrive EXCEPT ![r] = from]
      /\ depart' = [depart EXCEPT ![r] = to]
      /\ rated' = [rated EXCEPT ![r] = StayDates(from, to)]
      /\ UNCHANGED <<house, today, audit>>
  BY DEF Book, SetStatus
<1>2. sold' \in [Nights -> Nat]
  BY DEF Book, Sell, StayInv, TypeOK
<1>3. TypeOK'
  <2>1. StayDates(from, to) \subseteq Nights /\ from \in Days
    BY NightAssumption DEF StayDates, Nights, Days
  <2>. QED
    BY <1>1, <1>2, <2>1 DEF StayInv, TypeOK, house
<1>4. audit.running => r \notin audit.guests
  BY <1>1 DEF StayInv, SnapshotRight, StillKnown
<1>5. SnapshotRight'
  <2>1. ASSUME NEW q \in audit.guests, audit.running PROVE StillKnown(q)'
    <3>1. q \in Reservations /\ q # r /\ StillKnown(q)
      BY <1>4, <2>1, AuditFields DEF StayInv, SnapshotRight
    <3>. QED
      BY <1>1, <3>1 DEF StillKnown, StayInv, TypeOK
  <2>. QED
    BY <1>1, <2>1 DEF StayInv, SnapshotRight
<1>6. StayIsRated' /\ StaysHaveNights'
  BY <1>1 DEF StayInv, StayIsRated, StaysHaveNights, TypeOK
<1>. QED
  BY <1>3, <1>5, <1>6 DEF StayInv

(* The operations on one booking that leave its dates alone. *)
StatusAction(r) ==
    Confirm(r) \/ Promote(r) \/ Cancel(r) \/ NoShow(r) \/ CheckIn(r) \/ CheckOut(r)

(* They lose no guest of a running audit's snapshot: whoever was in house   *)
(* is in house or has checked out.                                           *)
LEMMA StatusStays ==
  ASSUME StayInv, NEW r \in Reservations, StatusAction(r)
  PROVE  StayInv'
<1>1. PICK s \in Statuses \ {"none"} :
         /\ status' = [status EXCEPT ![r] = s]
         /\ status[r] # "none"
         /\ status[r] \in {"checked_in", "checked_out"} => s \in {"checked_in", "checked_out"}
         /\ UNCHANGED <<arrive, depart, rated, house, today, audit>>
  BY DEF StatusAction, Confirm, Promote, Cancel, NoShow, CheckIn, CheckOut, SetStatus, Statuses
<1>2. sold' \in [Nights -> Nat]
  BY DEF StatusAction, Confirm, Promote, Cancel, NoShow, CheckIn, CheckOut, Sell, Release,
     StayInv, TypeOK
<1>3. TypeOK'
  BY <1>1, <1>2 DEF StayInv, TypeOK, house
<1>. QED
  BY <1>1, <1>3, AuditFields DEF StayInv, StayIsRated, StaysHaveNights, SnapshotRight,
     StillKnown, TypeOK

(* An extension rates the nights it adds, and only moves departures later.  *)
LEMMA ExtendStays ==
  ASSUME StayInv, NEW r \in Reservations, NEW to \in Days, NEW seen, ExtendStay(r, to, seen)
  PROVE  StayInv'
<1>1. /\ status[r] = "checked_in" /\ depart[r] < to
      /\ depart' = [depart EXCEPT ![r] = to]
      /\ rated' = [rated EXCEPT ![r] = @ \cup StayDates(depart[r], to)]
      /\ UNCHANGED <<status, arrive, house, today, audit>>
  BY DEF ExtendStay
<1>2. sold' \in [Nights -> Nat]
  BY DEF ExtendStay, Sell, StayInv, TypeOK
<1>3. arrive[r] \in Days /\ depart[r] \in Days /\ arrive[r] < depart[r]
  BY <1>1 DEF StayInv, TypeOK, StaysHaveNights
<1>4. StayDates(arrive[r], depart[r]) \cup StayDates(depart[r], to) = StayDates(arrive[r], to)
  BY <1>1, <1>3 DEF StayDates, Days, Nights
<1>5. TypeOK'
  <2>1. StayDates(depart[r], to) \subseteq Nights
    BY DEF StayDates
  <2>2. rated' \in [Reservations -> SUBSET Nights]
    BY <1>1, <2>1 DEF StayInv, TypeOK
  <2>3. depart' \in [Reservations -> Days]
    BY <1>1 DEF StayInv, TypeOK
  <2>. QED
    BY <1>1, <1>2, <2>2, <2>3 DEF StayInv, TypeOK, house
<1>6. StayIsRated' /\ StaysHaveNights'
  <2>1. rated[r] = StayDates(arrive[r], depart[r])
    BY <1>1 DEF StayInv, StayIsRated
  <2>2. rated' = [rated EXCEPT ![r] = StayDates(arrive[r], to)]
    BY <1>1, <1>4, <2>1
  <2>3. arrive[r] < to
    BY <1>1, <1>3 DEF Days
  <2>. QED
    BY <1>1, <2>2, <2>3 DEF StayInv, StayIsRated, StaysHaveNights, TypeOK
<1>7. \A q \in Reservations : depart[q] <= depart'[q]
  BY <1>1, <1>3 DEF StayInv, TypeOK, Days
<1>8. SnapshotRight'
  <2>1. ASSUME NEW q \in audit.guests, audit.running PROVE StillKnown(q)'
    <3>1. /\ q \in Reservations /\ StillKnown(q) /\ audit.leaves[q] \in Days
          /\ depart[q] \in Days /\ depart'[q] \in Days
      BY <1>5, <2>1, AuditFields DEF StayInv, SnapshotRight, TypeOK
    <3>. QED
      BY <1>1, <1>7, <3>1 DEF StillKnown, Days
  <2>. QED
    BY <1>1, <2>1 DEF StayInv, SnapshotRight
<1>. QED
  BY <1>5, <1>6, <1>8 DEF StayInv

(* The audit reads everybody in house; it adds the nights up to tonight. *)
LEMMA AuditStays ==
  ASSUME StayInv, Audits
  PROVE  StayInv'
<1>1. CASE BeginAudit
  <2>1. /\ today \in Nights
        /\ audit' = [running |-> TRUE, guests |-> {r \in Reservations : status[r] = "checked_in"},
                     leaves |-> depart, rates |-> rated]
        /\ UNCHANGED <<booking, sold, house, today>>
    BY <1>1 DEF BeginAudit
  <2>2. TypeOK'
    BY <2>1 DEF StayInv, TypeOK, booking, house
  <2>3. SnapshotRight'
    BY <2>1 DEF StayInv, SnapshotRight, StillKnown, StayIsRated, StaysHaveNights, TypeOK,
       booking, Days
  <2>. QED
    BY <2>1, <2>2, <2>3 DEF StayInv, StayIsRated, StaysHaveNights, booking
<1>2. CASE RollBackAudit
  <2>1. audit' = NoAudit /\ UNCHANGED <<booking, sold, house, today>>
    BY <1>2 DEF RollBackAudit
  <2>2. NoAudit \in [running : BOOLEAN, guests : SUBSET Reservations,
                     leaves : [Reservations -> Days], rates : [Reservations -> SUBSET Nights]]
    BY NightAssumption DEF NoAudit, Days
  <2>. QED
    BY <2>1, <2>2 DEF StayInv, TypeOK, StayIsRated, StaysHaveNights, SnapshotRight, NoAudit,
       booking, house
<1>3. CASE CommitAudit
  <2>1. /\ audit.running /\ today \in Nights
        /\ sold' = [n \in Nights |-> sold[n] + Cardinality(OverstaysOn(n))]
        /\ rated' = [r \in Reservations |->
                       IF r \in Overstays THEN rated[r] \cup NewRates(r) ELSE rated[r]]
        /\ depart' = [r \in Reservations |-> IF r \in Overstays THEN today + 1 ELSE depart[r]]
        /\ today' = today + 1 /\ audit' = NoAudit
        /\ UNCHANGED <<status, arrive, house>>
    BY <1>3 DEF CommitAudit, StayInv, SnapshotRight
  <2>2. \A n \in Nights : Cardinality(OverstaysOn(n)) \in Nat
    <3>1. \A n : IsFiniteSet(OverstaysOn(n))
      <4>1. \A n : OverstaysOn(n) \subseteq Reservations
        BY AuditFields DEF OverstaysOn, Overstays, StayInv
      <4>. QED
        BY <4>1, ReservationsAreFinite, FS_Subset
    <3>. QED
      BY <3>1, FS_CardinalityType
  <2>3. today + 1 \in Days
    BY <2>1, NightAssumption DEF Nights, Days
  <2>4. NoAudit \in [running : BOOLEAN, guests : SUBSET Reservations,
                     leaves : [Reservations -> Days], rates : [Reservations -> SUBSET Nights]]
    BY NightAssumption DEF NoAudit, Days
  <2>5. \A r : NewRates(r) \subseteq Nights
    BY DEF NewRates, OverstayNights, StayDates
  <2>6. TypeOK'
    BY <2>1, <2>2, <2>3, <2>4, <2>5 DEF StayInv, TypeOK, house
  <2>7. ASSUME NEW r \in Overstays
        PROVE  rated[r] \cup NewRates(r) = StayDates(arrive[r], today + 1) /\ arrive[r] < today + 1
    <3>1. /\ r \in Reservations /\ StillKnown(r)
          /\ depart[r] = audit.leaves[r] /\ depart[r] <= today
      BY <1>3, <2>7, NotExtended
    <3>2. /\ rated[r] = StayDates(arrive[r], depart[r])
          /\ audit.rates[r] = StayDates(arrive[r], depart[r]) /\ arrive[r] < depart[r]
      BY <3>1 DEF StayInv, StayIsRated, StillKnown
    <3>3. arrive[r] \in Days /\ depart[r] \in Days
      BY <3>1 DEF StayInv, TypeOK
    <3>. QED
      BY <2>1, <3>1, <3>2, <3>3 DEF NewRates, OverstayNights, StayDates, Days, Nights
  <2>8. StayIsRated' /\ StaysHaveNights'
    BY <2>1, <2>7 DEF StayInv, StayIsRated, StaysHaveNights
  <2>. QED
    BY <2>1, <2>6, <2>8 DEF StayInv, SnapshotRight, NoAudit
<1>. QED
  BY <1>1, <1>2, <1>3 DEF Audits

(* Stays are rated, and the snapshot of a running audit tells the truth. *)
LEMMA StayInvHolds == Spec => []StayInv
<1>1. Init => StayInv
  <2> SUFFICES ASSUME Init PROVE StayInv
    OBVIOUS
  <2>1. NoAudit \in [running : BOOLEAN, guests : SUBSET Reservations,
                     leaves : [Reservations -> Days], rates : [Reservations -> SUBSET Nights]]
    BY NightAssumption DEF NoAudit, Days
  <2>2. TypeOK
    BY <2>1, NightAssumption DEF Init, TypeOK, Days, Statuses
  <2>. QED
    BY <2>2 DEF Init, StayInv, StayIsRated, StaysHaveNights, SnapshotRight, NoAudit
<1>2. StayInv /\ [Next]_vars => StayInv'
  <2> SUFFICES ASSUME StayInv, [Next]_vars PROVE StayInv'
    OBVIOUS
  <2>1. CASE Guests
    BY <2>1, BookStays, StatusStays, ExtendStays DEF Guests, StatusAction
  <2>2. CASE UNCHANGED vars
    BY <2>2 DEF vars, StayInv, TypeOK, StayIsRated, StaysHaveNights, SnapshotRight, StillKnown,
       StayDates
  <2>. QED
    BY <2>1, <2>2, AuditStays, HouseStays DEF Next
<1>. QED
  BY <1>1, <1>2, PTL DEF Spec

(* Every variable keeps its type. *)
THEOREM InventoryTypes == Spec => []TypeOK
  BY StayInvHolds, PTL DEF StayInv

(* Closing a night leaves no guest of the audit's snapshot behind.           *)
THEOREM OverstaysBooked == Spec => NobodyOverstaysUnbooked
<1>1. ASSUME StayInv, [Next]_vars, today' # today, NEW r \in audit.guests
      PROVE  depart'[r] >= today'
  <2>1. CommitAudit
    BY <1>1 DEF Next, Guests, Book, Confirm, Promote, Cancel, NoShow, CheckIn, CheckOut, ExtendStay,
       Audits, BeginAudit, RollBackAudit, Housekeeping, ArchiveRooms, RestoreRoom,
       RaiseDiscrepancy, ResolveDiscrepancy, OpenOutOfOrder, CloseOutOfOrder, vars
  <2>2. /\ r \in Reservations /\ StillKnown(r) /\ today \in Nights
        /\ depart' = [q \in Reservations |-> IF q \in Overstays THEN today + 1 ELSE depart[q]]
        /\ today' = today + 1
    BY <1>1, <2>1, AuditFields DEF StayInv, SnapshotRight, CommitAudit
  <2>3. arrive[r] \in Days /\ depart[r] \in Days /\ audit.leaves[r] \in Days
    BY <2>2, <1>1, AuditFields DEF StayInv, TypeOK
  <2>4. r \notin Overstays => today < audit.leaves[r]
    BY <1>1, <2>2, <2>3 DEF Overstays, StillKnown, StayDates, Days, Nights
  <2>. QED
    BY <2>2, <2>3, <2>4 DEF StillKnown, Days, Nights
<1>2. StayInv /\ [Next]_vars => (today' # today => \A r \in audit.guests : depart'[r] >= today')
  BY <1>1
<1>. QED
  BY <1>2, StayInvHolds, PTL DEF Spec, NobodyOverstaysUnbooked

-----------------------------------------------------------------------------
(* The counts, where staff keep to the routes: a tentative booking is        *)
(* confirmed and a waitlisted one promoted.  Elsewhere they are wrong, as    *)
(* the run without this assumption shows.                                    *)
CountsRight == \A n \in Nights : sold[n] = Cardinality(Holders(n))

(* The bookings that hold a night are finitely many. *)
LEMMA HoldersFinite == \A n : IsFiniteSet(Holders(n)) /\ IsFiniteSet(Holders(n)')
<1>1. \A n : Holders(n) \subseteq Reservations /\ Holders(n)' \subseteq Reservations
  BY DEF Holders
<1>. QED
  BY <1>1, ReservationsAreFinite, FS_Subset

(* A booking takes some nights, and each is counted once more. *)
LEMMA JoiningCounts ==
  ASSUME StayInv, CountsRight, NEW r \in Reservations, NEW added \in SUBSET Nights, Sell(added),
         \A n \in Nights :
            /\ n \in added => r \notin Holders(n) /\ Holders(n)' = Holders(n) \cup {r}
            /\ n \notin added => Holders(n)' = Holders(n)
  PROVE  CountsRight'
<1>1. ASSUME NEW n \in Nights PROVE sold'[n] = Cardinality(Holders(n)')
  <2>1. sold'[n] = IF n \in added THEN sold[n] + 1 ELSE sold[n]
    BY DEF Sell
  <2>2. ASSUME n \in added PROVE Cardinality(Holders(n)') = Cardinality(Holders(n)) + 1
    BY <2>2, HoldersFinite, FS_AddElement
  <2>3. sold[n] = Cardinality(Holders(n))
    BY DEF CountsRight
  <2>. QED
    BY <2>1, <2>2, <2>3
<1>. QED
  BY <1>1 DEF CountsRight

(* A booking gives up its nights, and each is counted once less. *)
LEMMA LeavingCounts ==
  ASSUME StayInv, CountsRight, NEW r \in Reservations, NEW left \in SUBSET Nights, Release(left),
         \A n \in Nights :
            /\ n \in left => r \in Holders(n) /\ Holders(n)' = Holders(n) \ {r}
            /\ n \notin left => Holders(n)' = Holders(n)
  PROVE  CountsRight'
<1>1. ASSUME NEW n \in Nights PROVE sold'[n] = Cardinality(Holders(n)')
  <2>1. sold[n] = Cardinality(Holders(n)) /\ sold[n] \in Nat
    BY DEF CountsRight, StayInv, TypeOK
  <2>2. ASSUME n \in left
        PROVE  Cardinality(Holders(n)') = Cardinality(Holders(n)) - 1 /\ sold[n] > 0
    <3>1. Cardinality(Holders(n)') = Cardinality(Holders(n)) - 1
      BY <2>2, HoldersFinite, FS_RemoveElement
    <3>2. Cardinality(Holders(n)') \in Nat
      BY HoldersFinite, FS_CardinalityType
    <3>. QED
      BY <2>1, <3>1, <3>2
  <2>3. sold'[n] = IF n \in left /\ sold[n] > 0 THEN sold[n] - 1 ELSE sold[n]
    BY DEF Release
  <2>. QED
    BY <2>1, <2>2, <2>3
<1>. QED
  BY <1>1 DEF CountsRight

(* A step after which every night is held by whom it was. *)
LEMMA SameHolders ==
  ASSUME CountsRight, UNCHANGED sold, \A n \in Nights : Holders(n)' = Holders(n)
  PROVE  CountsRight'
  BY DEF CountsRight

(* A booking is made, or a guest changes status. *)
LEMMA StatusCounts ==
  ASSUME ~CrossedRoutes, StayInv, CountsRight, NEW r \in Reservations, StatusAction(r)
  PROVE  CountsRight'
<1> DEFINE nights == StayDates(arrive[r], depart[r])
<1>1. nights \in SUBSET Nights
  BY DEF StayDates
<1>2. ASSUME NEW s, SetStatus(r, s), UNCHANGED <<arrive, depart>>, NEW n \in Nights
      PROVE  /\ (s \in Holding <=> status[r] \in Holding) \/ n \notin nights =>
                   Holders(n)' = Holders(n)
             /\ s \in Holding /\ status[r] \notin Holding /\ n \in nights =>
                   r \notin Holders(n) /\ Holders(n)' = Holders(n) \cup {r}
             /\ s \notin Holding /\ status[r] \in Holding /\ n \in nights =>
                   r \in Holders(n) /\ Holders(n)' = Holders(n) \ {r}
  <2>1. \A q \in Reservations : status'[q] = IF q = r THEN s ELSE status[q]
    BY <1>2 DEF SetStatus, StayInv, TypeOK
  <2>2. /\ Holders(n) = {q \in Reservations : status[q] \in Holding /\
                            n \in StayDates(arrive[q], depart[q])}
        /\ Holders(n)' = {q \in Reservations : status'[q] \in Holding /\
                            n \in StayDates(arrive[q], depart[q])}
    BY <1>2 DEF Holders, Holding
  <2>. QED
    BY <2>1, <2>2
<1> HIDE DEF nights
<1>4. CASE Confirm(r)
  <2>1. status[r] \in Holding /\ SetStatus(r, "confirmed") /\ UNCHANGED <<arrive, depart, sold>>
    BY <1>4 DEF Confirm, Holding
  <2>. QED
    BY <1>2, <2>1, SameHolders DEF Holding
<1>5. CASE Promote(r)
  <2>1. /\ status[r] \notin Holding /\ SetStatus(r, "confirmed")
        /\ Sell(nights) /\ UNCHANGED <<arrive, depart>>
    BY <1>5 DEF Promote, Holding, nights
  <2>. QED
    BY <1>1, <1>2, <2>1, JoiningCounts DEF Holding
<1>6. CASE Cancel(r)
  <2>1. SetStatus(r, "cancelled") /\ UNCHANGED <<arrive, depart>>
    BY <1>6 DEF Cancel
  <2>2. CASE status[r] = "waitlisted"
    BY <1>2, <1>6, <2>1, <2>2, SameHolders DEF Cancel, Holding
  <2>3. CASE status[r] # "waitlisted"
    <3>1. status[r] \in Holding /\ Release(nights)
      BY <1>6, <2>3 DEF Cancel, Holding, nights
    <3>. QED
      BY <1>1, <1>2, <2>1, <3>1, LeavingCounts DEF Holding
  <2>. QED
    BY <2>2, <2>3
<1>7. CASE NoShow(r)
  <2>1. /\ status[r] \in Holding /\ SetStatus(r, "no_show")
        /\ Release(nights) /\ UNCHANGED <<arrive, depart>>
    BY <1>7 DEF NoShow, Holding, nights
  <2>. QED
    BY <1>1, <1>2, <2>1, LeavingCounts DEF Holding
<1>8. CASE CheckIn(r) \/ CheckOut(r)
  <2>1. PICK s \in Holding : SetStatus(r, s)
    BY <1>8 DEF CheckIn, CheckOut, Holding
  <2>2. status[r] \in Holding /\ UNCHANGED <<arrive, depart, sold>>
    BY <1>8 DEF CheckIn, CheckOut, Holding
  <2>. QED
    BY <1>2, <2>1, <2>2, SameHolders
<1>. QED
  BY <1>4, <1>5, <1>6, <1>7, <1>8 DEF StatusAction

(* A new booking holds its nights unless it goes to the waitlist. *)
LEMMA BookCounts ==
  ASSUME StayInv, CountsRight, NEW r \in Reservations, NEW from \in Nights, NEW to \in Days,
         NEW s \in Statuses, Book(r, from, to, s)
  PROVE  CountsRight'
<1>1. /\ status[r] = "none"
      /\ status' = [status EXCEPT ![r] = s]
      /\ arrive' = [arrive EXCEPT ![r] = from]
      /\ depart' = [depart EXCEPT ![r] = to]
  BY DEF Book, SetStatus
<1>2. \A n \in Nights :
         /\ r \notin Holders(n)
         /\ Holders(n)' = IF s \in Holding /\ n \in StayDates(from, to)
                          THEN Holders(n) \cup {r} ELSE Holders(n)
  BY <1>1 DEF Holders, Holding, StayInv, TypeOK
<1>3. CASE Fits(StayDates(from, to))
  <2>1. s \in Holding /\ Sell(StayDates(from, to)) /\ StayDates(from, to) \in SUBSET Nights
    BY <1>3 DEF Book, Holding, StayDates
  <2>. QED
    BY <1>2, <2>1, JoiningCounts
<1>4. CASE ~Fits(StayDates(from, to))
  <2>1. s \notin Holding /\ UNCHANGED sold
    BY <1>4 DEF Book, Holding
  <2>. QED
    BY <1>2, <2>1, SameHolders
<1>. QED
  BY <1>3, <1>4

(* The nights an extension adds are new to the guest. *)
LEMMA ExtendCounts ==
  ASSUME StayInv, CountsRight, NEW r \in Reservations, NEW to \in Days, NEW seen,
         ExtendStay(r, to, seen)
  PROVE  CountsRight'
<1>1. /\ status[r] \in Holding /\ status[r] # "none" /\ depart[r] < to
      /\ depart' = [depart EXCEPT ![r] = to]
      /\ UNCHANGED <<status, arrive>>
      /\ Sell(StayDates(depart[r], to))
  BY DEF ExtendStay, Holding
<1>2. arrive[r] \in Days /\ depart[r] \in Days /\ arrive[r] < depart[r]
  BY <1>1 DEF StayInv, TypeOK, StaysHaveNights
<1>3. StayDates(depart[r], to) \in SUBSET Nights
  BY DEF StayDates
<1>4. \A n \in Nights :
         /\ n \in StayDates(arrive[r], to) <=>
               n \in StayDates(arrive[r], depart[r]) \/ n \in StayDates(depart[r], to)
         /\ n \in StayDates(depart[r], to) => n \notin StayDates(arrive[r], depart[r])
  BY <1>1, <1>2 DEF StayDates, Days, Nights
<1>5. ASSUME NEW n \in Nights
      PROVE  /\ n \in StayDates(depart[r], to) =>
                   r \notin Holders(n) /\ Holders(n)' = Holders(n) \cup {r}
             /\ n \notin StayDates(depart[r], to) => Holders(n)' = Holders(n)
  <2>1. \A q \in Reservations : depart'[q] = IF q = r THEN to ELSE depart[q]
    BY <1>1 DEF StayInv, TypeOK
  <2>. QED
    BY <1>1, <1>4, <2>1 DEF Holders
<1>. QED
  BY <1>1, <1>3, <1>5, JoiningCounts

(* The nights the audit adds are new to each guest it adds them for. *)
LEMMA AuditCounts ==
  ASSUME StayInv, CountsRight, CommitAudit
  PROVE  CountsRight'
<1>1. /\ today \in Nights /\ UNCHANGED <<status, arrive>>
      /\ sold' = [n \in Nights |-> sold[n] + Cardinality(OverstaysOn(n))]
      /\ depart' = [q \in Reservations |-> IF q \in Overstays THEN today + 1 ELSE depart[q]]
  BY DEF CommitAudit, StayInv, SnapshotRight
<1>2. ASSUME NEW q \in Overstays, NEW n \in Nights
      PROVE  /\ q \in Reservations /\ status[q] \in Holding
             /\ n \in StayDates(arrive[q], today + 1) <=>
                   n \in StayDates(arrive[q], depart[q]) \/ n \in OverstayNights(q)
             /\ n \in OverstayNights(q) => n \notin StayDates(arrive[q], depart[q])
  <2>1. /\ q \in Reservations /\ StillKnown(q)
        /\ depart[q] = audit.leaves[q] /\ depart[q] <= today
    BY <1>2, NotExtended
  <2>2. arrive[q] \in Days /\ depart[q] \in Days
    BY <2>1 DEF StayInv, TypeOK
  <2>. QED
    BY <1>1, <2>1, <2>2 DEF StillKnown, OverstayNights, StayDates, Days, Nights, Holding
<1>3. ASSUME NEW n \in Nights
      PROVE  Holders(n)' = Holders(n) \cup OverstaysOn(n) /\ Holders(n) \cap OverstaysOn(n) = {}
  <2>1. \A q \in OverstaysOn(n) : q \in Overstays /\ n \in OverstayNights(q)
    BY DEF OverstaysOn
  <2>2. Holders(n) \cap OverstaysOn(n) = {}
    BY <1>2, <2>1 DEF Holders
  <2>3. \A q \in Reservations : depart'[q] = IF q \in Overstays THEN today + 1 ELSE depart[q]
    BY <1>1
  <2>4. ASSUME NEW q \in Reservations
        PROVE  q \in Holders(n)' <=> q \in Holders(n) \/ q \in OverstaysOn(n)
    <3>1. CASE q \in Overstays
      BY <1>1, <1>2, <2>3, <3>1 DEF Holders, OverstaysOn
    <3>2. CASE q \notin Overstays
      BY <1>1, <2>3, <3>2 DEF Holders, OverstaysOn
    <3>. QED
      BY <3>1, <3>2
  <2>5. Holders(n) \subseteq Reservations /\ Holders(n)' \subseteq Reservations
    BY DEF Holders
  <2>6. OverstaysOn(n) \subseteq Reservations
    BY <1>2, <2>1
  <2>. QED
    BY <2>2, <2>4, <2>5, <2>6
<1>4. ASSUME NEW n \in Nights PROVE sold'[n] = Cardinality(Holders(n)')
  <2>1. IsFiniteSet(OverstaysOn(n))
    <3>1. OverstaysOn(n) \subseteq Reservations
      BY AuditFields DEF OverstaysOn, Overstays, StayInv
    <3>. QED
      BY <3>1, ReservationsAreFinite, FS_Subset
  <2> DEFINE before == Holders(n)
             added  == OverstaysOn(n)
  <2>2. IsFiniteSet(before) /\ IsFiniteSet(added) /\ before \cap added = {}
    BY <1>3, <2>1, HoldersFinite
  <2> HIDE DEF before, added
  <2>3. /\ Cardinality(before \cup added) =
              Cardinality(before) + Cardinality(added) - Cardinality(before \cap added)
        /\ Cardinality(before) \in Nat /\ Cardinality(added) \in Nat
    BY <2>2, FS_Union, FS_CardinalityType
  <2>4. Cardinality(before \cup added) = Cardinality(before) + Cardinality(added)
    <3>1. Cardinality(before \cap added) = 0
      BY <2>2, FS_EmptySet
    <3>. QED
      BY <2>3, <3>1
  <2>5. sold[n] = Cardinality(before) /\ sold'[n] = sold[n] + Cardinality(added)
    BY <1>1 DEF CountsRight, before, added
  <2>6. Holders(n)' = before \cup added
    BY <1>3 DEF before, added
  <2>. QED
    BY <2>4, <2>5, <2>6
<1>. QED
  BY <1>4 DEF CountsRight

(* rooms_sold counts the bookings that took the night, and each booking is   *)
(* rated for its nights, when nobody confirms a waitlisted booking or        *)
(* promotes a tentative one.                                                 *)
THEOREM InventoryCounted ==
  ASSUME ~CrossedRoutes
  PROVE  Spec => []InventoryExact
<1>1. Init => CountsRight
  <2>1. Init => \A n : Holders(n) = {}
    BY DEF Init, Holders, Holding
  <2>. QED
    BY <2>1, FS_EmptySet DEF Init, CountsRight
<1>2. StayInv /\ CountsRight /\ [Next]_vars => CountsRight'
  <2> SUFFICES ASSUME StayInv, CountsRight, [Next]_vars PROVE CountsRight'
    OBVIOUS
  <2>1. CASE Guests
    BY <2>1, BookCounts, StatusCounts, ExtendCounts DEF Guests, StatusAction
  <2>2. ASSUME UNCHANGED <<booking, sold>> PROVE CountsRight'
    <3>1. \A n \in Nights : Holders(n)' = Holders(n)
      BY <2>2 DEF Holders, booking
    <3>. QED
      BY <2>2, <3>1, SameHolders
  <2>3. ASSUME Housekeeping PROVE UNCHANGED <<booking, sold>>
    BY <2>3 DEF Housekeeping, ArchiveRooms, RestoreRoom, RaiseDiscrepancy, ResolveDiscrepancy,
       OpenOutOfOrder, CloseOutOfOrder
  <2>4. ASSUME Audits, ~CommitAudit PROVE UNCHANGED <<booking, sold>>
    BY <2>4 DEF Audits, BeginAudit, RollBackAudit
  <2>5. ASSUME UNCHANGED vars PROVE UNCHANGED <<booking, sold>>
    BY <2>5 DEF vars, booking
  <2>. QED
    BY <2>1, <2>2, <2>3, <2>4, <2>5, AuditCounts DEF Next
<1>3. StayInv /\ CountsRight => InventoryExact
  BY DEF StayInv, StayIsRated, CountsRight, InventoryExact
<1>. QED
  BY <1>1, <1>2, <1>3, StayInvHolds, PTL DEF Spec

-----------------------------------------------------------------------------
(* Overselling.  Here CrossedRoutes may be true: the threshold is checked    *)
(* against what is counted, right or wrong.                                  *)

(* A threshold grows with the rooms it is taken of. *)
LEMMA MoreRoomsMore ==
  ASSUME NEW big, IsFiniteSet(big), NEW small \in SUBSET big
  PROVE  Threshold(small) <= Threshold(big) /\ Threshold(small) \in Int /\ Threshold(big) \in Int
<1>1. Cardinality(small) <= Cardinality(big)
  BY FS_Subset
<1>2. Cardinality(small) \in Nat /\ Cardinality(big) \in Nat
  BY FS_Subset, FS_CardinalityType
<1>3. ASSUME NEW a \in Nat, NEW b \in Nat, a <= b PROVE a * Percent <= b * Percent
  BY <1>3, PercentAssumption
<1>4. ASSUME NEW x \in Int, NEW y \in Int, x <= y PROVE x \div 100 <= y \div 100
  BY <1>4
<1>5. \A a \in Nat : a * Percent \in Int
  BY PercentAssumption
<1>. QED
  BY <1>1, <1>2, <1>3, <1>4, <1>5 DEF Threshold

(* The rooms counted on a night are finitely many. *)
LEMMA CountedFinite ==
  ASSUME StayInv, StayInv', NEW n
  PROVE  IsFiniteSet(Counted(n)) /\ IsFiniteSet(Counted(n)')
<1>1. Counted(n) \subseteq Rooms /\ Counted(n)' \subseteq Rooms
  BY DEF Counted, StayInv, TypeOK
<1>. QED
  BY <1>1, RoomsAreFinite, FS_Subset

(* What NoNewOversell says of one night. *)
NightKept(n) ==
    n >= today' /\ sold'[n] > Threshold(Counted(n)') =>
       \/ sold[n] > Threshold(Counted(n)) /\ sold'[n] <= sold[n]
       \/ active' = active /\ Cardinality(Counted(n)') < Cardinality(Counted(n))

(* A night that is sold no more, on no fewer rooms. *)
LEMMA NothingTaken ==
  ASSUME StayInv, StayInv', NEW n \in Nights, sold'[n] <= sold[n], Counted(n) \subseteq Counted(n)'
  PROVE  NightKept(n)
<1>1. PICK before, after : before = Counted(n) /\ after = Counted(n)'
  OBVIOUS
<1>2. Threshold(before) <= Threshold(after) /\ Threshold(before) \in Int /\ Threshold(after) \in Int
  BY <1>1, CountedFinite, MoreRoomsMore
<1>3. sold[n] \in Int /\ sold'[n] \in Int
  BY DEF StayInv, TypeOK
<1>4. sold'[n] > Threshold(after) => sold[n] > Threshold(before)
  BY <1>2, <1>3
<1>. QED
  BY <1>1, <1>4 DEF NightKept

(* A night that housekeeping takes rooms off. *)
LEMMA RoomsWithdrawn ==
  ASSUME StayInv, StayInv', NEW n \in Nights, UNCHANGED <<sold, active>>,
         Counted(n)' \subseteq Counted(n)
  PROVE  NightKept(n)
<1>1. CASE Counted(n)' = Counted(n)
  <2>1. sold'[n] <= sold[n]
    BY DEF StayInv, TypeOK
  <2>. QED
    BY <1>1, <2>1, NothingTaken
<1>2. CASE Counted(n)' # Counted(n)
  <2>1. PICK before, after : before = Counted(n) /\ after = Counted(n)'
    OBVIOUS
  <2>2. Cardinality(after) <= Cardinality(before) /\ Cardinality(after) # Cardinality(before)
    BY <1>2, <2>1, CountedFinite, FS_Subset
  <2>3. Cardinality(after) \in Nat /\ Cardinality(before) \in Nat
    BY <2>1, CountedFinite, FS_CardinalityType
  <2>. QED
    BY <2>1, <2>2, <2>3 DEF NightKept
<1>. QED
  BY <1>1, <1>2

(* A night that fits what was sold of it. *)
LEMMA NightFits ==
  ASSUME NEW n \in Nights, StayInv, StayInv', sold'[n] <= Threshold(Counted(n)')
  PROVE  NightKept(n)
<1>1. PICK after : after = Counted(n)'
  OBVIOUS
<1>2. Threshold(after) \in Int /\ sold'[n] \in Int
  BY <1>1, CountedFinite, MoreRoomsMore DEF StayInv, TypeOK
<1>. QED
  BY <1>1, <1>2 DEF NightKept

(* Guests: whoever sells a night has checked it; only an extension's past    *)
(* nights are not.                                                           *)
LEMMA SellingKeeps ==
  ASSUME StayInv, StayInv', NEW n \in Nights, NEW nights, Sell(nights), UNCHANGED house,
         n \in nights => sold[n] + 1 <= Threshold(Counted(n))
  PROVE  NightKept(n)
<1>1. Counted(n)' = Counted(n)
  BY DEF Counted, house
<1>2. sold'[n] = IF n \in nights THEN sold[n] + 1 ELSE sold[n]
  BY DEF Sell
<1>3. sold[n] \in Nat
  BY DEF StayInv, TypeOK
<1>4. PICK after : after = Counted(n)'
  OBVIOUS
<1>5. CASE n \in nights
  BY <1>1, <1>2, <1>5, NightFits
<1>6. CASE n \notin nights
  BY <1>1, <1>2, <1>3, <1>6, NothingTaken
<1>. QED
  BY <1>5, <1>6

(* No guest operation oversells a night that is not past. *)
LEMMA GuestsKeep ==
  ASSUME StayInv, StayInv', Guests, NEW n \in Nights
  PROVE  NightKept(n)
<1>1. ASSUME UNCHANGED house, sold'[n] <= sold[n] PROVE NightKept(n)
  BY <1>1, NothingTaken DEF Counted, house
<1>2. sold[n] \in Nat /\ sold \in [Nights -> Nat]
  BY DEF StayInv, TypeOK
<1>3. PICK r \in Reservations :
         \/ \E from \in Nights, to \in Days, s \in Statuses : Book(r, from, to, s)
         \/ StatusAction(r)
         \/ \E to \in Days, seen \in 1..today : ExtendStay(r, to, seen)
  BY DEF Guests, StatusAction
<1>4. ASSUME NEW from \in Nights, NEW to \in Days, NEW s \in Statuses, Book(r, from, to, s)
      PROVE  NightKept(n)
  <2>1. UNCHANGED house
    BY <1>4 DEF Book
  <2>2. CASE Fits(StayDates(from, to))
    BY <1>4, <2>1, <2>2, SellingKeeps DEF Book, Fits
  <2>3. CASE ~Fits(StayDates(from, to))
    BY <1>1, <1>2, <1>4, <2>1, <2>3 DEF Book
  <2>. QED
    BY <2>2, <2>3
<1>5. ASSUME StatusAction(r) PROVE NightKept(n)
  <2>1. UNCHANGED house
    BY <1>5 DEF StatusAction, Confirm, Promote, Cancel, NoShow, CheckIn, CheckOut
  <2>2. CASE Promote(r)
    BY <2>1, <2>2, SellingKeeps DEF Promote, Fits
  <2>3. ASSUME NEW nights, Release(nights) PROVE sold'[n] <= sold[n]
    BY <1>2, <2>3 DEF Release
  <2>4. ASSUME ~Promote(r) PROVE sold'[n] <= sold[n]
    BY <1>2, <1>5, <2>3, <2>4 DEF StatusAction, Confirm, Cancel, NoShow, CheckIn, CheckOut
  <2>. QED
    BY <1>1, <2>1, <2>2, <2>4
<1>6. ASSUME NEW to \in Days, NEW seen \in 1..today, ExtendStay(r, to, seen) PROVE NightKept(n)
  <2>1. /\ UNCHANGED house /\ today' = today /\ Sell(StayDates(depart[r], to))
        /\ Fits({m \in StayDates(depart[r], to) : m >= seen})
    BY <1>6 DEF ExtendStay
  <2>2. ASSUME n >= today, n \in StayDates(depart[r], to)
        PROVE  sold[n] + 1 <= Threshold(Counted(n))
    <3>1. today \in Int /\ seen <= today /\ seen \in Int /\ n \in Int
      BY DEF StayInv, TypeOK, Days, Nights
    <3>2. n >= seen
      BY <2>2, <3>1
    <3>. QED
      BY <2>1, <2>2, <3>2 DEF Fits
  <2>3. CASE n >= today
    BY <2>1, <2>2, <2>3, SellingKeeps
  <2>4. CASE ~(n >= today)
    BY <2>1, <2>4 DEF NightKept
  <2>. QED
    BY <2>3, <2>4
<1>. QED
  BY <1>3, <1>4, <1>5, <1>6

(* The audit adds nights that are past when it has committed. *)
LEMMA AuditKeeps ==
  ASSUME StayInv, StayInv', Audits, NEW n \in Nights
  PROVE  NightKept(n)
<1>1. UNCHANGED house /\ sold[n] \in Nat
  BY DEF Audits, BeginAudit, CommitAudit, RollBackAudit, StayInv, TypeOK
<1>2. ASSUME sold'[n] <= sold[n] PROVE NightKept(n)
  BY <1>1, <1>2, NothingTaken DEF Counted, house
<1>3. CASE BeginAudit \/ RollBackAudit
  <2>1. sold'[n] <= sold[n]
    BY <1>1, <1>3 DEF BeginAudit, RollBackAudit
  <2>. QED
    BY <1>2, <2>1
<1>4. CASE CommitAudit
  <2>1. /\ today' = today + 1
        /\ sold' = [m \in Nights |-> sold[m] + Cardinality(OverstaysOn(m))]
    BY <1>4 DEF CommitAudit
  <2>2. CASE n >= today + 1
    <3>1. OverstaysOn(n) = {}
      BY <2>2 DEF OverstaysOn, OverstayNights, StayDates, Nights, StayInv, TypeOK, Days
    <3>2. sold'[n] = sold[n] + 0
      BY <2>1, <3>1, FS_EmptySet
    <3>. QED
      BY <1>1, <1>2, <3>2
  <2>3. CASE ~(n >= today + 1)
    BY <2>1, <2>3 DEF NightKept
  <2>. QED
    BY <2>2, <2>3
<1>. QED
  BY <1>3, <1>4 DEF Audits

(* Rooms leave the type only where they fit; housekeeping may withdraw any. *)
LEMMA HouseKeeps ==
  ASSUME StayInv, StayInv', Housekeeping, NEW n \in Nights
  PROVE  NightKept(n)
<1>1. UNCHANGED <<sold, today>> /\ sold[n] \in Nat
  BY DEF Housekeeping, ArchiveRooms, RestoreRoom, RaiseDiscrepancy, ResolveDiscrepancy,
     OpenOutOfOrder, CloseOutOfOrder, StayInv, TypeOK
<1>2. ASSUME Counted(n) \subseteq Counted(n)' PROVE NightKept(n)
  BY <1>1, <1>2, NothingTaken
<1>3. ASSUME NEW gone, NEW seen \in 1..today, ArchiveRooms(gone, seen) PROVE NightKept(n)
  <2>1. /\ Counted(n)' = Counted(n) \ gone
        /\ n >= seen /\ Counted(n) \cap gone # {} => sold[n] <= Threshold(Counted(n) \ gone)
    BY <1>3 DEF ArchiveRooms, Counted
  <2>2. CASE Counted(n) \cap gone = {}
    BY <1>2, <2>1, <2>2
  <2>3. CASE n >= seen /\ Counted(n) \cap gone # {}
    BY <1>1, <2>1, <2>3, NightFits
  <2>4. CASE ~(n >= seen)
    <3>1. ~(n >= today)
      BY <2>4 DEF StayInv, TypeOK, Days, Nights
    <3>. QED
      BY <1>1, <3>1 DEF NightKept
  <2>. QED
    BY <2>2, <2>3, <2>4
<1>4. ASSUME NEW k, RestoreRoom(k) \/ ResolveDiscrepancy(k) PROVE NightKept(n)
  <2>1. Counted(n) \subseteq Counted(n)'
    BY <1>4 DEF RestoreRoom, ResolveDiscrepancy, Counted
  <2>. QED
    BY <1>2, <2>1
<1>5. ASSUME NEW k, RaiseDiscrepancy(k) PROVE NightKept(n)
  <2>1. Counted(n)' \subseteq Counted(n) /\ UNCHANGED active
    BY <1>5 DEF RaiseDiscrepancy, Counted
  <2>. QED
    BY <1>1, <2>1, RoomsWithdrawn
<1>6. ASSUME NEW k \in Frail, UNCHANGED <<active, discrepant>>,
             \A q \in Rooms \ {k} : outOfOrder'[q] = outOfOrder[q]
      PROVE  NightKept(n)
  <2>1. active \subseteq Rooms /\ k \in Rooms
    BY FrailAssumption DEF StayInv, TypeOK
  <2>2. Counted(n) \subseteq Counted(n)' \/ Counted(n)' \subseteq Counted(n)
    BY <1>6, <2>1 DEF Counted
  <2>. QED
    BY <1>1, <1>2, <1>6, <2>2, RoomsWithdrawn
<1>7. ASSUME NEW k \in Frail, NEW from \in Nights, NEW to \in Nights, OpenOutOfOrder(k, from, to)
      PROVE  NightKept(n)
  <2>1. /\ UNCHANGED <<active, discrepant>>
        /\ \A q \in Rooms \ {k} : outOfOrder'[q] = outOfOrder[q]
    BY <1>7 DEF OpenOutOfOrder, StayInv, TypeOK
  <2>. QED
    BY <1>6, <2>1
<1>8. ASSUME NEW k \in Frail, NEW to, CloseOutOfOrder(k, to) PROVE NightKept(n)
  <2>1. /\ UNCHANGED <<active, discrepant>>
        /\ \A q \in Rooms \ {k} : outOfOrder'[q] = outOfOrder[q]
    BY <1>8 DEF CloseOutOfOrder, StayInv, TypeOK
  <2>. QED
    BY <1>6, <2>1
<1>. QED
  BY <1>3, <1>4, <1>5, <1>7, <1>8 DEF Housekeeping

(* A night not yet past is oversold, or more oversold, only by housekeeping  *)
(* withdrawing a room, whatever dates the others read.                       *)
THEOREM NoOversell == Spec => NoNewOversell
<1>1. StayInv /\ StayInv' /\ [Next]_vars => \A n \in Nights : NightKept(n)
  <2> SUFFICES ASSUME StayInv, StayInv', [Next]_vars, NEW n \in Nights PROVE NightKept(n)
    OBVIOUS
  <2>1. CASE UNCHANGED vars
    <3>1. Counted(n)' = Counted(n) /\ sold'[n] <= sold[n]
      BY <2>1 DEF vars, Counted, StayInv, TypeOK
    <3>. QED
      BY <3>1, NothingTaken
  <2>. QED
    BY <2>1, GuestsKeep, AuditKeeps, HouseKeeps DEF Next
<1>2. StayInv /\ StayInv' /\ [Next]_vars =>
         \A n \in Nights :
            n >= today' /\ sold'[n] > Threshold(Counted(n)') =>
               \/ sold[n] > Threshold(Counted(n)) /\ sold'[n] <= sold[n]
               \/ active' = active /\ Cardinality(Counted(n)') < Cardinality(Counted(n))
  BY <1>1 DEF NightKept
<1>. QED
  BY <1>2, StayInvHolds, PTL DEF Spec, NoNewOversell

-----------------------------------------------------------------------------
(* Register. *)

(* What a request knows: a settlement bills something, and every request *)
(* names a check and a group that exist.                                 *)
RequestOK(q) ==
    /\ q.op \in {"none", "settle", "voidItem", "void", "complete"}
    /\ q.op = "settle" =>
        /\ q.check \in Checks
        /\ q.items \in [Groups -> 0..MaxItem]
        /\ \E g \in Groups : q.items[g] > 0
    /\ q.op \in {"voidItem", "void"} => q.check \in Checks /\ q.group \in Groups
    /\ q.op = "complete" => q.counted \in Int

RequestsOK == DOMAIN trx = Requests /\ \A r \in Requests : RequestOK(trx[r])

(* A check that was never settled has no settlement and no use. *)
NotYetSettled ==
    \A c \in Checks : check[c] # "settled" =>
        /\ link[c] \in {"none", "attached", "released"}
        /\ \A g \in Groups : settlement[c][g] = "none"

RegisterInv ==
    /\ RegisterTypeOK /\ RequestsOK
    /\ NotYetSettled
    /\ VoucherUsesAddUp /\ StockAddsUp /\ SoldOutIsTrue

(* RegisterTypeOK in three parts: checks, vouchers, stock and the rest. *)
ChecksTyped ==
    /\ check \in [Checks -> {"open", "settled", "void"}]
    /\ items \in [Checks -> [Groups -> 0..MaxItem]]
    /\ settlement \in [Checks -> [Groups -> {"none", "live", "voided"}]]
    /\ issued \in [Checks -> [Groups -> 0..MaxItem]]

PromoTyped ==
    /\ link \in [Checks -> {"none", "attached", "redeemed", "reversed", "released"}]
    /\ voucher \in {"active", "disabled"}
    /\ used \in 0..MaxUses
    /\ crossed \subseteq Checks

StockTyped ==
    /\ level \in [Outlets -> Int]
    /\ menu \in {"on", "off", "auto"}
    /\ supplied \in Int

TakeTyped ==
    /\ take \in [status : {"none", "open", "closed"}, outlet : Outlets, counted : Int]
    /\ desk \in 0..MaxDesk

(* The uses of the voucher, counted; and what a use or its return means. *)
UsesCounted == used = Cardinality({c \in Checks : link[c] = "redeemed"})

UsesStand ==
    \A c \in Checks \ crossed :
        LET standing == \E g \in Groups : settlement[c][g] = "live" IN
        /\ link[c] = "redeemed" => standing
        /\ link[c] = "reversed" => ~standing

(* The parts of the invariant: those of the checks, and those of the stock. *)
CheckParts == ChecksTyped /\ PromoTyped /\ NotYetSettled /\ UsesCounted /\ UsesStand
StockParts == StockTyped /\ StockAddsUp /\ SoldOutIsTrue
RestParts  == TakeTyped /\ RequestsOK

(* The invariant is these parts. *)
LEMMA RegisterParts == RegisterInv <=> CheckParts /\ StockParts /\ RestParts
<1>1. RegisterTypeOK /\ RequestsOK
        <=> ChecksTyped /\ PromoTyped /\ StockTyped /\ TakeTyped /\ RequestsOK
  BY DEF RegisterTypeOK, ChecksTyped, PromoTyped, StockTyped, TakeTyped, RequestsOK, RequestOK
<1>2. PromoTyped => (VoucherUsesAddUp <=> UsesCounted /\ UsesStand)
  <2>1. PromoTyped => used <= MaxUses
    BY BoundAssumption DEF PromoTyped
  <2> QED
    BY <2>1 DEF VoucherUsesAddUp, UsesCounted, UsesStand
<1> QED
  BY <1>1, <1>2 DEF RegisterInv, CheckParts, StockParts, RestParts

-----------------------------------------------------------------------------
(* Units and how they are counted. *)

(* The units of a check are finitely many. *)
LEMMA UnitsFinite ==
  ASSUME NEW f
  PROVE  IsFiniteSet(Units(f)) /\ Total(f) \in Nat
<1>1. IsFiniteSet(1..MaxItem)
  <2>1. 1 \in Int /\ MaxItem \in Int
    BY BoundAssumption
  <2> QED
    BY <2>1, FS_Interval
<1>2. IsFiniteSet(Groups)
  BY BoundAssumption
<1>3. IsFiniteSet(Groups \X (1..MaxItem))
  BY <1>1, <1>2, FS_Product
<1>4. Units(f) \in SUBSET (Groups \X (1..MaxItem))
  BY DEF Units
<1>5. IsFiniteSet(Units(f))
  BY <1>3, <1>4, FS_Subset
<1> QED
  BY <1>5, FS_CardinalityType DEF Total

(* So are those of all checks. *)
LEMMA StandingFinite == IsFiniteSet(Standing) /\ Cardinality(Standing) \in Nat
<1>1. IsFiniteSet(1..MaxItem)
  <2>1. 1 \in Int /\ MaxItem \in Int
    BY BoundAssumption
  <2> QED
    BY <2>1, FS_Interval
<1>2. IsFiniteSet(Groups) /\ IsFiniteSet(Checks)
  BY BoundAssumption
<1>3. IsFiniteSet(Groups \X (1..MaxItem))
  BY <1>1, <1>2, FS_Product
<1>4. IsFiniteSet(Checks \X (Groups \X (1..MaxItem)))
  BY <1>2, <1>3, FS_Product
<1>5. Standing \in SUBSET (Checks \X (Groups \X (1..MaxItem)))
  BY DEF Standing
<1>6. IsFiniteSet(Standing)
  BY <1>4, <1>5, FS_Subset
<1> QED
  BY <1>6, FS_CardinalityType

(* A check with a unit on it has a group with an item. *)
LEMMA UnitsSome ==
  ASSUME NEW f \in [Groups -> 0..MaxItem], Total(f) > 0
  PROVE  \E g \in Groups : f[g] > 0
<1>1. Units(f) # {}
  <2>1. ASSUME Units(f) = {} PROVE FALSE
    BY <2>1, FS_EmptySet DEF Total
  <2> QED
    BY <2>1
<1>2. PICK u \in Groups \X (1..MaxItem) : u[2] <= f[u[1]]
  BY <1>1 DEF Units
<1>3. u[1] \in Groups /\ u[2] \in Nat /\ u[2] >= 1 /\ f[u[1]] \in Nat
  BY <1>2, BoundAssumption
<1>4. f[u[1]] > 0
  BY <1>2, <1>3
<1> QED
  BY <1>3, <1>4

(* n units of one group are n. *)
LEMMA GroupUnits ==
  ASSUME NEW g, NEW n \in Nat
  PROVE  IsFiniteSet({g} \X (1..n)) /\ Cardinality({g} \X (1..n)) = n
<1>1. IsFiniteSet(1..n) /\ Cardinality(1..n) = n
  <2>1. 1 \in Int /\ n \in Int
    OBVIOUS
  <2>2. IsFiniteSet(1..n) /\ Cardinality(1..n) = IF 1 > n THEN 0 ELSE n - 1 + 1
    BY <2>1, FS_Interval
  <2> QED
    BY <2>2
<1>2. IsFiniteSet({g}) /\ Cardinality({g}) = 1
  BY FS_Singleton
<1>3. /\ IsFiniteSet({g} \X (1..n))
      /\ Cardinality({g} \X (1..n)) = Cardinality({g}) * Cardinality(1..n)
  BY <1>1, <1>2, FS_Product
<1> QED
  BY <1>1, <1>2, <1>3

(* The units of one check, named after it. *)
LEMMA NamedUnits ==
  ASSUME NEW c, NEW S, IsFiniteSet(S)
  PROVE  IsFiniteSet({c} \X S) /\ Cardinality({c} \X S) = Cardinality(S)
<1>1. IsFiniteSet({c}) /\ Cardinality({c}) = 1
  BY FS_Singleton
<1>2. /\ IsFiniteSet({c} \X S)
      /\ Cardinality({c} \X S) = Cardinality({c}) * Cardinality(S)
  BY <1>1, FS_Product
<1>3. Cardinality(S) \in Nat
  BY FS_CardinalityType
<1> QED
  BY <1>1, <1>2, <1>3

(* Sets that have nothing in common are counted one after the other. *)
LEMMA DisjointCount ==
  ASSUME NEW S, NEW T, IsFiniteSet(S), IsFiniteSet(T), S \cap T = {}
  PROVE  /\ IsFiniteSet(S \cup T)
         /\ Cardinality(S \cup T) = Cardinality(S) + Cardinality(T)
<1>1. /\ IsFiniteSet(S \cup T)
      /\ Cardinality(S \cup T) = Cardinality(S) + Cardinality(T) - Cardinality(S \cap T)
  BY FS_Union
<1>2. Cardinality(S \cap T) = 0
  BY FS_EmptySet
<1>3. Cardinality(S) \in Nat /\ Cardinality(T) \in Nat
  BY FS_CardinalityType
<1> QED
  BY <1>1, <1>2, <1>3

(* While no settlement changes, the same units stand. *)
LEMMA StandingKept ==
  ASSUME settlement' = settlement, issued' = issued
  PROVE  Cardinality(Standing)' = Cardinality(Standing)
<1>1. Standing' = Standing
  BY DEF Standing
<1> QED
  BY <1>1

(* Settling a check of which nothing stands adds the units it billed. *)
LEMMA SettleStands ==
  ASSUME ChecksTyped, NEW c \in Checks, NEW seen \in [Groups -> 0..MaxItem],
         \A g \in Groups : settlement[c][g] = "none",
         settlement' = [settlement EXCEPT ![c] =
                          [g \in Groups |-> IF seen[g] > 0 THEN "live" ELSE "none"]],
         issued' = [issued EXCEPT ![c] = seen]
  PROVE  Cardinality(Standing)' = Cardinality(Standing) + Total(seen)
<1> DEFINE Added == {c} \X Units(seen)
<1>1. /\ \A d \in Checks \ {c} : settlement'[d] = settlement[d] /\ issued'[d] = issued[d]
      /\ issued'[c] = seen
      /\ \A g \in Groups : settlement'[c][g] = IF seen[g] > 0 THEN "live" ELSE "none"
  BY DEF ChecksTyped
<1>2. ASSUME NEW u \in Units(seen)
      PROVE  u \in Groups \X (1..MaxItem) /\ settlement'[c][u[1]] = "live"
  <2>1. u \in Groups \X (1..MaxItem) /\ u[2] <= seen[u[1]]
    BY DEF Units
  <2>2. u[1] \in Groups /\ u[2] \in Nat /\ u[2] >= 1 /\ seen[u[1]] \in Nat
    BY <2>1, BoundAssumption
  <2> QED
    BY <1>1, <2>1, <2>2
<1>3. Standing' = Standing \cup Added
  <2>1. ASSUME NEW x \in Standing' PROVE x \in Standing \cup Added
    <3>1. /\ x \in Checks \X (Groups \X (1..MaxItem))
          /\ settlement'[x[1]][x[2][1]] = "live" /\ x[2] \in Units(issued'[x[1]])
      BY <2>1 DEF Standing, Units
    <3>2. CASE x[1] = c
      BY <1>1, <3>1, <3>2
    <3>3. CASE x[1] # c
      BY <1>1, <3>1, <3>3 DEF Standing
    <3> QED
      BY <3>2, <3>3
  <2>2. ASSUME NEW x \in Standing PROVE x \in Standing'
    <3>1. /\ x \in Checks \X (Groups \X (1..MaxItem)) /\ x[1] \in Checks /\ x[2][1] \in Groups
          /\ settlement[x[1]][x[2][1]] = "live" /\ x[2] \in Units(issued[x[1]])
      BY <2>2 DEF Standing
    <3>2. x[1] # c
      BY <3>1
    <3> QED
      BY <1>1, <3>1, <3>2 DEF Standing, Units
  <2>3. ASSUME NEW x \in Added PROVE x \in Standing'
    <3>1. x[1] = c /\ x[2] \in Units(seen) /\ x = <<c, x[2]>>
      BY <2>3
    <3>2. x[2] \in Groups \X (1..MaxItem) /\ settlement'[c][x[2][1]] = "live"
      BY <1>2, <3>1
    <3>3. x \in Checks \X (Groups \X (1..MaxItem))
      BY <3>1, <3>2
    <3> QED
      BY <1>1, <3>1, <3>2, <3>3 DEF Standing, Units
  <2> QED
    BY <2>1, <2>2, <2>3
<1>4. Standing \cap Added = {}
  <2>1. ASSUME NEW x \in Standing, x \in Added PROVE FALSE
    <3>1. x[1] = c /\ x[2][1] \in Groups /\ settlement[x[1]][x[2][1]] = "live"
      BY <2>1 DEF Standing
    <3> QED
      BY <3>1
  <2> QED
    BY <2>1
<1>5. IsFiniteSet(Units(seen)) /\ Cardinality(Units(seen)) = Total(seen)
  BY UnitsFinite DEF Total
<1>6. IsFiniteSet(Added) /\ Cardinality(Added) = Total(seen)
  BY <1>5, NamedUnits
<1>7. IsFiniteSet(Standing)
  BY StandingFinite
<1>8. Cardinality(Standing \cup Added) = Cardinality(Standing) + Cardinality(Added)
  <2> HIDE DEF Added
  <2> QED BY <1>4, <1>6, <1>7, DisjointCount
<1> QED
  BY <1>3, <1>6, <1>8

(* Voiding a settlement takes its own units away. *)
LEMMA VoidStands ==
  ASSUME ChecksTyped, NEW c \in Checks, NEW g \in Groups, settlement[c][g] = "live",
         settlement' = [settlement EXCEPT ![c] = [@ EXCEPT ![g] = "voided"]],
         issued' = issued
  PROVE  Cardinality(Standing)' = Cardinality(Standing) - issued[c][g]
<1>1. PICK n \in Nat : n = issued[c][g] /\ n <= MaxItem
  BY BoundAssumption DEF ChecksTyped
<1> DEFINE Group == {g} \X (1..n)
           Gone == {c} \X Group
<1>2. /\ \A d \in Checks, h \in Groups :
           settlement'[d][h] = IF d = c /\ h = g THEN "voided" ELSE settlement[d][h]
  BY DEF ChecksTyped
<1>3. Standing = Standing' \cup Gone
  <2>1. ASSUME NEW x \in Standing PROVE x \in Standing' \cup Gone
    <3>1. /\ x \in Checks \X (Groups \X (1..MaxItem))
          /\ settlement[x[1]][x[2][1]] = "live" /\ x[2] \in Units(issued[x[1]])
      BY <2>1 DEF Standing
    <3>2. x[1] \in Checks /\ x[2][1] \in Groups /\ x = <<x[1], <<x[2][1], x[2][2]>>>>
      BY <3>1
    <3>3. CASE x[1] = c /\ x[2][1] = g
      <4>1. x[2][2] \in 1..MaxItem /\ x[2][2] <= n
        BY <1>1, <3>1, <3>3 DEF Units
      <4>2. x[2][2] \in 1..n
        BY <1>1, <4>1, BoundAssumption
      <4> QED
        BY <3>2, <3>3, <4>2
    <3>4. CASE ~(x[1] = c /\ x[2][1] = g)
      <4>1. settlement'[x[1]][x[2][1]] = "live"
        BY <1>2, <3>1, <3>2, <3>4
      <4> QED
        BY <3>1, <4>1 DEF Standing, Units
    <3> QED
      BY <3>3, <3>4
  <2>2. ASSUME NEW x \in Standing' PROVE x \in Standing
    <3>1. /\ x \in Checks \X (Groups \X (1..MaxItem)) /\ x[1] \in Checks /\ x[2][1] \in Groups
          /\ settlement'[x[1]][x[2][1]] = "live" /\ x[2] \in Units(issued[x[1]])
      BY <2>2 DEF Standing, Units
    <3>2. settlement[x[1]][x[2][1]] = "live"
      BY <1>2, <3>1
    <3> QED
      BY <3>1, <3>2 DEF Standing
  <2>3. ASSUME NEW x \in Gone PROVE x \in Standing
    <3>1. PICK k \in 1..n : x = <<c, <<g, k>>>>
      BY <2>3
    <3>2. k \in 1..MaxItem /\ k <= issued[c][g]
      BY <1>1, <3>1, BoundAssumption
    <3>3. <<g, k>> \in Groups \X (1..MaxItem)
      BY <3>2
    <3>4. <<g, k>> \in Units(issued[c])
      BY <3>2, <3>3 DEF Units
    <3> QED
      BY <3>1, <3>3, <3>4 DEF Standing
  <2> QED
    BY <2>1, <2>2, <2>3
<1>4. Standing' \cap Gone = {}
  <2>1. ASSUME NEW x \in Standing', x \in Gone PROVE FALSE
    <3>1. x[1] = c /\ x[2][1] = g /\ settlement'[x[1]][x[2][1]] = "live"
      BY <2>1 DEF Standing
    <3> QED
      BY <1>2, <3>1
  <2> QED
    BY <2>1
<1>5. IsFiniteSet(Group) /\ Cardinality(Group) = n
  BY GroupUnits
<1>6. IsFiniteSet(Gone) /\ Cardinality(Gone) = n
  <2> HIDE DEF Group
  <2> QED BY <1>5, NamedUnits
<1>7. IsFiniteSet(Standing) /\ IsFiniteSet(Standing')
  <2>1. IsFiniteSet(Standing)
    BY StandingFinite
  <2>2. Standing' \in SUBSET Standing
    BY <1>3
  <2> QED
    BY <2>1, <2>2, FS_Subset
<1>8. PICK kept : kept = Standing'
  OBVIOUS
<1>9. Cardinality(kept \cup Gone) = Cardinality(kept) + Cardinality(Gone)
  <2> HIDE DEF Gone
  <2> QED BY <1>4, <1>6, <1>7, <1>8, DisjointCount
<1>10. Cardinality(kept) \in Nat
  BY <1>7, <1>8, FS_CardinalityType
<1>11. Cardinality(Standing) = Cardinality(kept) + n
  BY <1>3, <1>6, <1>8, <1>9
<1> QED
  BY <1>1, <1>8, <1>10, <1>11

-----------------------------------------------------------------------------
(* What an operation leaves alone. *)

(* Checks and vouchers that an operation does not touch. *)
LEMMA ChecksKept ==
  ASSUME CheckParts, UNCHANGED <<sales, promo, crossed>>
  PROVE  CheckParts'
<1>1. /\ check' = check /\ items' = items /\ settlement' = settlement /\ issued' = issued
      /\ link' = link /\ voucher' = voucher /\ used' = used /\ crossed' = crossed
  BY DEF sales, promo
<1>2. ChecksTyped' /\ PromoTyped'
  BY <1>1 DEF CheckParts, ChecksTyped, PromoTyped
<1>3. NotYetSettled'
  BY <1>1 DEF CheckParts, NotYetSettled
<1>4. UsesCounted'
  BY <1>1 DEF CheckParts, UsesCounted
<1>5. UsesStand'
  BY <1>1 DEF CheckParts, UsesStand
<1> QED
  BY <1>2, <1>3, <1>4, <1>5 DEF CheckParts

(* The books of a stock that nothing moves. *)
LEMMA StockKept ==
  ASSUME StockParts, UNCHANGED stock, settlement' = settlement, issued' = issued
  PROVE  StockParts'
<1>1. level' = level /\ menu' = menu /\ supplied' = supplied
  BY DEF stock
<1>2. Cardinality(Standing)' = Cardinality(Standing)
  BY StandingKept
<1> QED
  BY <1>1, <1>2 DEF StockParts, StockTyped, StockAddsUp, SoldOutIsTrue

(* A request that ends leaves the others as they are. *)
LEMMA RequestsKept ==
  ASSUME RequestsOK, (\E r \in Requests : Finish(r)) \/ trx' = trx
  PROVE  RequestsOK'
<1>1. RequestOK(NoRequest)
  BY DEF RequestOK, NoRequest
<1>2. CASE trx' = trx
  BY <1>2 DEF RequestsOK, RequestOK
<1>3. ASSUME NEW r \in Requests, Finish(r) PROVE RequestsOK'
  <2>1. trx' = [trx EXCEPT ![r] = NoRequest]
    BY <1>3 DEF Finish
  <2>2. DOMAIN trx' = Requests
    BY <2>1 DEF RequestsOK
  <2>3. ASSUME NEW q \in Requests PROVE RequestOK(trx[q])'
    <3>1. trx'[q] = IF q = r THEN NoRequest ELSE trx[q]
      BY <2>1 DEF RequestsOK
    <3>2. PICK w : w = trx'[q]
      OBVIOUS
    <3>3. RequestOK(w)
      BY <1>1, <3>1, <3>2 DEF RequestsOK
    <3> QED
      BY <3>2, <3>3 DEF RequestOK
  <2> QED
    BY <2>2, <2>3 DEF RequestsOK
<1> QED
  BY <1>2, <1>3

(* A request that begins knows what it read. *)
LEMMA BeginKeeps ==
  ASSUME CheckParts, StockParts, RestParts, NEW r \in Requests, NEW q, RequestOK(q), Begin(r, q)
  PROVE  CheckParts' /\ StockParts' /\ RestParts'
<1>1. /\ UNCHANGED <<sales, promo, crossed>> /\ UNCHANGED stock
      /\ settlement' = settlement /\ issued' = issued /\ take' = take /\ desk' = desk
      /\ trx' = [trx EXCEPT ![r] = q]
  BY DEF Begin, sales
<1>2. CheckParts' /\ StockParts'
  BY <1>1, ChecksKept, StockKept
<1>3. TakeTyped'
  BY <1>1 DEF RestParts, TakeTyped
<1>4. DOMAIN trx' = Requests
  BY <1>1 DEF RestParts, RequestsOK
<1>5. ASSUME NEW s \in Requests PROVE RequestOK(trx[s])'
  <2>1. trx'[s] = IF s = r THEN q ELSE trx[s]
    BY <1>1 DEF RestParts, RequestsOK
  <2>2. PICK w : w = trx'[s]
    OBVIOUS
  <2>3. RequestOK(w)
    BY <2>1, <2>2 DEF RestParts, RequestsOK
  <2> QED
    BY <2>2, <2>3 DEF RequestOK
<1> QED
  BY <1>2, <1>3, <1>4, <1>5 DEF RestParts, RequestsOK

-----------------------------------------------------------------------------
(* Stock. *)

(* What a movement brings to outlet o. *)
Brings(delta, o) == IF o \in DOMAIN delta THEN delta[o] ELSE 0

(* A movement adds to each level what it brings there, and the switch is  *)
(* set by the bar's new level whenever the bar is one of its outlets.     *)
LEMMA MoveLevels ==
  ASSUME StockTyped, SoldOutIsTrue, NEW delta, Move(delta),
         \A o \in DOMAIN delta : delta[o] \in Int
  PROVE  /\ level' \in [Outlets -> Int] /\ menu' \in {"on", "off", "auto"}
         /\ SoldOutIsTrue'
         /\ \A o \in Outlets : level'[o] = level[o] + Brings(delta, o)
<1>1. level' = [o \in Outlets |-> level[o] + (IF o \in DOMAIN delta THEN delta[o] ELSE 0)]
  BY DEF Move
<1>2. ASSUME NEW o \in Outlets
      PROVE  level[o] + Brings(delta, o) \in Int /\ level'[o] = level[o] + Brings(delta, o)
  BY <1>1 DEF StockTyped, Brings
<1>3. level' \in [Outlets -> Int]
  BY <1>1, <1>2 DEF Brings
<1>4. menu' = Availability(DOMAIN delta, level'["bar"])
  BY DEF Move
<1>5. menu' \in {"on", "off", "auto"}
  BY <1>4 DEF Availability, StockTyped
<1>6. "bar" \in Outlets /\ level["bar"] \in Int /\ level'["bar"] \in Int
  BY <1>3 DEF Outlets, StockTyped
<1>7. SoldOutIsTrue'
  <2>1. CASE "bar" \in DOMAIN delta
    BY <1>4, <1>6, <2>1 DEF Availability, Touched, SoldOutIsTrue
  <2>2. CASE "bar" \notin DOMAIN delta
    <3>1. menu' = menu
      BY <1>4, <2>2 DEF Availability, Touched
    <3>2. level'["bar"] = level["bar"]
      BY <1>2, <1>6, <2>2 DEF Brings
    <3> QED
      BY <3>1, <3>2 DEF SoldOutIsTrue
  <2> QED
    BY <2>1, <2>2
<1> QED
  BY <1>2, <1>3, <1>5, <1>7

(* The books of the stock balance if what a movement brings is what was   *)
(* supplied, or what settlements took or gave back.                       *)
LEMMA MoveKeeps ==
  ASSUME StockParts, NEW delta, Move(delta), \A o \in DOMAIN delta : delta[o] \in Int,
         NEW s \in Int, supplied' = supplied + s,
         NEW k \in Int, Cardinality(Standing)' = Cardinality(Standing) + k,
         Brings(delta, "bar") + Brings(delta, "store") + k = s
  PROVE  StockParts'
<1>1. StockTyped /\ StockAddsUp /\ SoldOutIsTrue
  BY DEF StockParts
<1>2. /\ level' \in [Outlets -> Int] /\ menu' \in {"on", "off", "auto"}
      /\ SoldOutIsTrue'
      /\ \A o \in Outlets : level'[o] = level[o] + Brings(delta, o)
  BY <1>1, MoveLevels
<1>3. supplied \in Int /\ supplied' \in Int
  BY <1>1 DEF StockTyped
<1>4. PICK a \in Int, b \in Int, x \in Int, y \in Int :
        /\ a = level["bar"] /\ b = level["store"]
        /\ x = Brings(delta, "bar") /\ y = Brings(delta, "store")
        /\ level'["bar"] = a + x /\ level'["store"] = b + y
  <2>1. level["bar"] \in Int /\ level["store"] \in Int
    BY <1>1 DEF StockTyped, Outlets
  <2>2. Brings(delta, "bar") \in Int /\ Brings(delta, "store") \in Int
    BY DEF Brings
  <2> QED
    BY <1>2, <2>1, <2>2 DEF Outlets
<1>5. PICK n \in Nat : n = Cardinality(Standing)
  BY StandingFinite
<1>6. StockAddsUp'
  <2>1. a + b + n = 2 * Stocked + supplied
    BY <1>1, <1>4, <1>5 DEF StockAddsUp
  <2>2. Cardinality(Standing)' = n + k
    BY <1>5
  <2>3. \A m \in Int, p \in Int : a + b + n = m + p /\ x + y + k = s
           => (a + x) + (b + y) + (n + k) = m + (p + s)
    OBVIOUS
  <2>4. x + y + k = s /\ 2 * Stocked \in Int
    BY <1>4, BoundAssumption
  <2>5. (a + x) + (b + y) + (n + k) = 2 * Stocked + (supplied + s)
    BY <1>3, <2>1, <2>3, <2>4
  <2> QED
    BY <1>4, <2>2, <2>5 DEF StockAddsUp
<1> QED
  BY <1>2, <1>3, <1>6 DEF StockParts, StockTyped

(* A movement by which no settlement changes. *)
LEMMA DeskMoveKeeps ==
  ASSUME StockParts, NEW delta, Move(delta), \A o \in DOMAIN delta : delta[o] \in Int,
         supplied' = supplied + (Brings(delta, "bar") + Brings(delta, "store")),
         settlement' = settlement, issued' = issued
  PROVE  StockParts'
<1>1. PICK n \in Nat : n = Cardinality(Standing)
  BY StandingFinite
<1>2. Cardinality(Standing)' = Cardinality(Standing) + 0
  BY <1>1, StandingKept
<1>3. PICK s \in Int : s = Brings(delta, "bar") + Brings(delta, "store")
  BY DEF Brings
<1>4. supplied' = supplied + s
  BY <1>3
<1>5. Brings(delta, "bar") + Brings(delta, "store") + 0 = s
  BY <1>3 DEF Brings
<1>6. 0 \in Int
  OBVIOUS
<1> QED
  BY <1>2, <1>4, <1>5, <1>6, MoveKeeps

(* Delivery, wastage, transfer: checks and requests are not concerned. *)
LEMMA DeskKeeps ==
  ASSUME CheckParts, RestParts, UNCHANGED <<sales, promo, take, trx, crossed>>, UseDesk
  PROVE  CheckParts' /\ RestParts' /\ settlement' = settlement /\ issued' = issued
<1>1. UNCHANGED <<sales, promo, crossed>> /\ settlement' = settlement /\ issued' = issued
  BY DEF sales
<1>2. CheckParts'
  BY <1>1, ChecksKept
<1>3. desk' \in 0..MaxDesk
  BY BoundAssumption DEF RestParts, TakeTyped, UseDesk
<1>4. TakeTyped'
  BY <1>3 DEF RestParts, TakeTyped
<1>5. RequestsOK'
  BY RequestsKept DEF RestParts
<1> QED
  BY <1>1, <1>2, <1>4, <1>5 DEF RestParts

(* A delivery. *)
LEMMA ReceivedInv ==
  ASSUME CheckParts, StockParts, RestParts, RecordGoodsReceived
  PROVE  CheckParts' /\ StockParts' /\ RestParts'
<1>1. CheckParts' /\ RestParts' /\ settlement' = settlement /\ issued' = issued
  BY DeskKeeps DEF RecordGoodsReceived
<1>2. PICK delta : delta = [o \in {"store"} |-> 1]
  OBVIOUS
<1>3. Move(delta) /\ supplied' = supplied + 1
  BY <1>2 DEF RecordGoodsReceived
<1>4. /\ \A o \in DOMAIN delta : delta[o] \in Int
      /\ Brings(delta, "bar") = 0 /\ Brings(delta, "store") = 1
  BY <1>2 DEF Brings
<1>5. supplied' = supplied + (Brings(delta, "bar") + Brings(delta, "store"))
  BY <1>3, <1>4
<1> QED
  BY <1>1, <1>3, <1>4, <1>5, DeskMoveKeeps

(* Wastage, at either outlet. *)
LEMMA WastageInv ==
  ASSUME CheckParts, StockParts, RestParts, NEW o \in Outlets, RecordWastage(o)
  PROVE  CheckParts' /\ StockParts' /\ RestParts'
<1>1. CheckParts' /\ RestParts' /\ settlement' = settlement /\ issued' = issued
  BY DeskKeeps DEF RecordWastage
<1>2. PICK delta : delta = [x \in {o} |-> -1]
  OBVIOUS
<1>3. Move(delta) /\ supplied' = supplied - 1
  BY <1>2 DEF RecordWastage
<1>4. /\ \A x \in DOMAIN delta : delta[x] \in Int
      /\ Brings(delta, "bar") + Brings(delta, "store") = -1
  BY <1>2 DEF Brings, Outlets
<1>5. supplied' = supplied + (Brings(delta, "bar") + Brings(delta, "store"))
  BY <1>3, <1>4 DEF StockParts, StockTyped
<1> QED
  BY <1>1, <1>3, <1>4, <1>5, DeskMoveKeeps

(* What leaves one outlet reaches the other. *)
LEMMA TransferInv ==
  ASSUME CheckParts, StockParts, RestParts, NEW from \in Outlets, NEW to \in Outlets,
         TransferStock(from, to)
  PROVE  CheckParts' /\ StockParts' /\ RestParts'
<1>1. CheckParts' /\ RestParts' /\ settlement' = settlement /\ issued' = issued
  BY DeskKeeps DEF TransferStock
<1>2. PICK delta : delta = [o \in Outlets |-> IF o = from THEN -1 ELSE 1]
  OBVIOUS
<1>3. Move(delta) /\ supplied' = supplied
  BY <1>2 DEF TransferStock
<1>4. /\ \A x \in DOMAIN delta : delta[x] \in Int
      /\ Brings(delta, "bar") + Brings(delta, "store") = 0
  BY <1>2 DEF Brings, Outlets
<1>5. supplied' = supplied + (Brings(delta, "bar") + Brings(delta, "store"))
  BY <1>3, <1>4 DEF StockParts, StockTyped
<1> QED
  BY <1>1, <1>3, <1>4, <1>5, DeskMoveKeeps

(* The switch by hand is never "sold out". *)
LEMMA SwitchInv ==
  ASSUME CheckParts, StockParts, RestParts, NEW setting \in {"on", "off"},
         SetMenuItemAvailability(setting)
  PROVE  CheckParts' /\ StockParts' /\ RestParts'
<1>1. /\ UseDesk /\ menu' = setting /\ level' = level /\ supplied' = supplied
      /\ UNCHANGED <<sales, promo, take, trx, crossed>>
  BY DEF SetMenuItemAvailability
<1>2. CheckParts' /\ RestParts' /\ settlement' = settlement /\ issued' = issued
  BY <1>1, DeskKeeps
<1>3. Cardinality(Standing)' = Cardinality(Standing)
  BY <1>2, StandingKept
<1> QED
  BY <1>1, <1>2, <1>3 DEF StockParts, StockTyped, StockAddsUp, SoldOutIsTrue

(* A take opened, counted or dropped moves nothing. *)
LEMMA TakeInv ==
  ASSUME CheckParts, StockParts, RestParts,
         \/ \E o \in Outlets : OpenStockTake(o)
         \/ \E n \in Counts : RecordStockTakeCount(n)
         \/ CancelStockTake
  PROVE  CheckParts' /\ StockParts' /\ RestParts'
<1>1. UNCHANGED <<sales, promo, stock, trx, crossed>> /\ settlement' = settlement
      /\ issued' = issued
  BY DEF OpenStockTake, RecordStockTakeCount, CancelStockTake, sales
<1>2. CheckParts' /\ StockParts'
  BY <1>1, ChecksKept, StockKept
<1>3. RequestsOK'
  BY <1>1, RequestsKept DEF RestParts
<1>4. take \in [status : {"none", "open", "closed"}, outlet : Outlets, counted : Int]
      /\ desk \in 0..MaxDesk
  BY DEF RestParts, TakeTyped
<1>5. TakeTyped'
  <2>1. ASSUME NEW o \in Outlets, OpenStockTake(o) PROVE TakeTyped'
    <3>1. UseDesk
      BY <2>1 DEF OpenStockTake
    <3>3. desk' \in 0..MaxDesk
      BY <1>4, <3>1, BoundAssumption DEF UseDesk
    <3>2. take' \in [status : {"none", "open", "closed"}, outlet : Outlets, counted : Int]
      BY <2>1 DEF OpenStockTake, None
    <3> QED
      BY <3>2, <3>3 DEF TakeTyped
  <2>2. ASSUME NEW n \in Counts, RecordStockTakeCount(n) PROVE TakeTyped'
    <3>1. n \in Int
      BY BoundAssumption
    <3> QED
      BY <1>4, <2>2, <3>1 DEF RecordStockTakeCount, TakeTyped
  <2>3. ASSUME CancelStockTake PROVE TakeTyped'
    BY <1>4, <2>3 DEF CancelStockTake, TakeTyped, None
  <2> QED
    BY <2>1, <2>2, <2>3
<1> QED
  BY <1>2, <1>3, <1>5 DEF RestParts

(* A completed take supplies what it found, or takes away what is missing. *)
LEMMA CompleteInv ==
  ASSUME CheckParts, StockParts, RestParts, NEW r \in Requests, CompleteStockTake(r)
  PROVE  CheckParts' /\ StockParts' /\ RestParts'
<1>1. /\ UNCHANGED <<sales, promo, crossed>> /\ settlement' = settlement /\ issued' = issued
      /\ desk' = desk /\ Finish(r)
      /\ take' = [status |-> "closed", outlet |-> take.outlet, counted |-> None]
  BY DEF CompleteStockTake, sales
<1>2. CheckParts'
  BY <1>1, ChecksKept
<1>3. TakeTyped'
  BY <1>1 DEF RestParts, TakeTyped, None
<1>4. RequestsOK'
  BY <1>1, RequestsKept DEF RestParts
<1>5. PICK n \in Int, o \in Outlets : n = trx[r].counted /\ o = take.outlet
  BY DEF RestParts, RequestsOK, RequestOK, CompleteStockTake, TakeTyped
<1>6. PICK variance \in Int : variance = n - level[o]
  BY <1>5 DEF StockParts, StockTyped
<1>7. CASE n = None \/ variance = 0
  <2>1. UNCHANGED stock
    BY <1>5, <1>6, <1>7 DEF CompleteStockTake
  <2> QED
    BY <1>1, <1>2, <1>3, <1>4, <2>1, StockKept DEF RestParts
<1>8. CASE ~(n = None \/ variance = 0)
  <2>1. PICK delta : delta = [x \in {o} |-> variance]
    OBVIOUS
  <2>2. Move(delta) /\ supplied' = supplied + variance
    BY <1>5, <1>6, <1>8, <2>1 DEF CompleteStockTake
  <2>3. /\ \A x \in DOMAIN delta : delta[x] \in Int
        /\ Brings(delta, "bar") + Brings(delta, "store") = variance
    BY <2>1 DEF Brings, Outlets
  <2>4. supplied' = supplied + (Brings(delta, "bar") + Brings(delta, "store"))
    BY <2>2, <2>3
  <2>5. StockParts'
    BY <1>1, <2>2, <2>3, <2>4, DeskMoveKeeps
  <2> QED
    BY <1>2, <1>3, <1>4, <2>5 DEF RestParts
<1> QED
  BY <1>7, <1>8

-----------------------------------------------------------------------------
(* Checks and vouchers. *)

(* A check whose items change is otherwise what it was. *)
LEMMA ItemsKeep ==
  ASSUME CheckParts, items' \in [Checks -> [Groups -> 0..MaxItem]],
         UNCHANGED <<check, settlement, issued, promo, crossed>>
  PROVE  CheckParts'
<1>1. /\ check' = check /\ settlement' = settlement /\ issued' = issued
      /\ link' = link /\ voucher' = voucher /\ used' = used /\ crossed' = crossed
  BY DEF promo
<1>2. ChecksTyped' /\ PromoTyped'
  BY <1>1 DEF CheckParts, ChecksTyped, PromoTyped
<1>3. NotYetSettled'
  BY <1>1 DEF CheckParts, NotYetSettled
<1>4. UsesCounted'
  BY <1>1 DEF CheckParts, UsesCounted
<1>5. UsesStand'
  BY <1>1 DEF CheckParts, UsesStand
<1> QED
  BY <1>2, <1>3, <1>4, <1>5 DEF CheckParts

(* One item more, one fewer. *)
LEMMA ItemCounts ==
  ASSUME NEW groups \in [Groups -> 0..MaxItem], NEW g \in Groups
  PROVE  /\ groups[g] < MaxItem => More(groups, g) \in [Groups -> 0..MaxItem]
         /\ groups[g] > 0 => Fewer(groups, g) \in [Groups -> 0..MaxItem]
         /\ \A h \in Groups \ {g} : Fewer(groups, g)[h] = groups[h]
<1>1. groups[g] \in 0..MaxItem /\ MaxItem \in Nat
  BY BoundAssumption
<1>2. groups[g] < MaxItem => groups[g] + 1 \in 0..MaxItem
  BY <1>1
<1>3. groups[g] > 0 => groups[g] - 1 \in 0..MaxItem
  BY <1>1
<1>4. ASSUME NEW n, n \in 0..MaxItem
      PROVE  [groups EXCEPT ![g] = n] \in [Groups -> 0..MaxItem]
  BY <1>4
<1>5. \A h \in Groups \ {g} : Fewer(groups, g)[h] = groups[h]
  BY DEF Fewer
<1> QED
  BY <1>2, <1>3, <1>4, <1>5 DEF More, Fewer

(* Stock and requests are not concerned. *)
LEMMA OnlyChecks ==
  ASSUME StockParts, RestParts, UNCHANGED <<stock, take, desk>>,
         settlement' = settlement, issued' = issued,
         (\E r \in Requests : Finish(r)) \/ trx' = trx
  PROVE  StockParts' /\ RestParts'
<1>1. StockParts'
  BY StockKept
<1>2. RequestsOK'
  BY RequestsKept DEF RestParts
<1>3. TakeTyped'
  BY DEF RestParts, TakeTyped
<1> QED
  BY <1>1, <1>2, <1>3 DEF RestParts

(* An item more on a group. *)
LEMMA AddItemInv ==
  ASSUME CheckParts, StockParts, RestParts, NEW c \in Checks, NEW g \in Groups, AddItem(c, g)
  PROVE  CheckParts' /\ StockParts' /\ RestParts'
<1>1. /\ items[c][g] < MaxItem /\ items' = [items EXCEPT ![c] = More(items[c], g)]
      /\ UNCHANGED <<check, settlement, issued, promo, crossed>>
      /\ UNCHANGED <<stock, take, desk>>
      /\ settlement' = settlement /\ issued' = issued /\ trx' = trx
  BY DEF AddItem
<1>2. items \in [Checks -> [Groups -> 0..MaxItem]] /\ items[c] \in [Groups -> 0..MaxItem]
  BY DEF CheckParts, ChecksTyped
<1>3. PICK more \in [Groups -> 0..MaxItem] : more = More(items[c], g)
  BY <1>1, <1>2, ItemCounts
<1>4. items' \in [Checks -> [Groups -> 0..MaxItem]]
  BY <1>1, <1>2, <1>3
<1> QED
  BY <1>1, <1>4, ItemsKeep, OnlyChecks

(* An item changes its group. *)
LEMMA AssignInv ==
  ASSUME CheckParts, StockParts, RestParts,
         NEW c \in Checks, NEW from \in Groups, NEW to \in Groups,
         AssignItemSplitGroup(c, from, to)
  PROVE  CheckParts' /\ StockParts' /\ RestParts'
<1>1. /\ from # to /\ items[c][from] > 0 /\ items[c][to] < MaxItem
      /\ items' = [items EXCEPT ![c] = More(Fewer(items[c], from), to)]
      /\ UNCHANGED <<check, settlement, issued, promo, crossed>>
      /\ UNCHANGED <<stock, take, desk>>
      /\ settlement' = settlement /\ issued' = issued /\ trx' = trx
  BY DEF AssignItemSplitGroup
<1>2. items \in [Checks -> [Groups -> 0..MaxItem]] /\ items[c] \in [Groups -> 0..MaxItem]
  BY DEF CheckParts, ChecksTyped
<1>3. PICK less \in [Groups -> 0..MaxItem] :
        less = Fewer(items[c], from) /\ less[to] = items[c][to]
  BY <1>1, <1>2, ItemCounts
<1>4. PICK more \in [Groups -> 0..MaxItem] : more = More(less, to)
  BY <1>1, <1>3, ItemCounts
<1>5. items' \in [Checks -> [Groups -> 0..MaxItem]]
  BY <1>1, <1>2, <1>3, <1>4
<1> QED
  BY <1>1, <1>5, ItemsKeep, OnlyChecks

(* A voucher that is not in use is put on a check or taken off it. *)
LEMMA LinkKeeps ==
  ASSUME CheckParts, NEW c \in Checks, NEW l \in {"attached", "released"},
         check[c] = "open",
         link' = [link EXCEPT ![c] = l],
         items' \in [Checks -> [Groups -> 0..MaxItem]],
         UNCHANGED <<check, settlement, issued, voucher, used, crossed>>
  PROVE  CheckParts'
<1>1. ChecksTyped /\ PromoTyped /\ NotYetSettled /\ UsesCounted /\ UsesStand
  BY DEF CheckParts
<1>2. link[c] \in {"none", "attached", "released"}
  BY <1>1 DEF NotYetSettled
<1>3. \A d \in Checks : link'[d] = IF d = c THEN l ELSE link[d]
  BY <1>1 DEF PromoTyped
<1>4. link' \in [Checks -> {"none", "attached", "redeemed", "reversed", "released"}]
  BY <1>1 DEF PromoTyped
<1>5. ChecksTyped' /\ PromoTyped'
  BY <1>1, <1>4 DEF ChecksTyped, PromoTyped
<1>6. NotYetSettled'
  BY <1>1, <1>3 DEF NotYetSettled
<1>7. UsesCounted'
  <2>1. {d \in Checks : link'[d] = "redeemed"} = {d \in Checks : link[d] = "redeemed"}
    BY <1>2, <1>3
  <2> QED
    BY <1>1, <2>1 DEF UsesCounted
<1>8. UsesStand'
  BY <1>1, <1>3 DEF UsesStand
<1> QED
  BY <1>5, <1>6, <1>7, <1>8 DEF CheckParts

(* An item fewer; with the last one the voucher is taken off. *)
LEMMA VoidOrderItemInv ==
  ASSUME CheckParts, StockParts, RestParts, NEW r \in Requests, VoidOrderItem(r)
  PROVE  CheckParts' /\ StockParts' /\ RestParts'
<1>1. PICK c \in Checks, g \in Groups : c = trx[r].check /\ g = trx[r].group
  BY DEF RestParts, RequestsOK, RequestOK, VoidOrderItem
<1>2. /\ check[c] = "open" /\ items[c][g] > 0
      /\ items' = [items EXCEPT ![c] = Fewer(items[c], g)]
      /\ link' = link \/ link' = [link EXCEPT ![c] = "released"]
      /\ Finish(r)
      /\ UNCHANGED <<check, settlement, issued, voucher, used, crossed>>
      /\ UNCHANGED <<stock, take, desk>>
      /\ settlement' = settlement /\ issued' = issued
  BY <1>1 DEF VoidOrderItem
<1>3. items \in [Checks -> [Groups -> 0..MaxItem]] /\ items[c] \in [Groups -> 0..MaxItem]
  BY DEF CheckParts, ChecksTyped
<1>4. PICK less \in [Groups -> 0..MaxItem] : less = Fewer(items[c], g)
  BY <1>2, <1>3, ItemCounts
<1>5. items' \in [Checks -> [Groups -> 0..MaxItem]]
  BY <1>2, <1>3, <1>4
<1>6. StockParts' /\ RestParts'
  BY <1>2, OnlyChecks
<1>7. CASE link' = link
  BY <1>2, <1>5, <1>6, <1>7, ItemsKeep DEF promo
<1>8. CASE link' = [link EXCEPT ![c] = "released"]
  BY <1>2, <1>5, <1>6, <1>8, LinkKeeps
<1> QED
  BY <1>2, <1>7, <1>8

(* A voucher put on a check, or taken off it. *)
LEMMA LinkInv ==
  ASSUME CheckParts, StockParts, RestParts, NEW c \in Checks,
         AttachVoucher(c) \/ RemoveVoucher(c)
  PROVE  CheckParts' /\ StockParts' /\ RestParts'
<1>1. /\ check[c] = "open"
      /\ UNCHANGED <<check, settlement, issued, voucher, used, crossed>>
      /\ UNCHANGED <<stock, take, desk>>
      /\ settlement' = settlement /\ issued' = issued /\ trx' = trx /\ items' = items
  BY DEF AttachVoucher, RemoveVoucher, sales
<1>2. PICK l \in {"attached", "released"} : link' = [link EXCEPT ![c] = l]
  BY DEF AttachVoucher, RemoveVoucher
<1>3. items' \in [Checks -> [Groups -> 0..MaxItem]]
  BY <1>1 DEF CheckParts, ChecksTyped
<1>4. CheckParts'
  BY <1>1, <1>2, <1>3, LinkKeeps
<1> QED
  BY <1>1, <1>4, OnlyChecks

(* A voucher switched off or on. *)
LEMMA VoucherStatusInv ==
  ASSUME CheckParts, StockParts, RestParts, SetVoucherStatus
  PROVE  CheckParts' /\ StockParts' /\ RestParts'
<1>1. /\ UseDesk /\ voucher' \in {"active", "disabled"}
      /\ check' = check /\ items' = items /\ settlement' = settlement /\ issued' = issued
      /\ link' = link /\ used' = used /\ crossed' = crossed
      /\ UNCHANGED stock /\ take' = take /\ trx' = trx
  BY DEF SetVoucherStatus, sales
<1>2. ChecksTyped' /\ PromoTyped'
  BY <1>1 DEF CheckParts, ChecksTyped, PromoTyped
<1>3. NotYetSettled'
  BY <1>1 DEF CheckParts, NotYetSettled
<1>4. UsesCounted'
  BY <1>1 DEF CheckParts, UsesCounted
<1>5. UsesStand'
  BY <1>1 DEF CheckParts, UsesStand
<1>6. StockParts'
  BY <1>1, StockKept
<1>7. desk' \in 0..MaxDesk
  BY <1>1, BoundAssumption DEF RestParts, TakeTyped, UseDesk
<1>8. TakeTyped'
  BY <1>1, <1>7 DEF RestParts, TakeTyped
<1>9. RequestsOK'
  BY <1>1, RequestsKept DEF RestParts
<1> QED
  BY <1>2, <1>3, <1>4, <1>5, <1>6, <1>8, <1>9 DEF CheckParts, RestParts

(* A check voided before it was settled holds no use. *)
LEMMA VoidOrderInv ==
  ASSUME CheckParts, StockParts, RestParts, NEW c \in Checks, VoidOrder(c)
  PROVE  CheckParts' /\ StockParts' /\ RestParts'
<1>1. /\ check[c] = "open" /\ check' = [check EXCEPT ![c] = "void"]
      /\ items' = items /\ settlement' = settlement /\ issued' = issued
      /\ link' = link /\ voucher' = voucher /\ used' = used /\ crossed' = crossed
      /\ UNCHANGED <<stock, take, desk>> /\ trx' = trx
  BY DEF VoidOrder, promo
<1>2. ChecksTyped' /\ PromoTyped'
  BY <1>1 DEF CheckParts, ChecksTyped, PromoTyped
<1>3. NotYetSettled'
  <2>1. \A d \in Checks : check'[d] # "settled" => check[d] # "settled"
    BY <1>1 DEF CheckParts, ChecksTyped
  <2> QED
    BY <1>1, <2>1 DEF CheckParts, NotYetSettled
<1>4. UsesCounted'
  BY <1>1 DEF CheckParts, UsesCounted
<1>5. UsesStand'
  BY <1>1 DEF CheckParts, UsesStand
<1>6. StockParts' /\ RestParts'
  BY <1>1, OnlyChecks
<1> QED
  BY <1>2, <1>3, <1>4, <1>5, <1>6 DEF CheckParts

(* The checks that hold a use are finitely many. *)
LEMMA RedeemedFinite ==
  IsFiniteSet({c \in Checks : link[c] = "redeemed"})
<1>1. {c \in Checks : link[c] = "redeemed"} \in SUBSET Checks
  OBVIOUS
<1> QED
  BY <1>1, BoundAssumption, FS_Subset

(* A settlement takes a use if the voucher has one left, and stands. *)
LEMMA SettleInv ==
  ASSUME CheckParts, StockParts, RestParts, NEW r \in Requests, Settle(r)
  PROVE  CheckParts' /\ StockParts' /\ RestParts'
<1>1. ChecksTyped /\ PromoTyped /\ NotYetSettled /\ UsesCounted /\ UsesStand
  BY DEF CheckParts
<1>2. PICK c \in Checks, seen \in [Groups -> 0..MaxItem] :
        /\ c = trx[r].check /\ seen = trx[r].items
        /\ \E g \in Groups : seen[g] > 0
  BY DEF RestParts, RequestsOK, RequestOK, Settle
<1>3. PICK row : row = [g \in Groups |-> IF seen[g] > 0 THEN "live" ELSE "none"]
  OBVIOUS
<1>4. /\ check[c] = "open"
      /\ link[c] = "attached" => Redeemable
      /\ check' = [check EXCEPT ![c] = "settled"]
      /\ settlement' = [settlement EXCEPT ![c] = row]
      /\ issued' = [issued EXCEPT ![c] = seen]
      /\ IF link[c] = "attached"
         THEN used' = used + 1 /\ link' = [link EXCEPT ![c] = "redeemed"]
         ELSE used' = used /\ link' = link
      /\ Move(AtBar(-Total(seen)))
      /\ Finish(r)
      /\ items' = items /\ voucher' = voucher /\ supplied' = supplied /\ take' = take
      /\ crossed' = crossed /\ desk' = desk
  BY <1>2, <1>3 DEF Settle
<1>5. link[c] \in {"none", "attached", "released"} /\ \A g \in Groups : settlement[c][g] = "none"
  BY <1>1, <1>4 DEF NotYetSettled
<1>6. row \in [Groups -> {"none", "live", "voided"}] /\ \E g \in Groups : row[g] = "live"
  BY <1>2, <1>3
<1>7. ChecksTyped'
  BY <1>1, <1>4, <1>6 DEF ChecksTyped
<1>8. /\ \A d \in Checks \ {c} : settlement'[d] = settlement[d] /\ check'[d] = check[d]
      /\ settlement'[c] = row /\ check'[c] = "settled"
  BY <1>1, <1>4 DEF ChecksTyped
<1>9. PromoTyped' /\ UsesCounted'
  <2>1. CASE link[c] = "attached"
    <3>1. /\ used' = used + 1 /\ used < MaxUses
          /\ link' = [link EXCEPT ![c] = "redeemed"]
      BY <1>4, <2>1 DEF Redeemable, NoProblem
    <3>2. used \in 0..MaxUses /\ used' \in 0..MaxUses
      BY <1>1, <3>1, BoundAssumption DEF PromoTyped
    <3>3. PromoTyped'
      BY <1>1, <1>4, <3>1, <3>2 DEF PromoTyped
    <3>4. PICK S : S = {d \in Checks : link[d] = "redeemed"}
      OBVIOUS
    <3>5. {d \in Checks : link'[d] = "redeemed"} = S \cup {c} /\ c \notin S
      BY <1>1, <2>1, <3>1, <3>4 DEF PromoTyped
    <3>6. IsFiniteSet(S)
      BY <3>4, RedeemedFinite
    <3>7. Cardinality(S \cup {c}) = Cardinality(S) + 1
      BY <3>5, <3>6, FS_AddElement
    <3> QED
      BY <1>1, <3>1, <3>3, <3>4, <3>5, <3>7 DEF UsesCounted
  <2>2. CASE link[c] # "attached"
    <3>1. used' = used /\ link' = link
      BY <1>4, <2>2
    <3> QED
      BY <1>1, <1>4, <3>1 DEF PromoTyped, UsesCounted
  <2> QED
    BY <2>1, <2>2
<1>10. \A d \in Checks : link'[d] = link[d] \/ (d = c /\ link'[d] = "redeemed")
  BY <1>1, <1>4 DEF PromoTyped
<1>11. NotYetSettled'
  BY <1>1, <1>8, <1>10 DEF NotYetSettled
<1>12. UsesStand'
  <2> SUFFICES ASSUME NEW d \in Checks \ crossed
               PROVE  /\ link'[d] = "redeemed" => \E g \in Groups : settlement'[d][g] = "live"
                      /\ link'[d] = "reversed" => ~\E g \in Groups : settlement'[d][g] = "live"
    BY <1>4 DEF UsesStand
  <2>1. CASE d = c
    BY <1>5, <1>6, <1>8, <1>10, <2>1
  <2>2. CASE d # c
    BY <1>1, <1>8, <1>10, <2>2 DEF UsesStand
  <2> QED
    BY <2>1, <2>2
<1>13. StockParts'
  <2>1. PICK n \in Nat : n = Total(seen)
    BY UnitsFinite
  <2>2. PICK delta : delta = AtBar(-n)
    OBVIOUS
  <2>3. /\ Move(delta) /\ \A o \in DOMAIN delta : delta[o] \in Int
        /\ Brings(delta, "bar") = -n /\ Brings(delta, "store") = 0
    BY <1>4, <2>1, <2>2 DEF AtBar, Brings
  <2>4. Cardinality(Standing)' = Cardinality(Standing) + n
    BY <1>1, <1>3, <1>4, <1>5, <2>1, SettleStands
  <2>5. 0 \in Int /\ supplied' = supplied + 0
    BY <1>4 DEF StockParts, StockTyped
  <2>6. n \in Int /\ Brings(delta, "bar") + Brings(delta, "store") + n = 0
    BY <2>3
  <2> QED
    BY <2>3, <2>4, <2>5, <2>6, MoveKeeps
<1>14. RestParts'
  BY <1>4, RequestsKept DEF RestParts, TakeTyped
<1> QED
  BY <1>7, <1>9, <1>11, <1>12, <1>13, <1>14 DEF CheckParts

(* A void gives back what the settlement took, and the use if nothing of *)
(* the check stands: what the request saw of the others is true, unless  *)
(* another void crossed it.                                              *)
LEMMA VoidSettlementInv ==
  ASSUME CheckParts, StockParts, RestParts, NEW r \in Requests, VoidSettlement(r)
  PROVE  CheckParts' /\ StockParts' /\ RestParts'
<1>1. ChecksTyped /\ PromoTyped /\ NotYetSettled /\ UsesCounted /\ UsesStand
  BY DEF CheckParts
<1>2. PICK c \in Checks, g \in Groups : c = trx[r].check /\ g = trx[r].group
  BY DEF RestParts, RequestsOK, RequestOK, VoidSettlement
<1>3. PICK seen : seen = trx[r].settlement
  OBVIOUS
<1>4. /\ settlement[c][g] = "live"
      /\ settlement' = [settlement EXCEPT ![c] = [@ EXCEPT ![g] = "voided"]]
      /\ Move(AtBar(GivenBack(c, g)))
      /\ IF link[c] = "redeemed" /\ ~OtherStands(seen, g)
         THEN /\ link' = [link EXCEPT ![c] = "reversed"]
              /\ used' = IF used > 0 THEN used - 1 ELSE 0
         ELSE link' = link /\ used' = used
      /\ crossed' = IF seen = settlement[c] THEN crossed ELSE crossed \cup {c}
      /\ Finish(r)
      /\ check' = check /\ items' = items /\ issued' = issued /\ voucher' = voucher
      /\ supplied' = supplied /\ take' = take /\ desk' = desk
  BY <1>2, <1>3 DEF VoidSettlement
<1>5. /\ ChecksTyped'
      /\ \A d \in Checks, h \in Groups :
           settlement'[d][h] = IF d = c /\ h = g THEN "voided" ELSE settlement[d][h]
  BY <1>1, <1>4 DEF ChecksTyped
<1>6. crossed \subseteq crossed' /\ crossed' \subseteq Checks
      /\ (c \notin crossed' => seen = settlement[c])
  BY <1>1, <1>4 DEF PromoTyped
<1>7. check[c] = "settled"
  BY <1>1, <1>4 DEF NotYetSettled
<1>8. PromoTyped' /\ UsesCounted'
  <2>1. CASE link[c] = "redeemed" /\ ~OtherStands(seen, g)
    <3>1. /\ link' = [link EXCEPT ![c] = "reversed"]
          /\ used' = IF used > 0 THEN used - 1 ELSE 0
      BY <1>4, <2>1
    <3>2. PICK S : S = {d \in Checks : link[d] = "redeemed"}
      OBVIOUS
    <3>3. {d \in Checks : link'[d] = "redeemed"} = S \ {c} /\ c \in S
      BY <1>1, <2>1, <3>1, <3>2 DEF PromoTyped
    <3>4. IsFiniteSet(S)
      BY <3>2, RedeemedFinite
    <3>5. Cardinality(S \ {c}) = Cardinality(S) - 1
      BY <3>3, <3>4, FS_RemoveElement
    <3>6. Cardinality(S) \in Nat /\ Cardinality(S) > 0
      <4>1. S # {} /\ Cardinality(S) \in Nat
        BY <3>3, <3>4, FS_CardinalityType
      <4>2. Cardinality(S) # 0
        BY <3>4, <4>1, FS_EmptySet
      <4> QED
        BY <4>1, <4>2
    <3>7. used = Cardinality(S) /\ used' = used - 1
      BY <1>1, <3>1, <3>2, <3>6 DEF UsesCounted
    <3>8. used \in 0..MaxUses /\ used' \in 0..MaxUses
      BY <1>1, <3>6, <3>7, BoundAssumption DEF PromoTyped
    <3>9. PromoTyped'
      BY <1>1, <1>4, <1>6, <3>1, <3>8 DEF PromoTyped
    <3> QED
      BY <3>3, <3>5, <3>7, <3>9 DEF UsesCounted
  <2>2. CASE ~(link[c] = "redeemed" /\ ~OtherStands(seen, g))
    <3>1. used' = used /\ link' = link
      BY <1>4, <2>2
    <3> QED
      BY <1>1, <1>4, <1>6, <3>1 DEF PromoTyped, UsesCounted
  <2> QED
    BY <2>1, <2>2
<1>9. \A d \in Checks \ {c} : link'[d] = link[d]
  BY <1>1, <1>4 DEF PromoTyped
<1>10. NotYetSettled'
  BY <1>1, <1>4, <1>5, <1>7, <1>9 DEF NotYetSettled
<1>11. UsesStand'
  <2> SUFFICES ASSUME NEW d \in Checks \ crossed'
               PROVE  /\ link'[d] = "redeemed" => \E h \in Groups : settlement'[d][h] = "live"
                      /\ link'[d] = "reversed" => ~\E h \in Groups : settlement'[d][h] = "live"
    BY DEF UsesStand
  <2>1. CASE d = c
    <3>1. seen = settlement[c] /\ c \notin crossed
      BY <1>6, <2>1
    <3>2. link[c] # "reversed"
      BY <1>1, <1>4, <3>1 DEF UsesStand
    <3>3. OtherStands(seen, g) <=> \E h \in Groups : settlement'[c][h] = "live"
      BY <1>5, <3>1 DEF OtherStands
    <3>4. CASE link[c] = "redeemed" /\ ~OtherStands(seen, g)
      <4>1. link'[c] = "reversed"
        BY <1>1, <1>4, <3>4 DEF PromoTyped
      <4> QED
        BY <2>1, <3>3, <3>4, <4>1
    <3>5. CASE ~(link[c] = "redeemed" /\ ~OtherStands(seen, g))
      <4>1. link'[c] = link[c]
        BY <1>4, <3>5
      <4> QED
        BY <2>1, <3>2, <3>3, <3>5, <4>1
    <3> QED
      BY <3>4, <3>5
  <2>2. CASE d # c
    BY <1>1, <1>5, <1>6, <1>9, <2>2 DEF UsesStand
  <2> QED
    BY <2>1, <2>2
<1>12. StockParts'
  <2>1. PICK n \in Nat : n = issued[c][g]
    BY <1>1 DEF ChecksTyped
  <2>2. PICK delta : delta = AtBar(n)
    OBVIOUS
  <2>3. /\ Move(delta) /\ \A o \in DOMAIN delta : delta[o] \in Int
        /\ Brings(delta, "bar") = n /\ Brings(delta, "store") = 0
    BY <1>4, <2>1, <2>2 DEF AtBar, Brings, GivenBack
  <2>4. Cardinality(Standing)' = Cardinality(Standing) - n
    BY <1>1, <1>4, <2>1, VoidStands
  <2>5. PICK k \in Int : k = -n
    BY <2>1
  <2>6. Cardinality(Standing)' = Cardinality(Standing) + k
    BY <2>4, <2>5, StandingFinite
  <2>7. 0 \in Int /\ supplied' = supplied + 0
    BY <1>4 DEF StockParts, StockTyped
  <2>8. Brings(delta, "bar") + Brings(delta, "store") + k = 0
    BY <2>3, <2>5
  <2> QED
    BY <2>3, <2>5, <2>6, <2>7, <2>8, MoveKeeps
<1>13. RestParts'
  BY <1>4, RequestsKept DEF RestParts, TakeTyped
<1> QED
  BY <1>5, <1>8, <1>10, <1>11, <1>12, <1>13 DEF CheckParts

-----------------------------------------------------------------------------
(* The theorems. *)

(* What each request knows when it begins. *)
LEMMA BeginsInv ==
  ASSUME CheckParts, StockParts, RestParts, NEW r \in Requests,
         \/ \E c \in Checks : BeginSettle(r, c)
         \/ \E c \in Checks, g \in Groups : BeginVoidItem(r, c, g) \/ BeginVoid(r, c, g)
         \/ BeginComplete(r)
  PROVE  CheckParts' /\ StockParts' /\ RestParts'
<1>1. ASSUME NEW c \in Checks, BeginSettle(r, c)
      PROVE  CheckParts' /\ StockParts' /\ RestParts'
  <2>1. PICK q : q = [op |-> "settle", check |-> c, items |-> items[c]]
    OBVIOUS
  <2>2. /\ q.op = "settle" /\ q.check = c /\ q.items = items[c]
        /\ items[c] \in [Groups -> 0..MaxItem] /\ Total(items[c]) > 0 /\ Begin(r, q)
    BY <1>1, <2>1 DEF BeginSettle, CheckParts, ChecksTyped
  <2>3. \E g \in Groups : items[c][g] > 0
    BY <2>2, UnitsSome
  <2>4. RequestOK(q)
    BY <2>2, <2>3 DEF RequestOK
  <2> QED
    BY <2>2, <2>4, BeginKeeps
<1>2. ASSUME NEW c \in Checks, NEW g \in Groups, BeginVoidItem(r, c, g)
      PROVE  CheckParts' /\ StockParts' /\ RestParts'
  <2>1. PICK last : last = (Total(items[c]) = 1)
    OBVIOUS
  <2>2. PICK q : q = [op |-> "voidItem", check |-> c, group |-> g, last |-> last]
    OBVIOUS
  <2>3. q.op = "voidItem" /\ q.check = c /\ q.group = g
    BY <2>2
  <2>4. Begin(r, q)
    BY <1>2, <2>1, <2>2 DEF BeginVoidItem
  <2>5. RequestOK(q)
    BY <2>3 DEF RequestOK
  <2> QED
    BY <2>4, <2>5, BeginKeeps
<1>3. ASSUME NEW c \in Checks, NEW g \in Groups, BeginVoid(r, c, g)
      PROVE  CheckParts' /\ StockParts' /\ RestParts'
  <2>1. PICK q : q = [op |-> "void", check |-> c, group |-> g, settlement |-> settlement[c]]
    OBVIOUS
  <2>2. q.op = "void" /\ q.check = c /\ q.group = g /\ Begin(r, q)
    BY <1>3, <2>1 DEF BeginVoid
  <2>3. RequestOK(q)
    BY <2>2 DEF RequestOK
  <2> QED
    BY <2>2, <2>3, BeginKeeps
<1>4. ASSUME BeginComplete(r) PROVE CheckParts' /\ StockParts' /\ RestParts'
  <2>1. PICK q : q = [op |-> "complete", counted |-> take.counted]
    OBVIOUS
  <2>2. q.op = "complete" /\ q.counted \in Int /\ Begin(r, q)
    BY <1>4, <2>1 DEF BeginComplete, RestParts, TakeTyped
  <2>3. RequestOK(q)
    BY <2>2 DEF RequestOK
  <2> QED
    BY <2>2, <2>3, BeginKeeps
<1> QED
  BY <1>1, <1>2, <1>3, <1>4

(* A request that fails leaves nothing behind. *)
LEMMA AbandonInv ==
  ASSUME CheckParts, StockParts, RestParts, NEW r \in Requests, Abort(r)
  PROVE  CheckParts' /\ StockParts' /\ RestParts'
<1>1. /\ UNCHANGED <<sales, promo, crossed>> /\ UNCHANGED <<stock, take, desk>>
      /\ settlement' = settlement /\ issued' = issued /\ Finish(r)
  BY DEF Abort, sales
<1> QED
  BY <1>1, ChecksKept, OnlyChecks

(* No check has been opened yet. *)
LEMMA RegisterInitInv == RegisterInit => RegisterInv
<1> SUFFICES ASSUME RegisterInit PROVE RegisterInv
  OBVIOUS
<1>1. /\ check = [c \in Checks |-> "open"]
      /\ items = [c \in Checks |-> [g \in Groups |-> 0]]
      /\ settlement = [c \in Checks |-> [g \in Groups |-> "none"]]
      /\ issued = [c \in Checks |-> [g \in Groups |-> 0]]
      /\ link = [c \in Checks |-> "none"]
      /\ voucher = "active" /\ used = 0
      /\ level = [o \in Outlets |-> Stocked]
      /\ menu = "on" /\ take = NoTake
      /\ trx = [r \in Requests |-> NoRequest]
      /\ supplied = 0 /\ crossed = {} /\ desk = 0
  BY DEF RegisterInit
<1>2. ChecksTyped
  BY <1>1, BoundAssumption DEF ChecksTyped
<1>3. PromoTyped /\ NotYetSettled
  BY <1>1, BoundAssumption DEF PromoTyped, NotYetSettled
<1>4. UsesCounted /\ UsesStand
  <2>1. {c \in Checks : link[c] = "redeemed"} = {}
    BY <1>1
  <2> QED
    BY <1>1, <2>1, FS_EmptySet DEF UsesCounted, UsesStand
<1>5. StockParts
  <2>1. Standing = {}
    BY <1>1 DEF Standing
  <2>2. Cardinality(Standing) = 0
    BY <2>1, FS_EmptySet
  <2>3. Stocked \in Int /\ level["bar"] = Stocked /\ level["store"] = Stocked
    BY <1>1, BoundAssumption DEF Outlets
  <2>4. level \in [Outlets -> Int]
    BY <1>1, <2>3
  <2> QED
    BY <1>1, <2>2, <2>3, <2>4 DEF StockParts, StockTyped, StockAddsUp, SoldOutIsTrue
<1>6. RestParts
  <2>1. TakeTyped
    BY <1>1, BoundAssumption DEF TakeTyped, NoTake, None, Outlets
  <2>2. RequestsOK
    BY <1>1 DEF RequestsOK, RequestOK, NoRequest
  <2> QED
    BY <2>1, <2>2 DEF RestParts
<1> QED
  BY <1>2, <1>3, <1>4, <1>5, <1>6, RegisterParts DEF CheckParts

(* Every step keeps the invariant. *)
LEMMA RegisterNextInv == RegisterInv /\ [RegisterNext]_registerVars => RegisterInv'
<1> SUFFICES ASSUME CheckParts, StockParts, RestParts, [RegisterNext]_registerVars
             PROVE  CheckParts' /\ StockParts' /\ RestParts'
  <2>1. RegisterInv <=> CheckParts /\ StockParts /\ RestParts
    BY RegisterParts
  <2>2. RegisterInv' <=> CheckParts' /\ StockParts' /\ RestParts'
    BY RegisterParts, PTL
  <2> QED
    BY <2>1, <2>2
<1> DEFINE Kept == CheckParts' /\ StockParts' /\ RestParts'
<1>1. ASSUME NEW r \in Requests,
             \/ \E c \in Checks : BeginSettle(r, c)
             \/ \E c \in Checks, g \in Groups : BeginVoidItem(r, c, g) \/ BeginVoid(r, c, g)
             \/ BeginComplete(r)
      PROVE  Kept
  BY <1>1, BeginsInv
<1>2. ASSUME NEW r \in Requests, VoidOrderItem(r) PROVE Kept
  BY <1>2, VoidOrderItemInv
<1>3. ASSUME NEW r \in Requests, Settle(r) PROVE Kept
  BY <1>3, SettleInv
<1>4. ASSUME NEW r \in Requests, VoidSettlement(r) PROVE Kept
  BY <1>4, VoidSettlementInv
<1>5. ASSUME NEW r \in Requests, CompleteStockTake(r) PROVE Kept
  BY <1>5, CompleteInv
<1>6. ASSUME NEW r \in Requests, Abort(r) PROVE Kept
  BY <1>6, AbandonInv
<1>7. ASSUME NEW c \in Checks, NEW g \in Groups, AddItem(c, g) PROVE Kept
  BY <1>7, AddItemInv
<1>8. ASSUME NEW c \in Checks, NEW from \in Groups, NEW to \in Groups,
             AssignItemSplitGroup(c, from, to)
      PROVE  Kept
  BY <1>8, AssignInv
<1>9. ASSUME NEW c \in Checks, VoidOrder(c) PROVE Kept
  BY <1>9, VoidOrderInv
<1>10. ASSUME NEW c \in Checks, AttachVoucher(c) \/ RemoveVoucher(c) PROVE Kept
  BY <1>10, LinkInv
<1>11. ASSUME NEW o \in Outlets, RecordWastage(o) PROVE Kept
  BY <1>11, WastageInv
<1>12. ASSUME \/ \E o \in Outlets : OpenStockTake(o)
              \/ \E n \in Counts : RecordStockTakeCount(n)
              \/ CancelStockTake
       PROVE  Kept
  BY <1>12, TakeInv
<1>13. ASSUME NEW from \in Outlets, NEW to \in Outlets, TransferStock(from, to) PROVE Kept
  BY <1>13, TransferInv
<1>14. ASSUME NEW setting \in {"on", "off"}, SetMenuItemAvailability(setting) PROVE Kept
  BY <1>14, SwitchInv
<1>15. ASSUME RecordGoodsReceived PROVE Kept
  BY <1>15, ReceivedInv
<1>16. ASSUME SetVoucherStatus PROVE Kept
  BY <1>16, VoucherStatusInv
<1>17. ASSUME UNCHANGED registerVars PROVE Kept
  <2>1. /\ UNCHANGED <<sales, promo, crossed>> /\ UNCHANGED <<stock, take, desk>>
        /\ settlement' = settlement /\ issued' = issued /\ trx' = trx
    BY <1>17 DEF registerVars, sales
  <2> QED
    BY <2>1, ChecksKept, OnlyChecks
<1> HIDE DEF Kept
<1>18. ASSUME RegisterNext PROVE Kept
  <2>1. CASE \E r \in Requests :
               \/ \E c \in Checks : BeginSettle(r, c)
               \/ \E c \in Checks, g \in Groups : BeginVoidItem(r, c, g) \/ BeginVoid(r, c, g)
               \/ BeginComplete(r)
               \/ VoidOrderItem(r) \/ Settle(r) \/ VoidSettlement(r) \/ CompleteStockTake(r)
               \/ Abort(r)
    BY <1>1, <1>2, <1>3, <1>4, <1>5, <1>6, <2>1
  <2>2. CASE \E c \in Checks :
               \/ \E g \in Groups : AddItem(c, g)
               \/ \E from, to \in Groups : AssignItemSplitGroup(c, from, to)
               \/ VoidOrder(c) \/ AttachVoucher(c) \/ RemoveVoucher(c)
    BY <1>7, <1>8, <1>9, <1>10, <2>2
  <2>3. CASE \/ \E o \in Outlets : RecordWastage(o) \/ OpenStockTake(o)
             \/ \E n \in Counts : RecordStockTakeCount(n)
             \/ CancelStockTake
    BY <1>11, <1>12, <2>3
  <2>4. CASE \/ \E from, to \in Outlets : TransferStock(from, to)
             \/ \E setting \in {"on", "off"} : SetMenuItemAvailability(setting)
             \/ RecordGoodsReceived \/ SetVoucherStatus
    BY <1>13, <1>14, <1>15, <1>16, <2>4
  <2> QED
    BY <1>18, <2>1, <2>2, <2>3, <2>4 DEF RegisterNext
<1> QED
  BY <1>17, <1>18 DEF Kept

(* The invariant holds in every reachable state. *)
THEOREM RegisterInvariant == RegisterSpec => []RegisterInv
  BY RegisterInitInv, RegisterNextInv, PTL DEF RegisterSpec

(* Checks, vouchers, stock and takes have their types: in particular the *)
(* voucher's counter never passes its limit nor becomes negative.        *)
THEOREM RegisterTypes == RegisterSpec => []RegisterTypeOK
<1>1. RegisterInv => RegisterTypeOK
  BY DEF RegisterInv
<1> QED
  BY <1>1, RegisterInvariant, PTL

(* A voucher's use count is the number of checks that hold a use, within   *)
(* its limit, and a use is held exactly while something of the check       *)
(* stands, except for a check whose voids crossed (redeemForOrder,         *)
(* restoreForSettlement).                                                  *)
THEOREM UsesAddUp == RegisterSpec => []VoucherUsesAddUp
<1>1. RegisterInv => VoucherUsesAddUp
  BY DEF RegisterInv
<1> QED
  BY <1>1, RegisterInvariant, PTL

(* What is on the shelves and what standing sales took is what was         *)
(* supplied, in whatever order checks are settled and voided and goods     *)
(* delivered, wasted, transferred and counted (recomputeStockLevel).       *)
THEOREM UnitsAddUp == RegisterSpec => []StockAddsUp
<1>1. RegisterInv => StockAddsUp
  BY DEF RegisterInv
<1> QED
  BY <1>1, RegisterInvariant, PTL

(* An item is "sold out" only while its shelf is empty, whichever movement *)
(* empties or refills it (applyStockAvailabilityEffects).                  *)
THEOREM SoldOutMeansEmpty == RegisterSpec => []SoldOutIsTrue
<1>1. RegisterInv => SoldOutIsTrue
  BY DEF RegisterInv
<1> QED
  BY <1>1, RegisterInvariant, PTL
=============================================================================
