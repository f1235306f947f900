---------------------------- MODULE RoomInventory ----------------------------
(***************************************************************************)
(* What one room type has sold, night by night                            *)
(* (src/backend/src/modules/reservations/service.js).  Bookings, holds,    *)
(* the waitlist, cancellations, stay extensions and the night audit's      *)
(* overstays move room_type_inventory.rooms_sold; room management and      *)
(* housekeeping move the number of rooms it is compared with.              *)
(*                                                                         *)
(* Every transition locks the reservation row, then the inventory rows of  *)
(* its nights in ascending order, so it is one step.  Two reads are not    *)
(* covered by a lock: the business date, a plain read of the transaction's *)
(* snapshot (seen, any earlier date), and the night audit's view of the    *)
(* guests in house, held from BeginAudit to CommitAudit.                   *)
(*                                                                         *)
(* Which room a guest is in is RoomAssignment's subject: the rooms that    *)
(* ArchiveRooms takes out are any rooms here, where the code refuses the   *)
(* occupied ones.                                                          *)
(***************************************************************************)
EXTENDS Integers, FiniteSets

CONSTANTS
    Reservations,  \* bookings of the room type, made or still to be made
    Rooms,         \* physical rooms of the type
    Frail,         \* the rooms housekeeping may have to withdraw (bound)
    LastNight,     \* the last night that can be sold (bound)
    Percent,       \* room_type_inventory.overbooking_threshold_pct
    CrossedRoutes  \* whether staff may send a waitlisted booking to /confirm
                   \* and a tentative one to /promote-waitlist

ASSUME RoomsAreFinite        == IsFiniteSet(Rooms)
ASSUME ReservationsAreFinite == IsFiniteSet(Reservations)
ASSUME FrailAssumption       == Frail \subseteq Rooms
ASSUME NightAssumption       == LastNight \in Nat \ {0}
ASSUME PercentAssumption     == Percent \in Nat
ASSUME RouteAssumption       == CrossedRoutes \in BOOLEAN

Nights == 1..LastNight
Days   == 1..(LastNight + 1)

Statuses == {"none", "waitlisted", "tentative", "confirmed", "checked_in",
             "checked_out", "cancelled", "no_show"}

VARIABLES
    status,      \* reservations.status; "none" = not booked yet
    arrive,      \* reservations.arrival_date
    depart,      \* reservations.departure_date
    rated,       \* nights with a reservation_daily_rates row (unique per night)
    sold,        \* room_type_inventory.rooms_sold per night
    active,      \* rooms with status 'active' and of this type
    discrepant,  \* rooms with has_discrepancy
    outOfOrder,  \* nights covered by a room's out_of_order_periods row
    today,       \* properties.current_business_date
    audit        \* reservations the running audit's snapshot shows in house

booking == <<status, arrive, depart, rated>>
house   == <<active, discrepant, outOfOrder>>
vars    == <<status, arrive, depart, rated, sold, active, discrepant,
             outOfOrder, today, audit>>

(* The audit transaction's snapshot: what it read of each guest in house.  *)
NoAudit == [running |-> FALSE, guests |-> {},
            leaves |-> [r \in Reservations |-> 1],
            rates |-> [r \in Reservations |-> {}]]

TypeOK ==
    /\ status \in [Reservations -> Statuses]
    /\ arrive \in [Reservations -> Days]
    /\ depart \in [Reservations -> Days]
    /\ rated \in [Reservations -> SUBSET Nights]
    /\ sold \in [Nights -> Nat]
    /\ active \subseteq Rooms
    /\ discrepant \subseteq Rooms
    /\ outOfOrder \in [Rooms -> SUBSET Nights]
    /\ today \in Days
    /\ audit \in [running : BOOLEAN,
                  guests : SUBSET Reservations,
                  leaves : [Reservations -> Days],
                  rates : [Reservations -> SUBSET Nights]]

Init ==
    /\ status = [r \in Reservations |-> "none"]
    /\ arrive = [r \in Reservations |-> 1]
    /\ depart = [r \in Reservations |-> 1]
    /\ rated = [r \in Reservations |-> {}]
    /\ sold = [n \in Nights |-> 0]
    /\ active = Rooms
    /\ discrepant = {}
    /\ outOfOrder = [k \in Rooms |-> {}]
    /\ today = 1
    /\ audit = NoAudit

-----------------------------------------------------------------------------
(* expandStayDates: the departure day is not a night of the stay. *)
StayDates(from, to) == {n \in Nights : from <= n /\ n < to}

(* livePhysicalCount, and the threshold it is scaled to. *)
Counted(n) == {k \in active \ discrepant : n \notin outOfOrder[k]}
Threshold(rooms) == (Cardinality(rooms) * Percent) \div 100

(* reserveInventoryForDates: all the nights are checked, then all counted. *)
Fits(nights) == \A n \in nights : sold[n] + 1 <= Threshold(Counted(n))
Sell(nights) == sold' = [n \in Nights |-> IF n \in nights THEN sold[n] + 1 ELSE sold[n]]

(* releaseInventoryForDates: never below zero. *)
Release(nights) ==
    sold' = [n \in Nights |-> IF n \in nights /\ sold[n] > 0 THEN sold[n] - 1 ELSE sold[n]]

SetStatus(r, s) == status' = [status EXCEPT ![r] = s]

(* createReservation: a night that is full sends the booking to the         *)
(* waitlist when the caller allows it.  Every night is rated at once.       *)
Book(r, from, to, s) ==
    /\ status[r] = "none"
    /\ from < to
    /\ \E seen \in 1..today : seen <= from
    /\ IF Fits(StayDates(from, to))
       THEN s \in {"tentative", "confirmed"} /\ Sell(StayDates(from, to))
       ELSE s = "waitlisted" /\ UNCHANGED sold
    /\ SetStatus(r, s)
    /\ arrive' = [arrive EXCEPT ![r] = from]
    /\ depart' = [depart EXCEPT ![r] = to]
    /\ rated' = [rated EXCEPT ![r] = StayDates(from, to)]
    /\ UNCHANGED <<house, today, audit>>

(* confirmReservation: TRANSITIONS lets a waitlisted booking through too.   *)
Confirm(r) ==
    /\ status[r] = "tentative" \/ (CrossedRoutes /\ status[r] = "waitlisted")
    /\ SetStatus(r, "confirmed")
    /\ UNCHANGED <<arrive, depart, rated, sold, house, today, audit>>

(* promoteWaitlist: and a tentative one through here. *)
Promote(r) ==
    /\ status[r] = "waitlisted" \/ (CrossedRoutes /\ status[r] = "tentative")
    /\ \E seen \in 1..today : seen <= arrive[r]
    /\ Fits(StayDates(arrive[r], depart[r]))
    /\ Sell(StayDates(arrive[r], depart[r]))
    /\ SetStatus(r, "confirmed")
    /\ UNCHANGED <<arrive, depart, rated, house, today, audit>>

(* Mutant: a cancellation gives back what a waitlisted booking never held.  *)
CancelOfWaitlisted(r) ==
    /\ status[r] \in {"waitlisted", "tentative", "confirmed"}
    /\ Release(StayDates(arrive[r], depart[r]))
    /\ SetStatus(r, "cancelled")
    /\ UNCHANGED <<arrive, depart, rated, house, today, audit>>

(* Mutant: and does not stop at zero. *)
CancelBelowZero(r) ==
    /\ status[r] \in {"waitlisted", "tentative", "confirmed"}
    /\ sold' = [n \in Nights |->
                  IF n \in StayDates(arrive[r], depart[r]) THEN sold[n] - 1 ELSE sold[n]]
    /\ SetStatus(r, "cancelled")
    /\ UNCHANGED <<arrive, depart, rated, house, today, audit>>

(* cancelReservation: a waitlisted booking held nothing. *)
Cancel(r) ==
    /\ status[r] \in {"waitlisted", "tentative", "confirmed"}
    /\ IF status[r] = "waitlisted" THEN UNCHANGED sold
       ELSE Release(StayDates(arrive[r], depart[r]))
    /\ SetStatus(r, "cancelled")
    /\ UNCHANGED <<arrive, depart, rated, house, today, audit>>

(* markNoShow *)
NoShow(r) ==
    /\ status[r] = "confirmed"
    /\ Release(StayDates(arrive[r], depart[r]))
    /\ SetStatus(r, "no_show")
    /\ UNCHANGED <<arrive, depart, rated, house, today, audit>>

(* checkIn: no date is checked, so a guest may come early or late. *)
CheckIn(r) ==
    /\ status[r] = "confirmed"
    /\ SetStatus(r, "checked_in")
    /\ UNCHANGED <<arrive, depart, rated, sold, house, today, audit>>

(* checkOut: the nights not stayed are not given back. *)
CheckOut(r) ==
    /\ status[r] = "checked_in"
    /\ SetStatus(r, "checked_out")
    /\ UNCHANGED <<arrive, depart, rated, sold, house, today, audit>>

(* extendStay: the nights already audited bypass the threshold.  A night    *)
(* already rated breaks the unique key, and with it the transaction.        *)
ExtendStay(r, to, seen) ==
    LET added == StayDates(depart[r], to) IN
    /\ status[r] = "checked_in"
    /\ depart[r] < to
    /\ Fits({n \in added : n >= seen})
    /\ added \cap rated[r] = {}
    /\ Sell(added)
    /\ depart' = [depart EXCEPT ![r] = to]
    /\ rated' = [rated EXCEPT ![r] = @ \cup added]
    /\ UNCHANGED <<status, arrive, house, today, audit>>

-----------------------------------------------------------------------------
(* The night audit's transaction.  The first plain read fixes its snapshot. *)
BeginAudit ==
    /\ ~audit.running
    /\ today \in Nights
    /\ audit' = [running |-> TRUE,
                 guests |-> {r \in Reservations : status[r] = "checked_in"},
                 leaves |-> depart,
                 rates |-> rated]
    /\ UNCHANGED <<booking, sold, house, today>>

(* Mutant: the departure day itself does not count as an overstay. *)
OverstaysLate == {r \in audit.guests : today \notin audit.rates[r] /\ audit.leaves[r] < today}

(* Step 4: a guest of the snapshot with no rate for tonight whose departure *)
(* day has come stays another night.                                        *)
Overstays == {r \in audit.guests : today \notin audit.rates[r] /\ audit.leaves[r] <= today}

(* extendOverstayNight: tonight, and the nights since the departure day.    *)
OverstayNights(r) == StayDates(audit.leaves[r], today + 1)
NewRates(r) == OverstayNights(r) \ audit.rates[r]
OverstaysOn(n) == {r \in Overstays : n \in OverstayNights(r)}

(* The commit.  It fails when a rate has been inserted since the snapshot   *)
(* (unique key); then the whole run is rolled back.  A folio closed by a    *)
(* check-out since the snapshot stops it as well (postCharge), unless       *)
(* tonight is charged already: both are possible here.                      *)
CommitAudit ==
    /\ audit.running
    /\ \A r \in Overstays : NewRates(r) \cap rated[r] = {}
    /\ sold' = [n \in Nights |-> sold[n] + Cardinality(OverstaysOn(n))]
    /\ rated' = [r \in Reservations |->
                    IF r \in Overstays THEN rated[r] \cup NewRates(r) ELSE rated[r]]
    /\ depart' = [r \in Reservations |->
                    IF r \in Overstays THEN today + 1 ELSE depart[r]]
    /\ today' = today + 1
    /\ audit' = NoAudit
    /\ UNCHANGED <<status, arrive, house>>

RollBackAudit ==
    /\ audit.running
    /\ audit' = NoAudit
    /\ UNCHANGED <<booking, sold, house, today>>

-----------------------------------------------------------------------------
(* Mutant: each room of the batch is judged on its own. *)
ArchiveOneByOne(gone, seen) ==
    /\ gone \subseteq active \ discrepant
    /\ \A n \in Nights, k \in gone :
          n >= seen /\ k \in Counted(n) => sold[n] <= Threshold(Counted(n) \ {k})
    /\ active' = active \ gone
    /\ UNCHANGED <<booking, sold, discrepant, outOfOrder, today, audit>>

(* runRoomLifecycle: rooms leave the type together, archived or moved to    *)
(* another type, when every night they count on still fits without them     *)
(* (findCapacityViolations).  Its first night is read before the locks.     *)
ArchiveRooms(gone, seen) ==
    /\ gone \subseteq active \ discrepant
    /\ \A n \in Nights :
          n >= seen /\ Counted(n) \cap gone # {} => sold[n] <= Threshold(Counted(n) \ gone)
    /\ active' = active \ gone
    /\ UNCHANGED <<booking, sold, discrepant, outOfOrder, today, audit>>

(* restoreRoom, or a room moved here from another type. *)
RestoreRoom(k) ==
    /\ k \notin active
    /\ active' = active \cup {k}
    /\ UNCHANGED <<booking, sold, discrepant, outOfOrder, today, audit>>

(* reportRoomStatus and resolveDiscrepancy: neither looks at what is sold.  *)
RaiseDiscrepancy(k) ==
    /\ k \notin discrepant
    /\ discrepant' = discrepant \cup {k}
    /\ UNCHANGED <<booking, sold, active, outOfOrder, today, audit>>

ResolveDiscrepancy(k) ==
    /\ k \in discrepant
    /\ discrepant' = discrepant \ {k}
    /\ UNCHANGED <<booking, sold, active, outOfOrder, today, audit>>

(* createOutOfOrderPeriod, one period per room at a time (bound), and       *)
(* closeOutOfOrderPeriod, which writes any end date.                        *)
OpenOutOfOrder(k, from, to) ==
    /\ outOfOrder[k] = {}
    /\ from <= to
    /\ outOfOrder' = [outOfOrder EXCEPT ![k] = from..to]
    /\ UNCHANGED <<booking, sold, active, discrepant, today, audit>>

CloseOutOfOrder(k, to) ==
    /\ outOfOrder[k] # {}
    /\ outOfOrder' = [outOfOrder EXCEPT ![k] =
                        {n \in Nights : n <= to /\ \E from \in @ : from <= n}]
    /\ UNCHANGED <<booking, sold, active, discrepant, today, audit>>

-----------------------------------------------------------------------------
Guests ==
    \E r \in Reservations :
        \/ \E from \in Nights, to \in Days, s \in Statuses : Book(r, from, to, s)
        \/ Confirm(r) \/ Promote(r) \/ Cancel(r) \/ NoShow(r)
        \/ CheckIn(r) \/ CheckOut(r)
        \/ \E to \in Days, seen \in 1..today : ExtendStay(r, to, seen)

Audits == BeginAudit \/ CommitAudit \/ RollBackAudit

Housekeeping ==
    \/ \E gone \in SUBSET Rooms \ {{}}, seen \in 1..today : ArchiveRooms(gone, seen)
    \/ \E k \in Rooms : RestoreRoom(k)
    \/ \E k \in Frail :
        \/ RaiseDiscrepancy(k) \/ ResolveDiscrepancy(k)
        \/ \E from, to \in Nights : OpenOutOfOrder(k, from, to)
        \/ \E to \in 0..LastNight : CloseOutOfOrder(k, to)

Next == Guests \/ Audits \/ Housekeeping

Spec == Init /\ [][Next]_vars

-----------------------------------------------------------------------------
Holding == {"tentative", "confirmed", "checked_in", "checked_out"}
Holders(n) == {r \in Reservations : status[r] \in Holding /\ n \in StayDates(arrive[r], depart[r])}

(* rooms_sold is exactly the number of bookings that took the night, and a  *)
(* booking has a rate row for each of its nights and for no other: racing   *)
(* extensions, overstays, cancellations and promotions neither lose nor     *)
(* double a night.  An unrated night would never be billed, a rate past the *)
(* departure would be billed to a guest who has left.                       *)
InventoryExact ==
    /\ \A n \in Nights : sold[n] = Cardinality(Holders(n))
    /\ \A r \in Reservations :
          status[r] # "none" => rated[r] = StayDates(arrive[r], depart[r])

(* room-capacity.js: "a booking that was accepted must still fit".  A night *)
(* not yet past becomes oversold, or more oversold, only when housekeeping  *)
(* takes a room off it for a discrepancy or an out-of-order period; no      *)
(* booking, promotion, extension, audit or room change does it, however     *)
(* stale the dates they read.                                               *)
NoNewOversell ==
    [][\A n \in Nights :
          n >= today' /\ sold'[n] > Threshold(Counted(n)') =>
             \/ sold[n] > Threshold(Counted(n)) /\ sold'[n] <= sold[n]
             \/ active' = active /\ Cardinality(Counted(n)') < Cardinality(Counted(n))]_vars

(* Closing a night leaves no guest of the audit's snapshot behind: each is  *)
(* booked to leave no earlier than the new business date.                   *)
NobodyOverstaysUnbooked ==
    [][today' # today => \A r \in audit.guests : depart'[r] >= today']_vars
=============================================================================
