----------------------------- MODULE StayBilling -----------------------------
(***************************************************************************)
(* The room charges of ONE reservation: who posts a night to which folio,  *)
(* and how often (cashiering and reservations services, the night audit).  *)
(* A request is two steps, because its REPEATABLE READ snapshot is fixed   *)
(* by the first plain read (the idempotency key's, or the audit's list of  *)
(* in-house guests) long before it writes: Begin keeps the snapshot, the   *)
(* commit of each operation writes.  Locking reads (the reservation, a     *)
(* folio about to be posted to) see the current row; plain reads (which    *)
(* folio, which nights are already there, the business date) see the       *)
(* snapshot.                                                               *)
(*                                                                         *)
(* Lines are counted per folio and night: "charges" are the night's own    *)
(* lines, "late" the ones that bill a night after its audit.  Amounts,     *)
(* taxes and payments are left out; a guest who checks out is one whose    *)
(* locked folios have been paid.  Inventory is RoomInventory's subject.    *)
(***************************************************************************)
EXTENDS Naturals, FiniteSets, FiniteSetsExt

CONSTANTS
    Requests,   \* server processes, each running one request at a time
    MaxNight,   \* the last night that may be booked (bound)
    MaxFolio,   \* folios the reservation may hold (bound)
    MaxDesk     \* voids and moves of a line at the desk (bound)

ASSUME BoundAssumption == MaxNight \in Nat \ {0} /\ MaxFolio \in Nat \ {0} /\ MaxDesk \in Nat

Nights == 1..MaxNight
Folios == 1..MaxFolio

VARIABLES
    status,        \* reservations.status
    businessDate,  \* properties.current_business_date
    departure,     \* reservations.departure_date
    rates,         \* nights with a reservation_daily_rates row
    folio,         \* folios.status per folio, in the order of their ids
    charges,       \* live room_charge lines per folio and night
    late,          \* live "Late room charge" lines per folio and night they name
    trx,           \* what each process runs, and the snapshot it reads
    since,         \* history: the business date at check-in (0 before)
    booked,        \* history: the departure date at check-in
    voided,        \* history: nights with a line voided by the desk
    moved,         \* history: nights with a line moved between folios
    raced,         \* history: a request wrote over a view that had been overtaken
    desk           \* how much of MaxDesk is used

reservation == <<status, departure, rates>>
ledger      == <<folio, charges, late>>
history     == <<since, booked, voided, moved, raced, desk>>
vars        == <<reservation, businessDate, ledger, trx, history>>

Ops == {"open", "checkIn", "extend", "checkOut", "audit"}

View == [status |-> status, date |-> businessDate, departure |-> departure,
         rates |-> rates, folio |-> folio, charges |-> charges, late |-> late]

NoLines == [f \in Folios |-> [n \in Nights |-> 0]]

EmptyView == [status |-> "confirmed", date |-> 1, departure |-> 2, rates |-> {1},
              folio |-> [f \in Folios |-> "none"], charges |-> NoLines, late |-> NoLines]

Idle == [op |-> "none", view |-> EmptyView]

LineCounts  == [Folios -> [Nights -> Nat]]
FolioStates == [Folios -> {"none", "open", "closed"}]
Statuses    == {"confirmed", "checked_in", "checked_out"}

Views == [status : Statuses, date : 1..(MaxNight + 1), departure : 2..(MaxNight + 1),
          rates : SUBSET Nights, folio : FolioStates, charges : LineCounts,
          late : LineCounts]

TypeOK ==
    /\ View \in Views
    /\ trx \in [Requests -> [op : Ops \cup {"none"}, view : Views]]
    /\ since \in 0..(MaxNight + 1) /\ booked \in 0..(MaxNight + 1)
    /\ voided \subseteq Nights /\ moved \subseteq Nights
    /\ raced \in BOOLEAN
    /\ desk \in 0..MaxDesk

(* A confirmed booking of at least one night; nothing is billed yet. *)
Init ==
    /\ status = "confirmed" /\ businessDate = 1
    /\ departure \in 2..(MaxNight + 1)
    /\ rates = 1..(departure - 1)
    /\ folio = [f \in Folios |-> "none"]
    /\ charges = NoLines /\ late = NoLines
    /\ trx = [r \in Requests |-> Idle]
    /\ since = 0 /\ booked = 0 /\ voided = {} /\ moved = {} /\ raced = FALSE /\ desk = 0

-----------------------------------------------------------------------------
(* A request and its snapshot. *)

Begin(r, op) ==
    /\ trx[r].op = "none"
    /\ op = "audit" => \A q \in Requests : trx[q].op # "audit"   \* claimRun
    /\ op = "open" => status = "confirmed"    \* else refused by this very snapshot
    /\ trx' = [trx EXCEPT ![r] = [op |-> op, view |-> View]]
    /\ UNCHANGED <<reservation, businessDate, ledger, history>>

Finish(r) == trx' = [trx EXCEPT ![r] = Idle]

(* Any error, a crash included: the transaction leaves nothing behind. *)
Abort(r) ==
    /\ trx[r].op # "none"
    /\ Finish(r)
    /\ UNCHANGED <<reservation, businessDate, ledger, history>>

Held(fs, s) == {f \in Folios : fs[f] \in s}

(* What a plain `.first()` returns: the lowest id that matches, if any. *)
FirstOf(S) == IF S = {} THEN 0 ELSE Min(S)

Added(lines, f, S) ==
    IF f = 0 THEN lines
    ELSE [lines EXCEPT ![f] = [n \in Nights |-> IF n \in S THEN @[n] + 1 ELSE @[n]]]

Unposted(lines, f, S) == {n \in S : lines[f][n] = 0}

(* Has another opening, check-in or audit changed what v shows? *)
Overtaken(v) ==
    \/ v.status # status
    \/ v.folio # folio
    \/ v.charges # charges

(* ensurePrimaryFolio: the folio the snapshot shows, or a new row. *)
PrimaryFolio(v) ==
    IF Held(v.folio, {"open", "closed"}) # {}
    THEN FirstOf(Held(v.folio, {"open", "closed"}))
    ELSE FirstOf(Held(folio, {"none"}))

WithPrimary(v) ==
    IF Held(v.folio, {"open", "closed"}) # {}
    THEN folio ELSE [folio EXCEPT ![PrimaryFolio(v)] = "open"]

(* postCharge locks the folio and refuses one that is not open. *)
Postable(fs, f, S) == S # {} => f # 0 /\ fs[f] = "open"

-----------------------------------------------------------------------------
(* The operations. *)

(* openBookingFolio: the primary folio and every night that folio does not  *)
(* show a charge for (postRoomChargesForStay).                              *)
OpenBookingFolio(r) ==
    LET v   == trx[r].view
        f   == PrimaryFolio(v)
        due == Unposted(v.charges, f, v.rates) IN
    /\ trx[r].op = "open"
    /\ f # 0
    /\ v.status = "confirmed"
    /\ Postable(WithPrimary(v), f, due)
    /\ folio' = WithPrimary(v)
    /\ charges' = Added(charges, f, due)
    /\ raced' = (raced \/ Overtaken(v))
    /\ Finish(r)
    /\ UNCHANGED <<reservation, businessDate, late, since, booked, voided, moved, desk>>

(* checkIn: the reservation is locked, the folio is looked up unlocked. *)
CheckIn(r) ==
    LET v == trx[r].view IN
    /\ trx[r].op = "checkIn"
    /\ PrimaryFolio(v) # 0
    /\ status = "confirmed"
    /\ status' = "checked_in"
    /\ folio' = WithPrimary(v)
    /\ since' = businessDate /\ booked' = departure
    /\ raced' = (raced \/ Overtaken(v))
    /\ Finish(r)
    /\ UNCHANGED <<departure, rates, businessDate, charges, late, voided, moved, desk>>

(* Mutation: a night whose audit has run is left to an audit to come. *)
NoLateNights(S, date) == {}

(* The nights among S whose own audit has already run. *)
LateNights(S, date) == {n \in S : n < date}

(* extendStay: the nights between the old and the new departure get rates;  *)
(* those already audited are billed now, as late charges.                   *)
ExtendStay(r, to) ==
    LET v     == trx[r].view
        added == departure..(to - 1)
        f     == FirstOf(Held(v.folio, {"open"}))
        due   == IF f = 0 THEN {} ELSE Unposted(v.late, f, LateNights(added, v.date)) IN
    /\ trx[r].op = "extend"
    /\ status = "checked_in"
    /\ to > departure
    /\ added \cap rates = {}           \* UNIQUE(reservation_id, stay_date)
    /\ Postable(folio, f, due)
    /\ rates' = rates \cup added
    /\ departure' = to
    /\ late' = Added(late, f, due)
    /\ raced' = (raced \/ v.status # status)
    /\ Finish(r)
    /\ UNCHANGED <<status, businessDate, folio, charges, since, booked, voided, moved, desk>>

(* The peeks of checkOut are plain reads of one snapshot, however often     *)
(* they are repeated; the folios they name are locked and read as they are. *)
CheckOut(r) ==
    LET seen == Held(trx[r].view.folio, {"open"}) \cap Held(folio, {"open"}) IN
    /\ trx[r].op = "checkOut"
    /\ status = "checked_in"
    /\ seen # {}
    /\ folio' = [f \in Folios |-> IF f \in seen THEN "closed" ELSE folio[f]]
    /\ status' = "checked_out"
    /\ Finish(r)
    /\ UNCHANGED <<departure, rates, businessDate, charges, late, history>>

(* extendOverstayNight, its nights: a guest past the departure date with no *)
(* rate for tonight gets one for every night up to tonight.                 *)
OverstayNights(v) ==
    IF v.date \notin v.rates /\ v.departure <= v.date THEN v.departure..v.date ELSE {}

(* Mutation: the departure skips a day. *)
TwoDaysOn(d) == d + 2

(* A guest found overstaying is "leaving tomorrow". *)
TheDayAfter(d) == d + 1

(* Mutation: the guard that skips a night already posted is dropped. *)
TonightAlways(v, f, nights) == {v.date} \cap nights

(* The once-per-night guard of the audit: tonight, unless the folio shows it. *)
Tonight(v, f, nights) == Unposted(v.charges, f, {v.date} \cap nights)

(* runCriticalTransaction, for this reservation.  A guest who is not in the *)
(* snapshot's in-house list, or has no open folio there, is passed over.    *)
Audit(r) ==
    LET v    == trx[r].view
        f    == FirstOf(Held(v.folio, {"open"}))
        over == OverstayNights(v)
        new  == over \ v.rates
        lates == Unposted(v.late, f, over \ {v.date})
        due  == Tonight(v, f, v.rates \cup over) IN
    /\ trx[r].op = "audit"
    /\ v.date \in Nights /\ businessDate = v.date   \* the daily report's unique key
    /\ businessDate' = v.date + 1
    /\ IF v.status = "checked_in" /\ f # 0
       THEN /\ new \cap rates = {}     \* UNIQUE(reservation_id, stay_date)
            /\ Postable(folio, f, lates \cup due)
            /\ rates' = rates \cup new
            /\ departure' = IF over = {} THEN departure ELSE TheDayAfter(v.date)
            /\ late' = Added(late, f, lates)
            /\ charges' = Added(charges, f, due)
       ELSE UNCHANGED <<rates, departure, late, charges>>
    /\ raced' = (raced \/ Overtaken(v))
    /\ Finish(r)
    /\ UNCHANGED <<status, folio, since, booked, voided, moved, desk>>

-----------------------------------------------------------------------------
(* Desk operations that take their locks first: one step each. *)

(* openAdditionalFolio asks only that some folio exists. *)
OpenAdditionalFolio ==
    /\ Held(folio, {"open", "closed"}) # {}
    /\ Held(folio, {"none"}) # {}
    /\ folio' = [folio EXCEPT ![FirstOf(Held(folio, {"none"}))] = "open"]
    /\ UNCHANGED <<reservation, businessDate, charges, late, trx, history>>

UseDesk == desk < MaxDesk /\ desk' = desk + 1

(* One line of night n leaves folio f, or reaches it. *)
Less(lines, f, n) == [lines EXCEPT ![f][n] = @ - 1]
More(lines, f, n) == [lines EXCEPT ![f][n] = @ + 1]

(* moveLineItem: the destination must be open, the source need not be. *)
MoveLineItem(f, g, n) ==
    /\ f # g
    /\ folio[g] = "open"
    /\ \/ /\ charges[f][n] > 0
          /\ charges' = More(Less(charges, f, n), g, n)
          /\ UNCHANGED late
       \/ /\ late[f][n] > 0
          /\ late' = More(Less(late, f, n), g, n)
          /\ UNCHANGED charges
    /\ moved' = moved \cup {n}
    /\ UseDesk
    /\ UNCHANGED <<reservation, businessDate, folio, trx, since, booked, voided, raced>>

(* voidLineItem, on a folio in any state. *)
VoidLineItem(f, n) ==
    /\ \/ /\ charges[f][n] > 0
          /\ charges' = Less(charges, f, n)
          /\ UNCHANGED late
       \/ /\ late[f][n] > 0
          /\ late' = Less(late, f, n)
          /\ UNCHANGED charges
    /\ voided' = voided \cup {n}
    /\ UseDesk
    /\ UNCHANGED <<reservation, businessDate, folio, trx, since, booked, moved, raced>>

Next ==
    \/ \E r \in Requests :
        \/ \E op \in Ops : Begin(r, op)
        \/ OpenBookingFolio(r) \/ CheckIn(r) \/ CheckOut(r) \/ Audit(r) \/ Abort(r)
        \/ \E to \in 2..(MaxNight + 1) : ExtendStay(r, to)
    \/ OpenAdditionalFolio
    \/ \E f, g \in Folios, n \in Nights : MoveLineItem(f, g, n) \/ VoidLineItem(f, n)

Spec == Init /\ [][Next]_vars

-----------------------------------------------------------------------------
(* Properties. *)

(* How many live lines bill night n, whatever folio they are on. *)
Lines(n) == UNION {{f} \X (1..(charges[f][n] + late[f][n])) : f \in Folios}

Billed(n) == Cardinality(Lines(n))

(* A night is never billed twice, on one folio or on two, in whatever order *)
(* bookings are paid ahead, stays extended, folios split, lines voided and  *)
(* days audited: by the alreadyPosted guards of postRoomChargesForStay,     *)
(* postLateRoomCharges and the audit, which know nothing of each other.     *)
(* Two situations are excepted: a request that wrote over a view another    *)
(* had overtaken (two openings of one booking each bill all of it), and a   *)
(* night whose line was moved to a folio the guards do not look at.         *)
NightBilledOnce == \A n \in Nights \ moved : ~raced => Billed(n) <= 1

(* A guest in house is billed for every audited night since check-in, and   *)
(* for every audited night added to the booking: tonight's by the audit, an *)
(* overstayed night's by the audit that finds it, a night added too late by *)
(* extendStay.  Only a line the desk voided is missing.                     *)
NoInHouseNightIsLost ==
    status = "checked_in" /\ ~raced =>
        \A n \in rates \ voided :
            (since <= n \/ booked <= n) /\ n < businessDate => Billed(n) >= 1
=============================================================================
