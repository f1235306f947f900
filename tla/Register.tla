------------------------------ MODULE Register ------------------------------
(***************************************************************************)
(* Checks at a bar that share a voucher and one stock item with a store    *)
(* room (pos, discounts and stock services).  A check is split into        *)
(* groups; settling it writes one settlement per group, consumes one use   *)
(* of its voucher and takes the items off the stock; voiding a settlement  *)
(* gives its stock back, and the voucher's use when no other settlement of *)
(* the check stands.                                                       *)
(*                                                                         *)
(* Every operation locks what it changes: the check, then the voucher,     *)
(* then the stock item.  Settling, voiding a settlement and completing a   *)
(* stock take also read rows they do not lock (the items, the other        *)
(* settlements, the counts), as they were when the request looked up its   *)
(* idempotency key: they are a Begin, which keeps that snapshot, and a     *)
(* commit.  Each item takes one unit of stock; prices, taxes, tenders and  *)
(* the manager's override of an empty shelf (always to be had) are left    *)
(* out.                                                                    *)
(***************************************************************************)
EXTENDS Integers, FiniteSets

CONSTANTS
    Requests,  \* server processes
    Checks,    \* pos_orders of the bar
    Groups,    \* split groups of a check
    MaxItem,   \* items a group may hold (bound)
    MaxUses,   \* vouchers.max_total_uses
    Stocked,   \* units at the bar, and in the store, to begin with
    Counts,    \* what a stock take may count
    MaxDesk    \* deliveries, wastage, transfers, stock takes and changes (bound)

ASSUME BoundAssumption ==
    /\ MaxItem \in Nat \ {0} /\ MaxUses \in Nat \ {0} /\ Stocked \in Nat /\ MaxDesk \in Nat
    /\ Counts \subseteq Nat
    /\ IsFiniteSet(Checks) /\ IsFiniteSet(Groups)

Outlets == {"bar", "store"}

VARIABLES
    check,       \* pos_orders.status
    items,       \* unvoided pos_order_items per check and group
    settlement,  \* pos_order_settlements of each group: none, live, voided
    issued,        \* units each settlement took off the stock
    link,        \* voucher_redemptions.status of the check's voucher
    voucher,     \* vouchers.status
    used,        \* vouchers.used_count
    level,       \* stock_levels.current_quantity of each outlet
    menu,        \* at the bar: on, off by hand, "auto" off because sold out
    take,        \* the stock take: its outlet, status and count
    trx,         \* what each request runs, and its snapshot
    supplied,    \* history: deliveries and adjustments less wastage
    crossed,     \* history: checks with a void that missed another void
    desk         \* how much of MaxDesk is used

sales == <<check, items, settlement, issued>>
promo == <<link, voucher, used>>
stock == <<level, menu, supplied>>
registerVars  == <<sales, promo, stock, take, trx, crossed, desk>>

None == -1

NoTake == [status |-> "none", outlet |-> "bar", counted |-> None]
NoRequest == [op |-> "none"]

(* The units of a check, of which group g has f[g], and how many they are. *)
Units(f) == {u \in Groups \X (1..MaxItem) : u[2] <= f[u[1]]}

Total(f) == Cardinality(Units(f))

RegisterTypeOK ==
    /\ check \in [Checks -> {"open", "settled", "void"}]
    /\ items \in [Checks -> [Groups -> 0..MaxItem]]
    /\ settlement \in [Checks -> [Groups -> {"none", "live", "voided"}]]
    /\ issued \in [Checks -> [Groups -> 0..MaxItem]]
    /\ link \in [Checks -> {"none", "attached", "redeemed", "reversed", "released"}]
    /\ voucher \in {"active", "disabled"}
    /\ used \in 0..MaxUses
    /\ level \in [Outlets -> Int]
    /\ menu \in {"on", "off", "auto"}
    /\ take \in [status : {"none", "open", "closed"}, outlet : Outlets,
                 counted : Int]
    /\ DOMAIN trx = Requests
    /\ \A r \in Requests : trx[r].op \in {"none", "settle", "voidItem", "void", "complete"}
    /\ supplied \in Int /\ crossed \subseteq Checks /\ desk \in 0..MaxDesk

RegisterInit ==
    /\ check = [c \in Checks |-> "open"]
    /\ items = [c \in Checks |-> [g \in Groups |-> 0]]
    /\ settlement = [c \in Checks |-> [g \in Groups |-> "none"]]
    /\ issued = [c \in Checks |-> [g \in Groups |-> 0]]
    /\ link = [c \in Checks |-> "none"]
    /\ voucher = "active" /\ used = 0
    /\ level = [o \in Outlets |-> Stocked]
    /\ menu = "on"
    /\ take = NoTake
    /\ trx = [r \in Requests |-> NoRequest]
    /\ supplied = 0 /\ crossed = {} /\ desk = 0

-----------------------------------------------------------------------------
(* Requests. *)

Begin(r, request) ==
    /\ trx[r] = NoRequest
    /\ trx' = [trx EXCEPT ![r] = request]
    /\ UNCHANGED <<sales, promo, stock, take, crossed, desk>>

BeginSettle(r, c) ==
    /\ check[c] = "open" /\ Total(items[c]) > 0
    /\ Begin(r, [op |-> "settle", check |-> c, items |-> items[c]])

BeginVoidItem(r, c, g) ==
    /\ check[c] = "open" /\ items[c][g] > 0
    /\ Begin(r, [op |-> "voidItem", check |-> c, group |-> g, last |-> Total(items[c]) = 1])

BeginVoid(r, c, g) ==
    /\ settlement[c][g] = "live"
    /\ Begin(r, [op |-> "void", check |-> c, group |-> g, settlement |-> settlement[c]])

BeginComplete(r) ==
    /\ take.status = "open"
    /\ Begin(r, [op |-> "complete", counted |-> take.counted])

Finish(r) == trx' = [trx EXCEPT ![r] = NoRequest]

(* Refused or failed: rolled back. *)
Abort(r) ==
    /\ trx[r] # NoRequest
    /\ Finish(r)
    /\ UNCHANGED <<sales, promo, stock, take, crossed, desk>>

-----------------------------------------------------------------------------
(* Stock. *)

(* Mutation: only the outlet the goods leave is looked at. *)
SourceOnly(changed) == changed = {"bar"}

(* applyStockAvailabilityEffects, for every outlet with a movement. *)
Touched(changed) == "bar" \in changed

Availability(changed, quantity) ==
    IF ~Touched(changed) THEN menu
    ELSE IF quantity <= 0 THEN IF menu = "on" THEN "auto" ELSE menu
    ELSE IF menu = "auto" THEN "on" ELSE menu

(* Movements of delta[o] units at each outlet o that delta names: the level *)
(* is summed anew under the item's lock (recomputeStockLevel).              *)
Move(delta) ==
    LET at == DOMAIN delta IN
    /\ level' = [o \in Outlets |-> level[o] + (IF o \in at THEN delta[o] ELSE 0)]
    /\ menu' = Availability(at, level'["bar"])

AtBar(n) == [o \in {"bar"} |-> n]

UseDesk == desk < MaxDesk /\ desk' = desk + 1

(* recordGoodsReceived: where there is a store, only there. *)
RecordGoodsReceived ==
    /\ UseDesk
    /\ Move([o \in {"store"} |-> 1])
    /\ supplied' = supplied + 1
    /\ UNCHANGED <<sales, promo, take, trx, crossed>>

RecordWastage(o) ==
    /\ UseDesk
    /\ Move([x \in {o} |-> -1])
    /\ supplied' = supplied - 1
    /\ UNCHANGED <<sales, promo, take, trx, crossed>>

(* transferStock: refused unless the source has it. *)
TransferStock(from, to) ==
    /\ UseDesk
    /\ from # to
    /\ level[from] >= 1
    /\ Move([o \in Outlets |-> IF o = from THEN -1 ELSE 1])
    /\ UNCHANGED <<sales, promo, take, trx, crossed, supplied>>

(* setMenuItemAvailability: by hand, either way. *)
SetMenuItemAvailability(setting) ==
    /\ UseDesk
    /\ menu' = setting
    /\ UNCHANGED <<sales, promo, level, supplied, take, trx, crossed>>

OpenStockTake(o) ==
    /\ UseDesk
    /\ take.status = "none"
    /\ take' = [status |-> "open", outlet |-> o, counted |-> None]
    /\ UNCHANGED <<sales, promo, stock, trx, crossed>>

(* recordStockTakeCount; a count may be corrected until completion. *)
RecordStockTakeCount(n) ==
    /\ take.status = "open"
    /\ take' = [status |-> "open", outlet |-> take.outlet, counted |-> n]
    /\ UNCHANGED <<sales, promo, stock, trx, crossed, desk>>

(* completeStockTake: the take is locked, its counts are not.  An outlet    *)
(* that is not the store may not gain by counting.                          *)
CompleteStockTake(r) ==
    LET n == trx[r].counted
        o == take.outlet
        variance == n - level[o] IN
    /\ trx[r].op = "complete"
    /\ take.status = "open"
    /\ take' = [status |-> "closed", outlet |-> take.outlet, counted |-> None]
    /\ n # None => o = "store" \/ variance <= 0
    /\ IF n = None \/ variance = 0
       THEN UNCHANGED stock
       ELSE /\ Move([x \in {o} |-> variance])
            /\ supplied' = supplied + variance
    /\ Finish(r)
    /\ UNCHANGED <<sales, promo, crossed, desk>>

CancelStockTake ==
    /\ take.status = "open"
    /\ take' = [status |-> "closed", outlet |-> take.outlet, counted |-> None]
    /\ UNCHANGED <<sales, promo, stock, trx, crossed, desk>>

-----------------------------------------------------------------------------
(* Checks and vouchers. *)

(* Group g has one item more, or one fewer. *)
More(groups, g) == [groups EXCEPT ![g] = @ + 1]
Fewer(groups, g) == [groups EXCEPT ![g] = @ - 1]

(* addItem: under the check's lock. *)
AddItem(c, g) ==
    /\ check[c] = "open" /\ menu = "on"
    /\ items[c][g] < MaxItem
    /\ items' = [items EXCEPT ![c] = More(@, g)]
    /\ UNCHANGED <<check, settlement, issued, promo, stock, take, trx, crossed, desk>>

(* assignItemSplitGroup. *)
AssignItemSplitGroup(c, from, to) ==
    /\ check[c] = "open"
    /\ from # to /\ items[c][from] > 0 /\ items[c][to] < MaxItem
    /\ items' = [items EXCEPT ![c] = More(Fewer(@, from), to)]
    /\ UNCHANGED <<check, settlement, issued, promo, stock, take, trx, crossed, desk>>

(* voidOrderItem: the item is locked.  When its snapshot shows no other,    *)
(* the check's voucher is taken off (removeOrphanedDiscounts).              *)
VoidOrderItem(r) ==
    LET c == trx[r].check
        g == trx[r].group IN
    /\ trx[r].op = "voidItem"
    /\ check[c] = "open"
    /\ items[c][g] > 0
    /\ items' = [items EXCEPT ![c] = Fewer(@, g)]
    /\ link' = IF trx[r].last /\ link[c] = "attached"
               THEN [link EXCEPT ![c] = "released"] ELSE link
    /\ Finish(r)
    /\ UNCHANGED <<check, settlement, issued, voucher, used, stock, take, crossed, desk>>

VoidOrder(c) ==
    /\ check[c] = "open"
    /\ check' = [check EXCEPT ![c] = "void"]
    /\ UNCHANGED <<items, settlement, issued, promo, stock, take, trx, crossed, desk>>

(* problemFor, read under the voucher's lock. *)
NoProblem == voucher = "active" /\ used < MaxUses

(* Mutation: the limit is checked when the code is typed, not when it is used. *)
StillActive == voucher = "active"

(* redeemForOrder asks once more. *)
Redeemable == NoProblem

(* attachToOrder: no use is counted yet. *)
AttachVoucher(c) ==
    /\ check[c] = "open" /\ Total(items[c]) > 0
    /\ link[c] \in {"none", "released"}
    /\ NoProblem
    /\ link' = [link EXCEPT ![c] = "attached"]
    /\ UNCHANGED <<sales, voucher, used, stock, take, trx, crossed, desk>>

(* removeDiscount. *)
RemoveVoucher(c) ==
    /\ check[c] = "open" /\ link[c] = "attached"
    /\ link' = [link EXCEPT ![c] = "released"]
    /\ UNCHANGED <<sales, voucher, used, stock, take, trx, crossed, desk>>

SetVoucherStatus ==
    /\ UseDesk
    /\ voucher' = IF voucher = "active" THEN "disabled" ELSE "active"
    /\ UNCHANGED <<sales, link, used, stock, take, trx, crossed>>

(* settleOrder: the check is locked, its items are those of the snapshot.   *)
Settle(r) ==
    LET c    == trx[r].check
        seen == trx[r].items IN
    /\ trx[r].op = "settle"
    /\ check[c] = "open"
    /\ link[c] = "attached" => Redeemable
    /\ check' = [check EXCEPT ![c] = "settled"]
    /\ settlement' = [settlement EXCEPT ![c] =
                        [g \in Groups |-> IF seen[g] > 0 THEN "live" ELSE "none"]]
    /\ issued' = [issued EXCEPT ![c] = seen]
    /\ IF link[c] = "attached"
       THEN used' = used + 1 /\ link' = [link EXCEPT ![c] = "redeemed"]
       ELSE UNCHANGED <<used, link>>
    /\ Move(AtBar(-Total(seen)))
    /\ Finish(r)
    /\ UNCHANGED <<items, voucher, supplied, take, crossed, desk>>

(* Mutation: the first void of a split check gives the use back. *)
NoneStands(seen, g) == FALSE

(* restoreForSettlement: does another settlement of the check still stand?  *)
OtherStands(seen, g) == \E h \in Groups \ {g} : seen[h] = "live"

(* Mutation: the stock given back is what the check now holds. *)
NowHeld(c, g) == items[c][g]

(* reverseStockForSettlement: the settlement's own movements. *)
GivenBack(c, g) == issued[c][g]

(* voidSettlement: the settlement is locked and re-read, the others are     *)
(* those of the snapshot.                                                   *)
VoidSettlement(r) ==
    LET c    == trx[r].check
        g    == trx[r].group
        seen == trx[r].settlement IN
    /\ trx[r].op = "void"
    /\ settlement[c][g] = "live"
    /\ settlement' = [settlement EXCEPT ![c] = [@ EXCEPT ![g] = "voided"]]
    /\ Move(AtBar(GivenBack(c, g)))
    /\ IF link[c] = "redeemed" /\ ~OtherStands(seen, g)
       THEN /\ link' = [link EXCEPT ![c] = "reversed"]
            /\ used' = IF used > 0 THEN used - 1 ELSE 0
       ELSE UNCHANGED <<link, used>>
    /\ crossed' = IF seen = settlement[c] THEN crossed ELSE crossed \cup {c}
    /\ Finish(r)
    /\ UNCHANGED <<check, items, issued, voucher, supplied, take, desk>>

RegisterNext ==
    \/ \E r \in Requests :
        \/ \E c \in Checks : BeginSettle(r, c)
        \/ \E c \in Checks, g \in Groups : BeginVoidItem(r, c, g) \/ BeginVoid(r, c, g)
        \/ BeginComplete(r)
        \/ VoidOrderItem(r) \/ Settle(r) \/ VoidSettlement(r) \/ CompleteStockTake(r) \/ Abort(r)
    \/ \E c \in Checks :
        \/ \E g \in Groups : AddItem(c, g)
        \/ \E from, to \in Groups : AssignItemSplitGroup(c, from, to)
        \/ VoidOrder(c) \/ AttachVoucher(c) \/ RemoveVoucher(c)
    \/ \E o \in Outlets : RecordWastage(o) \/ OpenStockTake(o)
    \/ \E from, to \in Outlets : TransferStock(from, to)
    \/ \E n \in Counts : RecordStockTakeCount(n)
    \/ \E setting \in {"on", "off"} : SetMenuItemAvailability(setting)
    \/ RecordGoodsReceived \/ CancelStockTake
    \/ SetVoucherStatus

RegisterSpec == RegisterInit /\ [][RegisterNext]_registerVars

-----------------------------------------------------------------------------
(* Properties. *)

(* The use count of a voucher is the number of checks that hold a use, never *)
(* more than its limit, whatever settlements and voids race; a check of      *)
(* which nothing stands holds none, one of which something stands has not    *)
(* been given it back.  A check whose two settlements are voided at once is  *)
(* excepted: each void sees the other's settlement standing, so neither      *)
(* gives the use back.                                                       *)
VoucherUsesAddUp ==
    /\ used = Cardinality({c \in Checks : link[c] = "redeemed"})
    /\ used <= MaxUses
    /\ \A c \in Checks \ crossed :
        LET standing == \E g \in Groups : settlement[c][g] = "live" IN
        /\ link[c] = "redeemed" => standing
        /\ link[c] = "reversed" => ~standing

(* The units that settlements which stand took off the stock. *)
Standing == {u \in Checks \X (Groups \X (1..MaxItem)) :
                /\ settlement[u[1]][u[2][1]] = "live"
                /\ u[2] \in Units(issued[u[1]])}

(* An outlet's level is the sum of its movements (recomputeStockLevel), and  *)
(* stock is neither made nor lost by selling, voiding, transferring and      *)
(* counting at once: what is on the shelves and what standing sales took is  *)
(* what was supplied.                                                        *)
StockAddsUp ==
    level["bar"] + level["store"] + Cardinality(Standing) = 2 * Stocked + supplied

(* An item switched off because it sold out is on again once every shelf it  *)
(* needs is stocked, by whichever movement - a void, a transfer, a count -   *)
(* brought it back (applyStockAvailabilityEffects at every outlet touched).  *)
SoldOutIsTrue == menu = "auto" => level["bar"] <= 0

(* settleOrder's header: "verifies the requested settlements exactly         *)
(* partition its unvoided items by split_group - every group covered exactly *)
(* once, none missing".                                                      *)
SettledCheckIsWhole ==
    \A c \in Checks, g \in Groups :
        check[c] = "settled" /\ items[c][g] > 0 => issued[c][g] > 0
=============================================================================
