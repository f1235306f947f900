-------------------------- MODULE GuestOrderPayment --------------------------
(***************************************************************************)
(* A QR self-order paid by card (settlement_target 'pos_order'): the guest  *)
(* places it, its payment goes through Paystack, and capturing it settles   *)
(* the tab and tells the kitchen.  Meanwhile staff, or the acceptance       *)
(* timeout, may reject the order, and an operator may void or settle the    *)
(* tab at the Register (a guest tab has no owner to refuse them).           *)
(* (src/backend/src/modules/qr-ordering/service.js, cashiering/service.js   *)
(* finalizePosOrderCardCapture, pos/service.js.)                            *)
(*                                                                          *)
(* Each order has one payment, which names the order too.  The capture is a *)
(* transaction of two steps: it claims the payment, locks the tab and reads *)
(* the guest's order WITHOUT locking it; then it writes all three.          *)
(***************************************************************************)
EXTENDS PaymentGateway

VARIABLES
    tab,      \* pos_orders.status; "none" = not placed
    order,    \* pos_guest_orders.status ("rejected" = rejected, auto_rejected)
    paid,     \* pos_guest_orders.payment_status
    sales,    \* standing pos_order_settlements: by this payment, and by others
    reject,   \* the next statement of a rejection under way
    saw       \* payment_status as the rejection last read it

tabVars == <<tab, order, paid, sales, reject, saw>>
orderVars      == <<gatewayVars, tabVars>>

PaidStates == {"unpaid", "paid", "refunded"}

OrderTypeOK ==
    /\ GatewayTypeOK
    /\ tab \in [Payments -> {"none", "open", "settled", "void"}]
    /\ order \in [Payments -> {"none", "awaiting_payment", "received", "preparing", "rejected"}]
    /\ paid \in [Payments -> PaidStates]
    /\ sales \in [Payments -> [card : Nat, other : Nat]]
    /\ reject \in [Payments -> {"idle", "flip", "cancel", "void", "reverse"}]
    /\ saw \in [Payments -> PaidStates]

OrderInit ==
    /\ GatewayInit
    /\ tab = [p \in Payments |-> "none"]
    /\ order = [p \in Payments |-> "none"]
    /\ paid = [p \in Payments |-> "unpaid"]
    /\ sales = [p \in Payments |-> [card |-> 0, other |-> 0]]
    /\ reject = [p \in Payments |-> "idle"]
    /\ saw = [p \in Payments |-> "unpaid"]

(* createGuestOrder: tab, order and payment intent in one transaction. *)
PlaceOrder(p) ==
    /\ tab[p] = "none"
    /\ tab' = [tab EXCEPT ![p] = "open"]
    /\ order' = [order EXCEPT ![p] = "awaiting_payment"]
    /\ SetStatus(p, "INITIATED")
    /\ UNCHANGED <<old, paystack, event, purging, call, crashes, paid, sales, reject, saw>>

-----------------------------------------------------------------------------
(* applyGatewayResult with finalizePosOrderCardCapture. *)

(* The tab is no longer open: the payment is captured and that is all. *)
CaptureOnClosedTab(w) ==
    /\ Applying(w, "success")
    /\ Free(call[w].p)
    /\ Claims(w)
    /\ tab[call[w].p] # "open"
    /\ SetStatus(call[w].p, "CAPTURED")
    /\ Applied(w)
    /\ UNCHANGED <<old, paystack, event, purging, crashes, tabVars>>

(* The order was rejected in the meantime: the claim is undone. *)
CaptureOfRejected(w) ==
    /\ Applying(w, "success")
    /\ Free(call[w].p)
    /\ Claims(w)
    /\ tab[call[w].p] = "open"
    /\ order[call[w].p] = "rejected"
    /\ SetStatus(call[w].p, "CANCELLED")
    /\ Applied(w)
    /\ UNCHANGED <<old, paystack, event, purging, crashes, tabVars>>

(* Claimed, the tab locked and open, the order read and not rejected. *)
CaptureBegins(w) ==
    /\ Applying(w, "success")
    /\ Free(call[w].p)
    /\ Claims(w)
    /\ tab[call[w].p] = "open"
    /\ order[call[w].p] # "rejected"
    /\ Goto(w, "commit", "success")
    /\ UNCHANGED <<status, old, paystack, event, purging, crashes, tabVars>>

(* The sale, the tab and the order, which is updated by its id alone. *)
CaptureCommits(w) ==
    /\ call[w].at = "commit"
    /\ LET p == call[w].p IN
       /\ SetStatus(p, "CAPTURED")
       /\ sales' = [sales EXCEPT ![p].card = @ + 1]
       /\ tab' = [tab EXCEPT ![p] = "settled"]
       /\ order' = [order EXCEPT ![p] = "received"]
       /\ paid' = [paid EXCEPT ![p] = "paid"]
    /\ Applied(w)
    /\ UNCHANGED <<old, paystack, event, purging, crashes, reject, saw>>

-----------------------------------------------------------------------------
(* acceptGuestOrder. *)
Accept(p) ==
    /\ order[p] = "received"
    /\ order' = [order EXCEPT ![p] = "preparing"]
    /\ UNCHANGED <<gatewayVars, tab, paid, sales, reject, saw>>

(* rejectGuestOrder, or tryAutoReject once a received order timed out:      *)
(* separate statements, each committed on its own.                          *)
RejectReads(p) ==
    /\ reject[p] = "idle"
    /\ order[p] \notin {"none", "rejected"}
    /\ reject' = [reject EXCEPT ![p] = "flip"]
    /\ saw' = [saw EXCEPT ![p] = paid[p]]
    /\ UNCHANGED <<gatewayVars, tab, order, paid, sales>>

(* Conditional on the order not being rejected yet. *)
RejectFlips(p) ==
    /\ reject[p] = "flip"
    /\ order' = [order EXCEPT ![p] = "rejected"]
    /\ reject' = [reject EXCEPT ![p] =
          CASE order[p] = "rejected" -> "idle"
            [] order[p] # "rejected" /\ saw[p] = "unpaid" -> "cancel"
            [] order[p] # "rejected" /\ saw[p] # "unpaid" -> "reverse"]
    /\ UNCHANGED <<gatewayVars, tab, paid, sales, saw>>

(* Mutation: the payment is cancelled whatever it says. *)
RejectCancelsBlindly(p) ==
    /\ reject[p] = "cancel"
    /\ Free(p)
    /\ SetStatus(p, "CANCELLED")
    /\ reject' = [reject EXCEPT ![p] = "void"]
    /\ UNCHANGED <<old, paystack, event, purging, call, crashes, tab, order, paid, sales, saw>>

(* cancelUnsettledGuestOrderPayment: whichever of cancel and capture        *)
(* reaches the payment row first wins outright.                             *)
RejectCancels(p) ==
    /\ reject[p] = "cancel"
    /\ Free(p)
    /\ status' = [status EXCEPT ![p] = IF @ \in Unpaid THEN "CANCELLED" ELSE @]
    /\ reject' = [reject EXCEPT ![p] = "void"]
    /\ UNCHANGED <<old, paystack, event, purging, call, crashes, tab, order, paid, sales, saw>>

(* An open tab is voided and nothing was paid; otherwise the race is lost   *)
(* and the order is read again.                                             *)
RejectVoids(p) ==
    /\ reject[p] = "void"
    /\ Free(p)
    /\ \/ /\ tab[p] = "open"
          /\ tab' = [tab EXCEPT ![p] = "void"]
          /\ reject' = [reject EXCEPT ![p] = "idle"]
          /\ UNCHANGED saw
       \/ /\ tab[p] # "open"
          /\ reject' = [reject EXCEPT ![p] = "reverse"]
          /\ saw' = [saw EXCEPT ![p] = paid[p]]
          /\ UNCHANGED tab
    /\ UNCHANGED <<gatewayVars, order, paid, sales>>

(* reverseGuestOrderPayment of a paid order: refundPayment in full (its own *)
(* steps are the Refund module's) voids the sale; the order is refunded.    *)
RejectRefunds(p) ==
    /\ reject[p] = "reverse"
    /\ saw[p] = "paid"
    /\ Free(p)
    /\ IF status[p] = "CAPTURED"
       THEN SetStatus(p, "REFUNDED") /\ sales' = [sales EXCEPT ![p].card = 0]
       ELSE UNCHANGED <<status, sales>>
    /\ paid' = [paid EXCEPT ![p] = "refunded"]
    /\ reject' = [reject EXCEPT ![p] = "idle"]
    /\ UNCHANGED <<old, paystack, event, purging, call, crashes, tab, order, saw>>

RejectReversesNothing(p) ==
    /\ reject[p] = "reverse"
    /\ saw[p] # "paid"
    /\ reject' = [reject EXCEPT ![p] = "idle"]
    /\ UNCHANGED <<gatewayVars, tab, order, paid, sales, saw>>

(* The process dies, or Paystack refuses the refund: the rejection stops    *)
(* where it is, and a second attempt is a state conflict.                   *)
RejectDies(p) ==
    /\ reject[p] # "idle"
    /\ crashes < MaxCrashes
    /\ crashes' = crashes + 1
    /\ reject' = [reject EXCEPT ![p] = "idle"]
    /\ UNCHANGED <<status, old, paystack, event, purging, call, tab, order, paid, sales, saw>>

-----------------------------------------------------------------------------
(* An operator voids or settles (cash, terminal) the open tab: voidOrder    *)
(* and settleOrder look at the Register's own payments only.                *)
StaffVoid(p) ==
    /\ tab[p] = "open"
    /\ Free(p)
    /\ tab' = [tab EXCEPT ![p] = "void"]
    /\ UNCHANGED <<gatewayVars, order, paid, sales, reject, saw>>

(* Mutation: the cashier does not wait for the tab's lock. *)
StaffSettleUnlocked(p) ==
    /\ tab[p] = "open"
    /\ tab' = [tab EXCEPT ![p] = "settled"]
    /\ sales' = [sales EXCEPT ![p].other = @ + 1]
    /\ UNCHANGED <<gatewayVars, order, paid, reject, saw>>

StaffSettle(p) ==
    /\ tab[p] = "open"
    /\ Free(p)
    /\ tab' = [tab EXCEPT ![p] = "settled"]
    /\ sales' = [sales EXCEPT ![p].other = @ + 1]
    /\ UNCHANGED <<gatewayVars, order, paid, reject, saw>>

-----------------------------------------------------------------------------
Capture(w) ==
    CaptureOnClosedTab(w) \/ CaptureOfRejected(w) \/ CaptureBegins(w) \/ CaptureCommits(w)

Rejection(p) ==
    \/ RejectReads(p) \/ RejectFlips(p) \/ RejectCancels(p) \/ RejectVoids(p)
    \/ RejectRefunds(p) \/ RejectReversesNothing(p) \/ RejectDies(p)

OrderNext ==
    \/ \E w \in Workers : Capture(w)
    \/ \E p \in Payments :
          PlaceOrder(p) \/ Accept(p) \/ Rejection(p) \/ StaffVoid(p) \/ StaffSettle(p)
    \/ GatewayNext /\ UNCHANGED tabVars

OrderSpec == OrderInit /\ [][OrderNext]_orderVars

-----------------------------------------------------------------------------
(* A guest's order is sold at most once, by card or at the Register, a      *)
(* settled tab whose card payment stands has its sale and a voided one has  *)
(* none: racing webhook, confirmation, rejection and cashier never take its *)
(* stock twice or leave a rejection something to reverse.                   *)
SoldAtMostOnce ==
    \A p \in Payments :
        /\ sales[p].card + sales[p].other <= 1
        /\ tab[p] = "settled" /\ status[p] # "REFUNDED" => sales[p].card + sales[p].other = 1
        /\ tab[p] = "void" => sales[p] = [card |-> 0, other |-> 0]

(* The guest is shown 'paid' exactly while the money is held for a standing *)
(* sale: not for a cancelled payment, nor after its refund.                 *)
PaidIsHeld ==
    \A p \in Payments :
        (paid[p] = "paid") <=> (status[p] = "CAPTURED" /\ sales[p].card = 1)
=============================================================================
