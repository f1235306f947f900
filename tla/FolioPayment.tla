---------------------------- MODULE FolioPayment ----------------------------
(***************************************************************************)
(* A Paystack payment of a guest folio (settlement_target 'folio'): the    *)
(* front desk's card capture and the portal's booking payment.  Capturing  *)
(* it credits the folio in the same transaction as the state change.       *)
(***************************************************************************)
EXTENDS PaymentGateway

VARIABLE credits  \* live folio_line_items of type 'payment' per payment

folioVars == <<gatewayVars, credits>>

FolioTypeOK ==
    /\ GatewayTypeOK
    /\ credits \in [Payments -> Nat]

FolioInit ==
    /\ GatewayInit
    /\ credits = [p \in Payments |-> 0]

(* initiatePaystackPaymentIntent, under the folio lock: the intent row.     *)
(* (The front desk reopens a fresh unpaid intent instead when there is one, *)
(* which changes nothing; the portal always inserts.)                       *)
Initiate(p) ==
    /\ status[p] = "none"
    /\ SetStatus(p, "INITIATED")
    /\ UNCHANGED <<old, paystack, event, purging, call, crashes, credits>>

(* applyGatewayResult: the claim, then the line and the balance, under the  *)
(* folio lock and in one transaction.  A closed folio is credited as well.  *)
ApplyCapture(w) ==
    /\ Applying(w, "success")
    /\ Claims(w)
    /\ SetStatus(call[w].p, "CAPTURED")
    /\ credits' = [credits EXCEPT ![call[w].p] = @ + 1]
    /\ Applied(w)
    /\ UNCHANGED <<old, paystack, event, purging, crashes>>

Step(w) == ApplyCapture(w) \/ (GatewayStep(w) /\ UNCHANGED credits)

FolioNext ==
    \/ \E p \in Payments : Initiate(p)
    \/ \E w \in Workers : ApplyCapture(w)
    \/ GatewayNext /\ UNCHANGED credits

FolioSpec == FolioInit /\ [][FolioNext]_folioVars

(* A living process goes on with its call, and the sweep comes back to an   *)
(* undecided event: schedulePaymentWebhookSweep repeats it every minute.    *)
Fairness ==
    /\ \A w \in Workers : WF_folioVars(Step(w))
    /\ \A p \in Payments : WF_folioVars(StartDecide(Sweeper, p) /\ UNCHANGED credits)

LiveSpec == FolioSpec /\ Fairness

-----------------------------------------------------------------------------
(* ARCHITECTURE.md section 7: a CAPTURED payment with no matching folio     *)
(* line, or a line with no captured payment, is a defect.  Racing webhook,  *)
(* sweep and verify calls credit the folio exactly once.                    *)
CreditedExactlyOnce ==
    \A p \in Payments : credits[p] = IF status[p] = "CAPTURED" THEN 1 ELSE 0

(* Money is recorded only where Paystack's record confirms it (never on a   *)
(* short or failed transaction), however stale the answer being applied.    *)
OnlyConfirmedMoneyIsCaptured ==
    \A p \in Payments : status[p] = "CAPTURED" => paystack[p] = "success"

(* An event is dropped as 'ignored' only if it says nothing new: money      *)
(* Paystack holds is in the ledger already (or the tenant is going).        *)
IgnoredMoneyIsRecorded ==
    \A p \in Payments :
        event[p].outcome = "ignored" /\ paystack[p] = "success" /\ ~purging
            => status[p] = "CAPTURED"

(* 'needs_review' is exactly the guest who paid after the payment ended:    *)
(* Paystack has the money, the ledger has nothing, and nothing recovers it  *)
(* behind the reviewer's back.                                              *)
ReviewedMoneyIsUnrecorded ==
    \A p \in Payments :
        event[p].outcome = "needs_review" =>
            /\ paystack[p] = "success"
            /\ status[p] \in {"FAILED", "CANCELLED"}

(* What was decided of an event or a payment is true of the money: captured *)
(* means confirmed, ignored means recorded, needs_review means unrecorded.  *)
DecisionsAreTruthful ==
    OnlyConfirmedMoneyIsCaptured /\ IgnoredMoneyIsRecorded /\ ReviewedMoneyIsUnrecorded

(* Two processors racing on one event cannot overwrite each other's         *)
(* decision, and a decided event is never counted or scheduled again.       *)
DecisionIsFinal ==
    [][\A p \in Payments : event[p].outcome # "null" => event'[p] = event[p]]_folioVars

(* A persisted signed event is never stranded: crashes, Paystack outages    *)
(* and overlapping attempts notwithstanding it is decided in the end.       *)
EveryEventIsDecided ==
    \A p \in Payments : event[p].kept = "signed" ~> event[p].outcome # "null"
=============================================================================
