------------------------- MODULE SubscriptionBilling -------------------------
(***************************************************************************)
(* The recurring charge of ONE tenant's card (billing service, the         *)
(* subscription sweep and the retry sweep of webhook events).  A tick      *)
(* opens the period's invoice and writes an INITIATED payment, calls the   *)
(* gateway outside any transaction, and applies the answer in a second     *)
(* transaction; the gateway's webhook leads, on its own, to the same       *)
(* applyChargeOutcome.  Meanwhile the tenant may be suspended,             *)
(* reactivated, offboarded, or claimed by the purge.                       *)
(*                                                                         *)
(* Dates are left out: whether a period or a retry is due is decided by    *)
(* the calendar, so a tick may find it due at any time.  The gateway is    *)
(* external: a request that was sent is decided once, and the answer may   *)
(* be lost.  An amount that does not match, an unsigned event and          *)
(* subscriptions paid in cash are left out.                                *)
(***************************************************************************)
EXTENDS Naturals, FiniteSets

CONSTANTS
    Processes,    \* workers: each runs one sweep tick, or decides one event, at a time
    MaxAttempts,  \* length of DUNNING_SCHEDULE_DAYS (5 in the code)
    MaxPeriod,    \* billing periods (bound)
    MaxPayment,   \* subscription_payments rows (bound)
    MaxDefer,     \* MAX_ATTEMPTS of an event (12 in the code)
    MaxCrash      \* processes that die (bound)

ASSUME BoundAssumption ==
    /\ MaxAttempts \in Nat \ {0} /\ MaxPeriod \in Nat \ {0} /\ MaxPayment \in Nat \ {0}
    /\ MaxDefer \in Nat \ {0} /\ MaxCrash \in Nat

Periods  == 1..MaxPeriod
Payments == 1..MaxPayment

VARIABLES
    tenant,        \* tenants.status
    subscription,  \* subscriptions.status
    period,        \* subscriptions.current_period_start
    invoice,       \* subscription_invoices.status per period
    attempts,      \* subscription_invoices.attempt_count per period
    payment,       \* subscription_payments.status
    invoiceOf,     \* the period a payment is for (0 while there is no row)
    gateway,       \* external: what Paystack holds for the payment's reference
    event,         \* subscription_webhook_events.outcome of the payment's event
    deferred,      \* attempt_count of that event
    job,           \* what each process is doing
    crashes        \* how much of MaxCrash is used

account  == <<tenant, subscription, period, invoice, attempts>>
payments == <<payment, invoiceOf>>
webhooks == <<event, deferred>>
vars     == <<account, payments, gateway, webhooks, job, crashes>>

Idle == [at |-> "idle", payment |-> 0, success |-> FALSE]

Steps == {"idle", "send", "answer", "apply", "verify", "settle", "finalize"}

Outcomes == {"none", "pending", "applied", "ignored", "needs_review", "deferred_exhausted"}

TypeOK ==
    /\ tenant \in {"trial", "active", "suspended", "offboarding", "purging"}
    /\ subscription \in {"active", "past_due", "canceled"}
    /\ period \in 1..(MaxPeriod + 1)
    /\ invoice \in [Periods -> {"none", "open", "paid", "uncollectible"}]
    /\ attempts \in [Periods -> 0..MaxAttempts]
    /\ payment \in [Payments -> {"none", "INITIATED", "CAPTURED", "FAILED"}]
    /\ invoiceOf \in [Payments -> 0..MaxPeriod]
    /\ gateway \in [Payments -> {"none", "sent", "success", "failed"}]
    /\ event \in [Payments -> Outcomes]
    /\ deferred \in [Payments -> 0..MaxDefer]
    /\ job \in [Processes -> [at : Steps, payment : 0..MaxPayment, success : BOOLEAN]]
    /\ crashes \in 0..MaxCrash

(* A card was added during the trial or later: completeAddPaymentMethod. *)
Init ==
    /\ tenant \in {"trial", "active"}
    /\ subscription = "active" /\ period = 1
    /\ invoice = [i \in Periods |-> "none"]
    /\ attempts = [i \in Periods |-> 0]
    /\ payment = [p \in Payments |-> "none"]
    /\ invoiceOf = [p \in Payments |-> 0]
    /\ gateway = [p \in Payments |-> "none"]
    /\ event = [p \in Payments |-> "none"]
    /\ deferred = [p \in Payments |-> 0]
    /\ job = [r \in Processes |-> Idle]
    /\ crashes = 0

-----------------------------------------------------------------------------
(* A sweep tick: processTenantBillingCycle. *)

Goes(r, at, p, success) ==
    job' = [job EXCEPT ![r] = [at |-> at, payment |-> p, success |-> success]]

(* Mutation: a tick does not look for a charge already under way. *)
NothingInFlight(i) == FALSE

InFlight(i) == \E p \in Payments : invoiceOf[p] = i /\ payment[p] = "INITIATED"

IsDunningExhausted(n) == n >= MaxAttempts

(* Statuses no charge is begun for (INACTIVE_SWEEP_STATUSES). *)
Leaving == {"offboarding", "purging"}

(* Step 1, one transaction under the subscription's lock. *)
Begin(r, p) ==
    /\ job[r].at = "idle"
    /\ period \in Periods
    /\ subscription # "canceled" /\ tenant \notin Leaving
    /\ invoice[period] \in {"none", "open"}     \* ensureCurrentInvoice
    /\ ~InFlight(period)
    /\ ~IsDunningExhausted(attempts[period])
    /\ payment[p] = "none" /\ \A q \in 1..(p - 1) : payment[q] # "none"
    /\ invoice' = [invoice EXCEPT ![period] = "open"]
    /\ payment' = [payment EXCEPT ![p] = "INITIATED"]
    /\ invoiceOf' = [invoiceOf EXCEPT ![p] = period]
    /\ Goes(r, "send", p, FALSE)
    /\ UNCHANGED <<tenant, subscription, period, attempts, gateway, webhooks, crashes>>

(* Step 2: the request leaves, or fails before it does. *)
Send(r) ==
    /\ job[r].at = "send"
    /\ \/ /\ gateway' = [gateway EXCEPT ![job[r].payment] = "sent"]
          /\ Goes(r, "answer", job[r].payment, FALSE)
       \/ /\ Goes(r, "apply", job[r].payment, FALSE)
          /\ UNCHANGED gateway
    /\ UNCHANGED <<account, payments, webhooks, crashes>>

(* Paystack decides the charge, whether or not anyone still waits for it. *)
GatewayDecides(p) ==
    /\ gateway[p] = "sent"
    /\ \E verdict \in {"success", "failed"} : gateway' = [gateway EXCEPT ![p] = verdict]
    /\ UNCHANGED <<account, payments, webhooks, job, crashes>>

(* The answer; a time-out or an error is recorded as a failure. *)
Answer(r) ==
    /\ job[r].at = "answer"
    /\ \/ gateway[job[r].payment] = "success" /\ Goes(r, "apply", job[r].payment, TRUE)
       \/ Goes(r, "apply", job[r].payment, FALSE)
    /\ UNCHANGED <<account, payments, gateway, webhooks, crashes>>

-----------------------------------------------------------------------------
(* applyChargeOutcome. *)

(* Mutation: the update of the payment is not conditional. *)
EveryTime(p) == payment[p] # "none"

(* The conditional update: only an open payment is claimed. *)
Claims(p) == payment[p] = "INITIATED"

(* Mutation: a late outcome is applied whatever became of the subscription. *)
NeverInactive == FALSE

(* A cancelled subscription or a tenant being purged. *)
Inactive == subscription = "canceled" \/ tenant = "purging"

(* Mutation: a retry counts once more for every failure before it. *)
Compounded(n) == n + n + 1

CountFailure(n) == n + 1

Captured(i) ==
    /\ invoice' = [invoice EXCEPT ![i] = "paid"]
    /\ IF Inactive
       THEN UNCHANGED <<tenant, subscription, period>>
       ELSE /\ subscription' = "active"
            /\ period' = i + 1                  \* invoice.period_end
            /\ tenant' = IF tenant = "trial" THEN "active" ELSE tenant
    /\ UNCHANGED attempts

Declined(i) ==
    IF Inactive THEN UNCHANGED account
    ELSE /\ attempts' = [attempts EXCEPT ![i] = CountFailure(@)]
         /\ subscription' = "past_due"
         /\ IF IsDunningExhausted(attempts'[i])
            THEN /\ invoice' = [invoice EXCEPT ![i] = "uncollectible"]
                 /\ tenant' = IF tenant \in {"trial", "active"} THEN "suspended" ELSE tenant
            ELSE UNCHANGED <<invoice, tenant>>
         /\ UNCHANGED period

ApplyOutcome(p, success) ==
    IF ~Claims(p) THEN UNCHANGED <<account, payments>>
    ELSE /\ payment' = [payment EXCEPT ![p] = IF success THEN "CAPTURED" ELSE "FAILED"]
         /\ IF success THEN Captured(invoiceOf[p]) ELSE Declined(invoiceOf[p])
         /\ UNCHANGED invoiceOf

(* Step 3 of the tick. *)
Apply(r) ==
    /\ job[r].at = "apply"
    /\ ApplyOutcome(job[r].payment, job[r].success)
    /\ job' = [job EXCEPT ![r] = Idle]
    /\ UNCHANGED <<gateway, webhooks, crashes>>

-----------------------------------------------------------------------------
(* The webhook: receiveBillingWebhook, then decideBillingWebhookEvent, by   *)
(* the delivery itself, a redelivery or the retry sweep.                    *)

(* Paystack's event is persisted. *)
Receive(p) ==
    /\ gateway[p] \in {"success", "failed"}
    /\ event[p] = "none"
    /\ event' = [event EXCEPT ![p] = "pending"]
    /\ UNCHANGED <<account, payments, gateway, deferred, job, crashes>>

(* finalizeWebhookEvent: only an undecided event gets an outcome. *)
Finalized(p, outcome) ==
    event' = [event EXCEPT ![p] = IF @ = "pending" THEN outcome ELSE @]

(* Mutation: an open payment is left to the tick that opened it. *)
TickWillSettle(p) == tenant = "purging" \/ payment[p] # "FAILED" \/ gateway[p] = "failed"

(* Nothing to do: a tenant being purged, a payment already settled, or a     *)
(* failure that was recorded already.                                        *)
Ignores(p) ==
    \/ tenant = "purging"
    \/ payment[p] = "CAPTURED"
    \/ payment[p] = "FAILED" /\ gateway[p] = "failed"

(* The payment's status as it was before the gateway is asked decides how  *)
(* the answer will be used: an open payment is settled, one already FAILED *)
(* that Paystack confirms is flagged.                                      *)
Decide(r, p) ==
    /\ job[r].at = "idle"
    /\ event[p] = "pending"
    /\ IF Ignores(p)
       THEN /\ Finalized(p, "ignored")
            /\ UNCHANGED job
       ELSE /\ Goes(r, "verify", p, payment[p] = "INITIATED")
            /\ UNCHANGED event
    /\ UNCHANGED <<account, payments, gateway, deferred, crashes>>

(* deferWebhookEvent. *)
Deferred(p) ==
    IF event[p] = "pending" /\ deferred[p] + 1 >= MaxDefer
    THEN /\ event' = [event EXCEPT ![p] = "deferred_exhausted"]
         /\ UNCHANGED deferred
    ELSE /\ deferred' = [deferred EXCEPT ![p] = IF event[p] = "pending" THEN @ + 1 ELSE @]
         /\ UNCHANGED event

(* verifyTransaction: Paystack's record, or no answer. *)
Verify(r) ==
    LET p == job[r].payment IN
    /\ job[r].at = "verify"
    /\ \/ /\ Deferred(p)
          /\ job' = [job EXCEPT ![r] = Idle]
       \/ /\ job[r].success                     \* it was open when read
          /\ Goes(r, "settle", p, gateway[p] = "success")
          /\ UNCHANGED webhooks
       \/ /\ ~job[r].success
          /\ Finalized(p, "needs_review")
          /\ job' = [job EXCEPT ![r] = Idle]
          /\ UNCHANGED deferred
    /\ UNCHANGED <<account, payments, gateway, crashes>>

(* The same applyChargeOutcome; whether it claimed the payment is not asked. *)
Settle(r) ==
    /\ job[r].at = "settle"
    /\ ApplyOutcome(job[r].payment, job[r].success)
    /\ Goes(r, "finalize", job[r].payment, job[r].success)
    /\ UNCHANGED <<gateway, webhooks, crashes>>

Finalize(r) ==
    /\ job[r].at = "finalize"
    /\ Finalized(job[r].payment, "applied")
    /\ job' = [job EXCEPT ![r] = Idle]
    /\ UNCHANGED <<account, payments, gateway, deferred, crashes>>

(* A process dies: nothing resumes what it was doing. *)
Crash(r) ==
    /\ job[r].at # "idle"
    /\ crashes < MaxCrash
    /\ crashes' = crashes + 1
    /\ job' = [job EXCEPT ![r] = Idle]
    /\ UNCHANGED <<account, payments, gateway, webhooks>>

-----------------------------------------------------------------------------
(* The tenant's life: platform console, offboarding, purge. *)

ChangeStatus(from, to) ==
    /\ tenant \in from
    /\ tenant' = to
    /\ UNCHANGED <<subscription, period, invoice, attempts, payments, gateway, webhooks,
                   job, crashes>>

SuspendTenant    == ChangeStatus({"trial", "active"}, "suspended")
ReactivateTenant == ChangeStatus({"trial", "suspended", "offboarding"}, "active")
OffboardTenant   == ChangeStatus({"trial", "active", "suspended"}, "offboarding")

(* claimTenantForPurge, once the retention period is over. *)
ClaimTenantForPurge ==
    /\ tenant = "offboarding"
    /\ tenant' = "purging"
    /\ subscription' = "canceled"
    /\ UNCHANGED <<period, invoice, attempts, payments, gateway, webhooks, job, crashes>>

Work(r) ==
    \/ Send(r) \/ Answer(r) \/ Apply(r)
    \/ Verify(r) \/ Settle(r) \/ Finalize(r)

Next ==
    \/ \E r \in Processes :
        \/ Work(r) \/ Crash(r)
        \/ \E p \in Payments : Begin(r, p) \/ Decide(r, p)
    \/ \E p \in Payments : GatewayDecides(p) \/ Receive(p)
    \/ SuspendTenant \/ ReactivateTenant \/ OffboardTenant \/ ClaimTenantForPurge

Spec == Init /\ [][Next]_vars

(* A process that is alive carries on with what it started; Paystack decides *)
(* what it was sent and delivers its event until it is taken in; the retry   *)
(* sweep comes round to every undecided event.                               *)
Fairness ==
    /\ \A r \in Processes : WF_vars(Work(r))
    /\ \A p \in Payments :
        /\ WF_vars(GatewayDecides(p)) /\ WF_vars(Receive(p))
        /\ WF_vars(\E r \in Processes : Decide(r, p))

LiveSpec == Spec /\ Fairness

-----------------------------------------------------------------------------
(* Properties. *)

(* An invoice never has two payments that are not recorded as failed: a tick *)
(* that overlaps another's gateway call, or follows one whose process died,  *)
(* starts no second charge (processTenantBillingCycle's in-flight check).    *)
(* So money is taken twice for a period only after an answer was lost.       *)
OnePaymentAtATime ==
    \A p, q \in Payments :
        p # q /\ invoiceOf[p] = invoiceOf[q] /\ invoiceOf[p] # 0 =>
            payment[p] = "FAILED" \/ payment[q] = "FAILED"

FailedPayments(i) == {p \in Payments : invoiceOf[p] = i /\ payment[p] = "FAILED"}

(* Every failed charge counts once towards dunning, whoever reports it - the *)
(* tick, a webhook, or both - and nobody is given up on before the schedule  *)
(* has run out (applyChargeOutcome's conditional update).                    *)
DunningCountsEachFailureOnce ==
    \A i \in Periods :
        /\ attempts[i] <= Cardinality(FailedPayments(i))
        /\ subscription # "canceled" => attempts[i] = Cardinality(FailedPayments(i))
        /\ invoice[i] = "uncollectible" => Cardinality(FailedPayments(i)) >= MaxAttempts

(* However late a charge's outcome arrives, it never revives a cancelled     *)
(* subscription, converts or suspends a tenant being purged, or moves its    *)
(* billing on; only the invoice that was paid is marked so.                  *)
PurgedTenantIsLeftAlone ==
    [][subscription = "canceled" => UNCHANGED <<tenant, subscription, period, attempts>>]_vars

(* A charge Paystack was asked for does not stay open: the tick that asked,  *)
(* or after a crash the webhook, settles it, unless the event ran out of     *)
(* attempts or the tenant was purged before it was looked at.                *)
SentChargeIsSettled ==
    \A p \in Payments :
        payment[p] = "INITIATED" /\ gateway[p] # "none"
            ~> payment[p] # "INITIATED" \/ event[p] = "deferred_exhausted" \/ tenant = "purging"
=============================================================================
