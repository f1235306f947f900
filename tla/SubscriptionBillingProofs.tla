---------------------- MODULE SubscriptionBillingProofs ----------------------
(***************************************************************************)
(* Theorems about SubscriptionBilling, for any number of workers, periods, *)
(* payments and attempts.  OnePaymentAtATime is not inductive alone: a     *)
(* tick that finds no charge under way must also know that a captured one  *)
(* has marked the invoice paid (CapturedIsPaid).  That dunning stays in    *)
(* its schedule needs that a charge under way leaves an attempt to count   *)
(* (RoomToCount).                                                          *)
(***************************************************************************)
EXTENDS SubscriptionBilling, FiniteSetTheorems, TLAPS

(* A payment's row names its period. *)
RowsNamePeriods == \A p \in Payments : payment[p] # "none" => invoiceOf[p] \in Periods

(* Where there is no row, there is no period. *)
NoBareRows == \A p \in Payments : payment[p] = "none" => invoiceOf[p] = 0

(* A process at work knows which payment it is about, and the row exists. *)
JobsHavePayments ==
    \A r \in Processes : job[r].at # "idle" => job[r].payment \in Payments

(* The parts of TypeOK about processes, and about Paystack and its events. *)
JobsTyped == job \in [Processes -> [at : Steps, payment : 0..MaxPayment, success : BOOLEAN]]

WiresTyped ==
    /\ gateway \in [Payments -> {"none", "sent", "success", "failed"}]
    /\ event \in [Payments -> Outcomes]
    /\ deferred \in [Payments -> 0..MaxDefer]
    /\ crashes \in 0..MaxCrash

(* Money that was captured has paid its invoice. *)
CapturedIsPaid ==
    \A p \in Payments : payment[p] = "CAPTURED" => invoice[invoiceOf[p]] = "paid"

(* A charge under way belongs to an invoice whose schedule has not run out. *)
RoomToCount ==
    \A p \in Payments : payment[p] = "INITIATED" => attempts[invoiceOf[p]] < MaxAttempts

(* DunningCountsEachFailureOnce, for one period. *)
InvoiceStates == {"none", "open", "paid", "uncollectible"}

FailedCount(i) == Cardinality(FailedPayments(i))

CountsRight(i) ==
    /\ attempts[i] <= FailedCount(i)
    /\ subscription # "canceled" => attempts[i] = FailedCount(i)
    /\ invoice[i] = "uncollectible" => FailedCount(i) >= MaxAttempts

(* Only the purge cancels a subscription, and it does so at once. *)
CanceledIsPurged == subscription = "canceled" <=> tenant = "purging"

IInv ==
    /\ TypeOK
    /\ RowsNamePeriods
    /\ NoBareRows
    /\ JobsHavePayments
    /\ OnePaymentAtATime
    /\ CapturedIsPaid
    /\ RoomToCount
    /\ CanceledIsPurged

-----------------------------------------------------------------------------

(* It holds before the first tick. *)
LEMMA InitInv == Init => IInv
  BY BoundAssumption
  DEF Init, IInv, TypeOK, RowsNamePeriods, NoBareRows, JobsHavePayments, OnePaymentAtATime,
      CapturedIsPaid, RoomToCount, CanceledIsPurged, Payments, Periods, Idle, Steps,
      Outcomes

(* applyChargeOutcome, by the tick or by the webhook: what it does to the    *)
(* account and the payments, whoever calls it.                               *)
LEMMA OutcomeInv ==
  ASSUME IInv, NEW p \in Payments, NEW success \in BOOLEAN, ApplyOutcome(p, success)
  PROVE  /\ tenant' \in {"trial", "active", "suspended", "offboarding", "purging"}
         /\ subscription' \in {"active", "past_due", "canceled"}
         /\ period' \in 1..(MaxPeriod + 1)
         /\ invoice' \in [Periods -> {"none", "open", "paid", "uncollectible"}]
         /\ attempts' \in [Periods -> 0..MaxAttempts]
         /\ payment' \in [Payments -> {"none", "INITIATED", "CAPTURED", "FAILED"}]
         /\ invoiceOf' \in [Payments -> 0..MaxPeriod]
         /\ RowsNamePeriods'
         /\ NoBareRows'
         /\ OnePaymentAtATime'
         /\ CapturedIsPaid'
         /\ RoomToCount'
         /\ CanceledIsPurged'
         /\ subscription = "canceled" => UNCHANGED <<tenant, subscription, period, attempts>>
<1> USE BoundAssumption
<1>1. CASE ~Claims(p)
  <2>1. UNCHANGED <<account, payments>>
    BY <1>1 DEF ApplyOutcome
  <2>. QED
    BY <2>1 DEF account, payments, IInv, TypeOK, RowsNamePeriods, NoBareRows, OnePaymentAtATime,
                CapturedIsPaid, RoomToCount, CanceledIsPurged
<1>2. CASE Claims(p)
  <2> DEFINE i == invoiceOf[p]
  <2>1. /\ payment[p] = "INITIATED"
        /\ i \in Periods
        /\ payment' = [payment EXCEPT ![p] = IF success THEN "CAPTURED" ELSE "FAILED"]
        /\ invoiceOf' = invoiceOf
        /\ IF success THEN Captured(i) ELSE Declined(i)
    BY <1>2 DEF ApplyOutcome, Claims, IInv, RowsNamePeriods
  <2>2. attempts[i] \in Nat /\ attempts[i] < MaxAttempts
    BY <2>1 DEF IInv, RoomToCount, TypeOK
  <2>3. \A q \in Payments \ {p} : invoiceOf[q] = i => payment[q] \notin {"INITIATED", "CAPTURED"}
    <3>1. TAKE q \in Payments \ {p}
    <3>2. HAVE invoiceOf[q] = i
    <3>3. i # 0
      BY <2>1 DEF Periods
    <3>4. payment[p] = "FAILED" \/ payment[q] = "FAILED"
      BY <3>1, <3>2, <3>3 DEF IInv, OnePaymentAtATime
    <3>. QED
      BY <2>1, <3>4
  <2>4. CASE success
    <3>1. Captured(i) /\ payment' = [payment EXCEPT ![p] = "CAPTURED"]
      BY <2>1, <2>4
    <3>2. /\ invoice' = [invoice EXCEPT ![i] = "paid"]
          /\ attempts' = attempts
      BY <3>1 DEF Captured
    <3>3. /\ tenant' \in {"trial", "active", "suspended", "offboarding", "purging"}
          /\ subscription' \in {"active", "past_due", "canceled"}
          /\ period' \in 1..(MaxPeriod + 1)
          /\ CanceledIsPurged'
          /\ subscription = "canceled" => UNCHANGED <<tenant, subscription, period>>
      BY <2>1, <3>1 DEF Captured, Inactive, IInv, TypeOK, CanceledIsPurged, Periods
    <3>4. CapturedIsPaid'
      BY <2>1, <3>1, <3>2 DEF CapturedIsPaid, IInv, TypeOK, RowsNamePeriods
    <3>5. OnePaymentAtATime'
      BY <2>1, <2>3, <3>1 DEF OnePaymentAtATime, IInv, TypeOK
    <3>6. RowsNamePeriods' /\ NoBareRows' /\ RoomToCount'
      BY <2>1, <3>1, <3>2 DEF RowsNamePeriods, NoBareRows, RoomToCount, IInv, TypeOK
    <3>. QED
      BY <2>1, <3>1, <3>2, <3>3, <3>4, <3>5, <3>6 DEF IInv, TypeOK
  <2>5. CASE ~success
    <3>1. Declined(i) /\ payment' = [payment EXCEPT ![p] = "FAILED"]
      BY <2>1, <2>5
    <3>2. RowsNamePeriods' /\ NoBareRows' /\ OnePaymentAtATime'
      BY <2>1, <3>1 DEF RowsNamePeriods, NoBareRows, OnePaymentAtATime, IInv, TypeOK
    <3>3. CASE Inactive
      <4>1. UNCHANGED account
        BY <3>1, <3>3 DEF Declined
      <4>. QED
        BY <2>1, <3>1, <3>2, <4>1
        DEF account, IInv, TypeOK, CapturedIsPaid, RoomToCount, CanceledIsPurged
    <3>4. CASE ~Inactive
      <4>1. /\ attempts' = [attempts EXCEPT ![i] = @ + 1]
            /\ subscription' = "past_due"
            /\ period' = period
            /\ \/ UNCHANGED <<invoice, tenant>>
               \/ /\ invoice' = [invoice EXCEPT ![i] = "uncollectible"]
                  /\ tenant' \in {tenant, "suspended"}
        BY <3>1, <3>4 DEF Declined, CountFailure
      <4>2. attempts' \in [Periods -> 0..MaxAttempts]
        BY <2>1, <2>2, <4>1 DEF IInv, TypeOK
      <4>3. invoice' \in [Periods -> {"none", "open", "paid", "uncollectible"}]
        BY <4>1 DEF IInv, TypeOK
      <4>4. CapturedIsPaid'
        BY <2>1, <2>3, <3>1, <4>1 DEF CapturedIsPaid, IInv, TypeOK, RowsNamePeriods
      <4>5. RoomToCount'
        BY <2>1, <2>3, <3>1, <4>1 DEF RoomToCount, IInv, TypeOK, RowsNamePeriods
      <4>6. subscription # "canceled"
        BY <3>4 DEF Inactive
      <4>. QED
        BY <2>1, <3>1, <3>2, <4>1, <4>2, <4>3, <4>4, <4>5, <4>6
        DEF IInv, TypeOK, CanceledIsPurged
    <3>. QED
      BY <3>3, <3>4
  <2>. QED
    BY <2>4, <2>5
<1>. QED
  BY <1>1, <1>2

(* What a step leaves alone of the account and the payments keeps the        *)
(* invariants about them.                                                    *)
LEMMA Untouched ==
  ASSUME IInv, UNCHANGED <<account, payments>>
  PROVE  /\ RowsNamePeriods' /\ NoBareRows' /\ OnePaymentAtATime' /\ CapturedIsPaid'
         /\ RoomToCount' /\ CanceledIsPurged'
  BY DEF account, payments, IInv, RowsNamePeriods, NoBareRows, OnePaymentAtATime,
         CapturedIsPaid, RoomToCount, CanceledIsPurged

(* The first transaction of a tick. *)
LEMMA BeginInv ==
  ASSUME IInv, NEW r \in Processes, NEW p \in Payments, Begin(r, p)
  PROVE  IInv'
<1> USE BoundAssumption
<1>1. /\ period \in Periods /\ payment[p] = "none"
      /\ invoice[period] \in {"none", "open"}
      /\ \A q \in Payments : invoiceOf[q] = period => payment[q] # "INITIATED"
      /\ attempts[period] < MaxAttempts
      /\ invoice' = [invoice EXCEPT ![period] = "open"]
      /\ payment' = [payment EXCEPT ![p] = "INITIATED"]
      /\ invoiceOf' = [invoiceOf EXCEPT ![p] = period]
      /\ job' = [job EXCEPT ![r] = [at |-> "send", payment |-> p, success |-> FALSE]]
      /\ UNCHANGED <<tenant, subscription, period, attempts, gateway, event, deferred, crashes>>
  BY DEF Begin, InFlight, IsDunningExhausted, Goes, webhooks, IInv, TypeOK, Periods
<1>2. TypeOK'
  <2>1. invoiceOf' \in [Payments -> 0..MaxPeriod]
    <3>1. period \in 0..MaxPeriod
      BY <1>1 DEF Periods
    <3>. QED
      BY <1>1, <3>1 DEF IInv, TypeOK
  <2>2. job' \in [Processes -> [at : Steps, payment : 0..MaxPayment, success : BOOLEAN]]
    <3>1. [at |-> "send", payment |-> p, success |-> FALSE]
             \in [at : Steps, payment : 0..MaxPayment, success : BOOLEAN]
      BY DEF Steps, Payments
    <3>. QED
      BY <1>1, <3>1 DEF IInv, TypeOK
  <2>3. /\ invoice' \in [Periods -> {"none", "open", "paid", "uncollectible"}]
        /\ payment' \in [Payments -> {"none", "INITIATED", "CAPTURED", "FAILED"}]
    BY <1>1 DEF IInv, TypeOK
  <2>. QED
    BY <1>1, <2>1, <2>2, <2>3 DEF IInv, TypeOK
<1>3. \A q \in Payments : invoiceOf[q] = period => payment[q] \in {"none", "FAILED"}
  BY <1>1 DEF IInv, TypeOK, CapturedIsPaid
<1>4. OnePaymentAtATime'
  <2> SUFFICES ASSUME NEW q \in Payments, NEW s \in Payments, q # s,
                      invoiceOf'[q] = invoiceOf'[s], invoiceOf'[q] # 0
               PROVE  payment'[q] = "FAILED" \/ payment'[s] = "FAILED"
    BY DEF OnePaymentAtATime
  <2>1. CASE q # p /\ s # p
    BY <1>1, <2>1 DEF IInv, OnePaymentAtATime, TypeOK
  <2>2. CASE q = p
    BY <1>1, <1>3, <2>2 DEF IInv, TypeOK, OnePaymentAtATime, NoBareRows
  <2>3. CASE s = p
    BY <1>1, <1>3, <2>3 DEF IInv, TypeOK, OnePaymentAtATime, NoBareRows
  <2>. QED
    BY <2>1, <2>2, <2>3
<1>5. RowsNamePeriods'
  BY <1>1 DEF IInv, RowsNamePeriods, TypeOK
<1>6. CapturedIsPaid'
  BY <1>1, <1>3 DEF IInv, CapturedIsPaid, RowsNamePeriods, TypeOK
<1>7. RoomToCount' /\ CanceledIsPurged' /\ NoBareRows' /\ JobsHavePayments'
  BY <1>1, <1>3 DEF IInv, RoomToCount, CanceledIsPurged, NoBareRows, JobsHavePayments,
                    RowsNamePeriods, TypeOK
<1>. QED
  BY <1>2, <1>4, <1>5, <1>6, <1>7 DEF IInv

(* One process moves on, or rests. *)
LEMMA JobStep ==
  ASSUME IInv, NEW r \in Processes, NEW at \in Steps, NEW p \in 0..MaxPayment,
         NEW success \in BOOLEAN, at # "idle" => p \in Payments,
         job' = [job EXCEPT ![r] = [at |-> at, payment |-> p, success |-> success]]
  PROVE  JobsTyped' /\ JobsHavePayments'
<1> DEFINE new == [at |-> at, payment |-> p, success |-> success]
<1>1. JobsTyped /\ JobsHavePayments
  BY DEF IInv, TypeOK, JobsTyped
<1>2. new \in [at : Steps, payment : 0..MaxPayment, success : BOOLEAN]
  OBVIOUS
<1>3. job' = [job EXCEPT ![r] = new]
  OBVIOUS
<1>4. JobsTyped'
  BY <1>1, <1>2, <1>3 DEF JobsTyped
<1>5. \A q \in Processes : job'[q] = IF q = r THEN new ELSE job[q]
  BY <1>1, <1>3 DEF JobsTyped
<1>6. new.at = at /\ new.payment = p
  OBVIOUS
<1>7. JobsHavePayments'
  BY <1>1, <1>5, <1>6 DEF JobsHavePayments, Payments
<1>. QED
  BY <1>4, <1>7

(* A process that rests is about no payment. *)
LEMMA JobRest ==
  ASSUME IInv, NEW r \in Processes, job' = [job EXCEPT ![r] = Idle]
  PROVE  JobsTyped' /\ JobsHavePayments'
<1>1. "idle" \in Steps /\ 0 \in 0..MaxPayment
  BY BoundAssumption DEF Steps
<1>. QED
  BY <1>1, JobStep DEF Idle

(* The process in step r is at work on a payment, and takes the next step.  *)
LEMMA JobGoes ==
  ASSUME IInv, NEW r \in Processes, NEW at \in Steps, NEW p \in Payments,
         NEW success \in BOOLEAN, Goes(r, at, p, success)
  PROVE  JobsTyped' /\ JobsHavePayments'
<1>1. p \in 0..MaxPayment
  BY BoundAssumption DEF Payments
<1>. QED
  BY <1>1, JobStep DEF Goes

(* Apply and Settle: the outcome, and a step of the process. *)
LEMMA ApplySettleInv ==
  ASSUME IInv, NEW r \in Processes, Apply(r) \/ Settle(r)
  PROVE  IInv'
<1>1. /\ job[r].at # "idle"
      /\ ApplyOutcome(job[r].payment, job[r].success)
      /\ \/ job' = [job EXCEPT ![r] = Idle]
         \/ Goes(r, "finalize", job[r].payment, job[r].success)
      /\ UNCHANGED <<gateway, event, deferred, crashes>>
  BY DEF Apply, Settle, webhooks
<1>2. job[r].payment \in Payments /\ job[r].success \in BOOLEAN
  BY <1>1 DEF IInv, JobsHavePayments, TypeOK
<1>3. "finalize" \in Steps
  BY DEF Steps
<1>4. JobsTyped' /\ JobsHavePayments'
  BY <1>1, <1>2, <1>3, JobRest, JobGoes
<1>. QED
  BY <1>1, <1>2, <1>4, OutcomeInv DEF IInv, TypeOK, JobsTyped

(* The other statements of a tick and of the webhook's decision touch only   *)
(* the process, the gateway and the event.                                   *)
LEMMA ElsewhereInv ==
  ASSUME IInv, NEW r \in Processes,
         \/ Send(r) \/ Answer(r) \/ Verify(r) \/ Finalize(r) \/ Crash(r)
         \/ \E p \in Payments : Decide(r, p)
  PROVE  IInv' /\ UNCHANGED <<account, payments>>
<1> USE BoundAssumption
<1>1. UNCHANGED <<account, payments>>
  BY DEF Send, Answer, Verify, Finalize, Crash, Decide
<1>2. job[r].at # "idle" => job[r].payment \in Payments
  BY DEF IInv, JobsHavePayments
<1>3. {"answer", "apply", "verify", "settle"} \subseteq Steps
  BY DEF Steps
<1>4. ASSUME Send(r) PROVE WiresTyped' /\ JobsTyped' /\ JobsHavePayments'
  <2>1. job[r].payment \in Payments
    BY <1>2, <1>4 DEF Send
  <2>2. JobsTyped' /\ JobsHavePayments'
    BY <1>3, <1>4, <2>1, JobGoes DEF Send
  <2>3. WiresTyped'
    BY <1>4 DEF Send, IInv, TypeOK, WiresTyped, webhooks
  <2>. QED
    BY <2>2, <2>3
<1>5. ASSUME Answer(r) PROVE WiresTyped' /\ JobsTyped' /\ JobsHavePayments'
  <2>1. job[r].payment \in Payments
    BY <1>2, <1>5 DEF Answer
  <2>2. JobsTyped' /\ JobsHavePayments'
    BY <1>3, <1>5, <2>1, JobGoes DEF Answer
  <2>3. WiresTyped'
    BY <1>5 DEF Answer, IInv, TypeOK, WiresTyped, webhooks
  <2>. QED
    BY <2>2, <2>3
<1>6. ASSUME Finalize(r) PROVE WiresTyped' /\ JobsTyped' /\ JobsHavePayments'
  <2>1. JobsTyped' /\ JobsHavePayments'
    BY <1>6, JobRest DEF Finalize
  <2>2. WiresTyped'
    BY <1>6 DEF Finalize, Finalized, IInv, TypeOK, WiresTyped, Outcomes
  <2>. QED
    BY <2>1, <2>2
<1>7. ASSUME Crash(r) PROVE WiresTyped' /\ JobsTyped' /\ JobsHavePayments'
  <2>1. JobsTyped' /\ JobsHavePayments'
    BY <1>7, JobRest DEF Crash
  <2>2. WiresTyped'
    BY <1>7 DEF Crash, IInv, TypeOK, WiresTyped, webhooks
  <2>. QED
    BY <2>1, <2>2
<1>8. ASSUME Verify(r) PROVE WiresTyped' /\ JobsTyped' /\ JobsHavePayments'
  <2>1. job[r].payment \in Payments
    BY <1>2, <1>8 DEF Verify
  <2>2. (gateway[job[r].payment] = "success") \in BOOLEAN
    OBVIOUS
  <2>3. \/ job' = [job EXCEPT ![r] = Idle]
        \/ Goes(r, "settle", job[r].payment, gateway[job[r].payment] = "success")
    BY <1>8 DEF Verify
  <2>4. JobsTyped' /\ JobsHavePayments'
    BY <1>3, <2>1, <2>2, <2>3, JobRest, JobGoes
  <2>5. WiresTyped'
    BY <1>8, <2>1
    DEF Verify, Deferred, Finalized, IInv, TypeOK, WiresTyped, Outcomes, webhooks
  <2>. QED
    BY <2>4, <2>5
<1>9. ASSUME NEW p \in Payments, Decide(r, p)
      PROVE  WiresTyped' /\ JobsTyped' /\ JobsHavePayments'
  <2>1. (payment[p] = "INITIATED") \in BOOLEAN
    OBVIOUS
  <2>2. JobsTyped /\ JobsHavePayments
    BY DEF IInv, TypeOK, JobsTyped
  <2>3. job' = job \/ Goes(r, "verify", p, payment[p] = "INITIATED")
    BY <1>9 DEF Decide
  <2>4. job' = job => JobsTyped' /\ JobsHavePayments'
    BY <2>2 DEF JobsTyped, JobsHavePayments
  <2>5. Goes(r, "verify", p, payment[p] = "INITIATED") => JobsTyped' /\ JobsHavePayments'
    BY <1>3, <2>1, JobGoes
  <2>6. WiresTyped'
    BY <1>9 DEF Decide, Finalized, IInv, TypeOK, WiresTyped, Outcomes
  <2>. QED
    BY <2>3, <2>4, <2>5, <2>6
<1>10. WiresTyped' /\ JobsTyped' /\ JobsHavePayments'
  BY <1>4, <1>5, <1>6, <1>7, <1>8, <1>9
<1>. QED
  BY <1>1, <1>10, Untouched DEF IInv, TypeOK, WiresTyped, JobsTyped, account, payments

(* IInv is inductive. *)
LEMMA NextInv == IInv /\ [Next]_vars => IInv'
<1> SUFFICES ASSUME IInv, [Next]_vars PROVE IInv'
  OBVIOUS
<1> USE BoundAssumption
<1>1. ASSUME NEW r \in Processes, NEW p \in Payments, Begin(r, p) PROVE IInv'
  BY <1>1, BeginInv
<1>2. ASSUME NEW r \in Processes, Apply(r) \/ Settle(r) PROVE IInv'
  BY <1>2, ApplySettleInv
<1>3. ASSUME NEW r \in Processes,
             \/ Send(r) \/ Answer(r) \/ Verify(r) \/ Finalize(r) \/ Crash(r)
             \/ \E p \in Payments : Decide(r, p)
      PROVE  IInv'
  BY <1>3, ElsewhereInv
<1>4. ASSUME NEW p \in Payments, GatewayDecides(p) \/ Receive(p) PROVE IInv'
  <2>1. UNCHANGED <<account, payments>> /\ UNCHANGED <<job, crashes, deferred>>
    BY <1>4 DEF GatewayDecides, Receive, webhooks
  <2>2. TypeOK'
    BY <1>4, <2>1 DEF GatewayDecides, Receive, webhooks, account, payments, IInv, TypeOK,
                      Outcomes
  <2>. QED
    BY <2>1, <2>2, Untouched DEF IInv, JobsHavePayments, NoBareRows, payments
<1>5. CASE SuspendTenant \/ ReactivateTenant \/ OffboardTenant \/ ClaimTenantForPurge
  <2>1. UNCHANGED <<period, invoice, attempts, payment, invoiceOf, gateway, event, deferred,
                    job, crashes>>
    BY <1>5 DEF SuspendTenant, ReactivateTenant, OffboardTenant, ClaimTenantForPurge,
                ChangeStatus, payments, webhooks
  <2>2. /\ tenant' \in {"trial", "active", "suspended", "offboarding", "purging"}
        /\ subscription' \in {"active", "past_due", "canceled"}
        /\ CanceledIsPurged'
    BY <1>5 DEF SuspendTenant, ReactivateTenant, OffboardTenant, ClaimTenantForPurge,
                ChangeStatus, IInv, TypeOK, CanceledIsPurged
  <2>. QED
    BY <2>1, <2>2 DEF IInv, TypeOK, RowsNamePeriods, JobsHavePayments, OnePaymentAtATime,
                      CapturedIsPaid, RoomToCount, NoBareRows
<1>6. CASE UNCHANGED vars
  BY <1>6 DEF vars, account, payments, webhooks, IInv, TypeOK, RowsNamePeriods,
              JobsHavePayments, OnePaymentAtATime, CapturedIsPaid, RoomToCount,
              CanceledIsPurged, NoBareRows
<1>. QED
  BY <1>1, <1>2, <1>3, <1>4, <1>5, <1>6 DEF Next, Work

(* So every state of a behaviour has it. *)
LEMMA InvHolds == Spec => []IInv
  BY InitInv, NextInv, PTL DEF Spec

-----------------------------------------------------------------------------

(* The state of a tenant's billing keeps its types; in particular dunning    *)
(* never counts past its schedule.                                           *)
THEOREM BillingTypes == Spec => []TypeOK
  BY InvHolds, PTL DEF IInv

(* An invoice never has two payments of which neither failed, however many   *)
(* sweeps overlap, die or are overtaken by the webhook.                      *)
THEOREM OneChargeAtATime == Spec => []OnePaymentAtATime
  BY InvHolds, PTL DEF IInv

(* A charge Paystack took is a charge that paid its invoice.                 *)
THEOREM CapturedPays == Spec => []CapturedIsPaid
  BY InvHolds, PTL DEF IInv

(* A charge recorded as failed is one failed payment more for its period.   *)
LEMMA OneFailureMore ==
  ASSUME IInv, NEW p \in Payments, payment[p] = "INITIATED",
         payment' = [payment EXCEPT ![p] = "FAILED"], invoiceOf' = invoiceOf, NEW i \in Periods
  PROVE  /\ FailedCount(i) \in Nat
         /\ FailedCount(i)' = FailedCount(i) + (IF invoiceOf[p] = i THEN 1 ELSE 0)
<1>1. IsFiniteSet(Payments)
  BY FS_Interval, BoundAssumption DEF Payments
<1>2. IsFiniteSet(FailedPayments(i))
  BY <1>1, FS_Subset DEF FailedPayments
<1>3. FailedCount(i) \in Nat
  BY <1>2, FS_CardinalityType DEF FailedCount
<1>4. CASE invoiceOf[p] = i
  <2>1. FailedPayments(i)' = FailedPayments(i) \cup {p} /\ p \notin FailedPayments(i)
    BY <1>4 DEF FailedPayments, IInv, TypeOK
  <2>. QED
    BY <1>2, <1>3, <1>4, <2>1, FS_AddElement DEF FailedCount
<1>5. CASE invoiceOf[p] # i
  <2>1. FailedPayments(i)' = FailedPayments(i)
    BY <1>5 DEF FailedPayments, IInv, TypeOK
  <2>. QED
    BY <1>3, <1>5, <2>1 DEF FailedCount
<1>. QED
  BY <1>4, <1>5

(* Steps that record no failure leave the count alone. *)
LEMMA SameFailures ==
  ASSUME NEW i \in Periods,
         \A p \in Payments : (payment[p] = "FAILED" /\ invoiceOf[p] = i)
                           <=> (payment'[p] = "FAILED" /\ invoiceOf'[p] = i)
  PROVE  FailedCount(i)' = FailedCount(i)
<1>1. FailedPayments(i)' = FailedPayments(i)
  BY DEF FailedPayments
<1>. QED
  BY <1>1 DEF FailedCount

(* An outcome counts a failure once, or not at all for a tenant that left.   *)
LEMMA OutcomeCounts ==
  ASSUME IInv, DunningCountsEachFailureOnce, NEW p \in Payments, NEW success \in BOOLEAN,
         ApplyOutcome(p, success)
  PROVE  DunningCountsEachFailureOnce'
<1> USE BoundAssumption
<1> SUFFICES ASSUME NEW i \in Periods PROVE CountsRight(i)'
  BY DEF DunningCountsEachFailureOnce, CountsRight, FailedCount
<1>1. CountsRight(i)
  BY DEF DunningCountsEachFailureOnce, CountsRight, FailedCount
<1>2. attempts \in [Periods -> 0..MaxAttempts] /\ invoice \in [Periods -> InvoiceStates]
  BY DEF IInv, TypeOK, InvoiceStates
<1>3. CASE ~Claims(p)
  <2>1. UNCHANGED <<account, payments>>
    BY <1>3 DEF ApplyOutcome
  <2>2. FailedCount(i)' = FailedCount(i)
    BY <2>1, SameFailures DEF payments
  <2>. QED
    BY <1>1, <2>1, <2>2 DEF account, CountsRight
<1>4. CASE Claims(p) /\ success
  <2>1. /\ payment[p] = "INITIATED"
        /\ payment' = [payment EXCEPT ![p] = "CAPTURED"]
        /\ invoiceOf' = invoiceOf
        /\ Captured(invoiceOf[p])
    BY <1>4 DEF ApplyOutcome, Claims
  <2>2. FailedCount(i)' = FailedCount(i)
    BY <2>1, SameFailures DEF IInv, TypeOK
  <2>3. /\ attempts' = attempts
        /\ invoice' = [invoice EXCEPT ![invoiceOf[p]] = "paid"]
        /\ subscription = "canceled" => subscription' = "canceled"
    BY <2>1 DEF Captured, Inactive
  <2>. QED
    BY <1>1, <1>2, <2>2, <2>3 DEF CountsRight
<1>5. CASE Claims(p) /\ ~success
  <2> DEFINE k == invoiceOf[p]
  <2>1. /\ payment[p] = "INITIATED"
        /\ payment' = [payment EXCEPT ![p] = "FAILED"]
        /\ invoiceOf' = invoiceOf
        /\ Declined(k)
    BY <1>5 DEF ApplyOutcome, Claims
  <2>2. /\ FailedCount(i) \in Nat
        /\ FailedCount(i)' = FailedCount(i) + (IF k = i THEN 1 ELSE 0)
    BY <2>1, OneFailureMore
  <2>3. k \in Periods
    BY <2>1 DEF IInv, RowsNamePeriods
  <2>4. CASE Inactive
    <3>1. UNCHANGED account /\ subscription = "canceled"
      BY <2>1, <2>4 DEF Declined, Inactive, IInv, CanceledIsPurged
    <3>. QED
      BY <1>1, <1>2, <2>2, <3>1 DEF account, CountsRight
  <2>5. CASE ~Inactive
    <3>1. /\ attempts' = [attempts EXCEPT ![k] = @ + 1]
          /\ subscription # "canceled" /\ subscription' = "past_due"
          /\ \/ invoice' = invoice
             \/ /\ invoice' = [invoice EXCEPT ![k] = "uncollectible"]
                /\ attempts'[k] >= MaxAttempts
      BY <2>1, <2>5 DEF Declined, CountFailure, IsDunningExhausted, Inactive
    <3>2. attempts'[i] = FailedCount(i)'
      BY <1>1, <1>2, <2>2, <2>3, <3>1 DEF CountsRight
    <3>. QED
      BY <1>1, <1>2, <2>2, <2>3, <3>1, <3>2 DEF CountsRight
  <2>. QED
    BY <2>4, <2>5
<1>. QED
  BY <1>3, <1>4, <1>5

(* The count survives every step. *)
LEMMA CountsStep ==
  ASSUME IInv, DunningCountsEachFailureOnce, [Next]_vars
  PROVE  DunningCountsEachFailureOnce'
<1>1. ASSUME NEW r \in Processes, Apply(r) \/ Settle(r)
      PROVE  DunningCountsEachFailureOnce'
  <2>1. job[r].payment \in Payments /\ job[r].success \in BOOLEAN
    BY <1>1 DEF Apply, Settle, IInv, JobsHavePayments, TypeOK
  <2>. QED
    BY <1>1, <2>1, OutcomeCounts DEF Apply, Settle
<1>2. ASSUME NEW i \in Periods, CountsRight(i),
             \/ UNCHANGED <<account, payments>>
             \/ \E r \in Processes, p \in Payments : Begin(r, p)
             \/ SuspendTenant \/ ReactivateTenant \/ OffboardTenant \/ ClaimTenantForPurge
      PROVE  CountsRight(i)'
  <2>1. /\ attempts' = attempts
        /\ subscription' \in {subscription, "canceled"}
        /\ invoice' = invoice \/ \E n \in Periods : invoice' = [invoice EXCEPT ![n] = "open"]
    BY <1>2 DEF account, Begin, SuspendTenant, ReactivateTenant, OffboardTenant,
                ClaimTenantForPurge, ChangeStatus
  <2>2. \/ payment' = payment /\ invoiceOf' = invoiceOf
        \/ \E p \in Payments :
              /\ payment[p] = "none"
              /\ payment' = [payment EXCEPT ![p] = "INITIATED"]
              /\ invoiceOf' = [invoiceOf EXCEPT ![p] = period]
    BY <1>2 DEF payments, Begin, SuspendTenant, ReactivateTenant, OffboardTenant,
                ClaimTenantForPurge, ChangeStatus
  <2>3. \A p \in Payments : (payment[p] = "FAILED" /\ invoiceOf[p] = i)
                          <=> (payment'[p] = "FAILED" /\ invoiceOf'[p] = i)
    BY <2>2 DEF IInv, TypeOK
  <2>4. FailedCount(i)' = FailedCount(i)
    BY <2>3, SameFailures
  <2>5. FailedCount(i) \in Nat
    <3>1. IsFiniteSet(Payments)
      BY FS_Interval, BoundAssumption DEF Payments
    <3>2. IsFiniteSet(FailedPayments(i))
      BY <3>1, FS_Subset DEF FailedPayments
    <3>. QED
      BY <3>2, FS_CardinalityType DEF FailedCount
  <2>. QED
    BY <1>2, <2>1, <2>4, <2>5 DEF CountsRight, IInv, TypeOK
<1>3. \/ \E r \in Processes : Apply(r) \/ Settle(r)
      \/ UNCHANGED <<account, payments>>
      \/ \E r \in Processes, p \in Payments : Begin(r, p)
      \/ SuspendTenant \/ ReactivateTenant \/ OffboardTenant \/ ClaimTenantForPurge
  BY ElsewhereInv DEF Next, Work, vars, GatewayDecides, Receive
<1>. QED
  BY <1>1, <1>2, <1>3 DEF DunningCountsEachFailureOnce, CountsRight, FailedCount

(* Every failed charge counts once towards dunning, and nobody is given up   *)
(* on before the schedule has run out.                                       *)
THEOREM FailuresCountOnce == Spec => []DunningCountsEachFailureOnce
<1>1. Init => DunningCountsEachFailureOnce
  <2> SUFFICES ASSUME Init, NEW i \in Periods PROVE CountsRight(i)
    BY DEF DunningCountsEachFailureOnce, CountsRight, FailedCount
  <2>1. FailedPayments(i) = {}
    BY DEF Init, FailedPayments
  <2>2. FailedCount(i) = 0
    BY <2>1, FS_EmptySet DEF FailedCount
  <2>. QED
    BY <2>2 DEF Init, CountsRight
<1>. QED
  BY <1>1, CountsStep, InvHolds, PTL DEF Spec

(* No outcome, however late, changes a cancelled subscription, the tenant    *)
(* that was being purged, or where its billing stands.                       *)
THEOREM PurgedLeftAlone == Spec => PurgedTenantIsLeftAlone
<1>1. IInv /\ [Next]_vars =>
        (subscription = "canceled" => UNCHANGED <<tenant, subscription, period, attempts>>)
  <2> SUFFICES ASSUME IInv, [Next]_vars, subscription = "canceled"
               PROVE  UNCHANGED <<tenant, subscription, period, attempts>>
    OBVIOUS
  <2>1. tenant = "purging"
    BY DEF IInv, CanceledIsPurged
  <2>2. ASSUME NEW r \in Processes, Apply(r) \/ Settle(r)
        PROVE  UNCHANGED <<tenant, subscription, period, attempts>>
    <3>1. job[r].payment \in Payments /\ job[r].success \in BOOLEAN
      BY <2>2 DEF Apply, Settle, IInv, JobsHavePayments, TypeOK
    <3>. QED
      BY <2>2, <3>1, OutcomeInv DEF Apply, Settle
  <2>3. ASSUME NEW r \in Processes,
               \/ Send(r) \/ Answer(r) \/ Verify(r) \/ Finalize(r) \/ Crash(r)
               \/ \E p \in Payments : Decide(r, p)
        PROVE  UNCHANGED <<tenant, subscription, period, attempts>>
    BY <2>3, ElsewhereInv DEF account
  <2>4. ASSUME NEW r \in Processes, NEW p \in Payments, Begin(r, p) PROVE FALSE
    BY <2>4 DEF Begin
  <2>5. ASSUME NEW p \in Payments, GatewayDecides(p) \/ Receive(p)
        PROVE  UNCHANGED <<tenant, subscription, period, attempts>>
    BY <2>5 DEF GatewayDecides, Receive, account
  <2>6. ~(SuspendTenant \/ ReactivateTenant \/ OffboardTenant \/ ClaimTenantForPurge)
    BY <2>1 DEF SuspendTenant, ReactivateTenant, OffboardTenant, ClaimTenantForPurge,
                ChangeStatus
  <2>7. CASE UNCHANGED vars
    BY <2>7 DEF vars, account
  <2>. QED
    BY <2>2, <2>3, <2>4, <2>5, <2>6, <2>7 DEF Next, Work
<1>. QED
  BY <1>1, InvHolds, PTL DEF Spec, PurgedTenantIsLeftAlone
=============================================================================
