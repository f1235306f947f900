--------------------------- MODULE CompanyAccount ---------------------------
(***************************************************************************)
(* Accounts receivable: the folios billed to one company, the invoices     *)
(* drawn on their lines, the payments recorded and applied to the invoices *)
(* (src/backend/src/modules/ar, and the folio operations of cashiering     *)
(* that lock the account).                                                 *)
(*                                                                         *)
(* Every operation locks what it changes and reads it with locking reads,  *)
(* so it is one step, except the two voids: voidInvoice and voidPayment    *)
(* look for the applications to reverse with a plain read, which shows the *)
(* snapshot fixed when the request looked up its idempotency key.  These   *)
(* two are a Begin and a commit.                                           *)
(*                                                                         *)
(* Money is counted in units: a line is one unit, an application of k      *)
(* units is k rows.                                                        *)
(***************************************************************************)
EXTENDS Naturals, Integers, FiniteSets, FiniteSetsExt

CONSTANTS
    Requests,  \* server processes that may be voiding something
    Folios,    \* folios of the company's guests
    Lines,     \* charge lines that may be posted
    Invoices,  \* invoice rows that may be created
    Payments,  \* ar_payments rows that may be created
    Amount,    \* what each payment is for
    Limit,     \* ar_accounts.credit_limit, enforcement_mode 'block'
    MaxApp     \* ar_payment_applications rows that may be created (bound)

ASSUME AmountAssumption == Amount \in Nat \ {0} /\ Limit \in Nat /\ MaxApp \in Nat

CONSTANT Nowhere  \* a line not posted, a line not invoiced

ASSUME NowhereAssumption == Nowhere \notin Folios \cup Invoices

ASSUME FiniteAssumption == IsFiniteSet(Lines) /\ IsFiniteSet(Payments)

VARIABLES
    place,      \* folio_line_items.folio_id
    voidLines,  \* lines with voided_at
    billed,     \* folios whose company_profile_id is the company's
    invoiceOf,  \* ar_invoice_lines, unique per line
    invoice,    \* ar_invoices.status
    payment,    \* ar_payments: recorded, voided
    apps,       \* live ar_payment_applications rows
    appId,      \* how many such rows were ever inserted
    balance,    \* ar_accounts.current_balance
    trx,        \* what each request is voiding, and its snapshot
    moved,      \* history: lines moved to another folio once invoiced
    raced       \* history: a void wrote over a view that had been overtaken

lines    == <<place, voidLines, billed, invoiceOf>>
history  == <<moved, raced>>
vars     == <<lines, invoice, payment, apps, appId, balance, trx, history>>

InvoiceStates == {"none", "issued", "partially_paid", "paid", "void"}
Rows == [id : 1..MaxApp, payment : Payments, invoice : Invoices]

NoVoid == [op |-> "none"]

TypeOK ==
    /\ place \in [Lines -> Folios \cup {Nowhere}]
    /\ voidLines \subseteq Lines
    /\ billed \subseteq Folios
    /\ invoiceOf \in [Lines -> Invoices \cup {Nowhere}]
    /\ invoice \in [Invoices -> InvoiceStates]
    /\ payment \in [Payments -> {"none", "live", "void"}]
    /\ apps \subseteq Rows
    /\ appId \in 0..MaxApp
    /\ balance \in Int
    /\ DOMAIN trx = Requests
    /\ \A r \in Requests :
        \/ trx[r] = NoVoid
        \/ /\ \/ trx[r].op = "invoice" /\ trx[r].of \in Invoices
              \/ trx[r].op = "payment" /\ trx[r].of \in Payments
           /\ trx[r].apps \subseteq Rows
           /\ trx[r].invoice \in [Invoices -> InvoiceStates]
    /\ moved \subseteq Lines
    /\ raced \in BOOLEAN

Init ==
    /\ place = [l \in Lines |-> Nowhere] /\ voidLines = {}
    /\ billed = {}
    /\ invoiceOf = [l \in Lines |-> Nowhere]
    /\ invoice = [i \in Invoices |-> "none"]
    /\ payment = [p \in Payments |-> "none"]
    /\ apps = {} /\ appId = 0
    /\ balance = 0
    /\ trx = [r \in Requests |-> NoVoid]
    /\ moved = {} /\ raced = FALSE

-----------------------------------------------------------------------------
(* The account. *)

Live(S) == {p \in Payments : S[p] = "live"}

(* recomputeArAccountBalance: live lines on billed folios less live payments. *)
Exposure(at, void, who, paid) ==
    Cardinality({l \in Lines \ void : at[l] \in who}) - Amount * Cardinality(Live(paid))

(* Mutation: the stored balance is trusted. *)
StoredBalance == balance + 1

(* assertWithinCreditLimit: re-derived under the account's lock. *)
Projected == Exposure(place, voidLines, billed, payment) + 1

(* postCharge.  On a folio billed to the company the limit must hold,       *)
(* unless it is overridden.                                                 *)
PostCharge(l, f, override) ==
    /\ place[l] = Nowhere
    /\ f \in billed => Projected <= Limit \/ override
    /\ place' = [place EXCEPT ![l] = f]
    /\ IF f \in billed THEN balance' = Exposure(place', voidLines, billed, payment)
                       ELSE UNCHANGED balance
    /\ UNCHANGED <<voidLines, billed, invoiceOf, invoice, payment, apps, appId, trx, history>>

(* moveLineItem: neither the invoice nor the account is looked at. *)
MoveLineItem(l, f) ==
    /\ place[l] \in Folios \ {f}
    /\ l \notin voidLines
    /\ place' = [place EXCEPT ![l] = f]
    /\ moved' = IF invoiceOf[l] = Nowhere THEN moved ELSE moved \cup {l}
    /\ UNCHANGED <<voidLines, billed, invoiceOf, invoice, payment, apps, appId,
                   balance, trx, raced>>

(* voidLineItem refuses a line that was ever invoiced. *)
Voidable(l) == l \notin voidLines /\ invoiceOf[l] = Nowhere

VoidLineItem(l) ==
    /\ place[l] # Nowhere
    /\ Voidable(l)
    /\ voidLines' = voidLines \cup {l}
    /\ IF place[l] \in billed THEN balance' = Exposure(place, voidLines', billed, payment)
                              ELSE UNCHANGED balance
    /\ UNCHANGED <<place, billed, invoiceOf, invoice, payment, apps, appId, trx, history>>

(* billFolioToCompany, both ways.  The account's balance is not recomputed. *)
BillToCompany(f) ==
    /\ f \notin billed
    /\ billed' = billed \cup {f}
    /\ UNCHANGED <<place, voidLines, invoiceOf, invoice, payment, apps, appId,
                   balance, trx, history>>

(* Mutation: un-billing forgets the invoices. *)
AlwaysUnbill(f) == TRUE

NeverInvoiced(f) == \A l \in Lines : place[l] = f => invoiceOf[l] = Nowhere

Unbill(f) ==
    /\ f \in billed
    /\ NeverInvoiced(f)
    /\ billed' = billed \ {f}
    /\ UNCHANGED <<place, voidLines, invoiceOf, invoice, payment, apps, appId,
                   balance, trx, history>>

(* generateInvoice: every live line of a billed folio not invoiced before. *)
Eligible == {l \in Lines \ voidLines : place[l] \in billed /\ invoiceOf[l] = Nowhere}

GenerateInvoice(i) ==
    /\ invoice[i] = "none"
    /\ Eligible # {}
    /\ invoice' = [invoice EXCEPT ![i] = "issued"]
    /\ invoiceOf' = [l \in Lines |-> IF l \in Eligible THEN i ELSE invoiceOf[l]]
    /\ UNCHANGED <<place, voidLines, billed, payment, apps, appId, balance, trx, history>>

-----------------------------------------------------------------------------
(* Payments and their applications. *)

Total(i) == Cardinality({l \in Lines : invoiceOf[l] = i})

OnInvoice(S, i)   == {a \in S : a.invoice = i}
FromPayment(S, p) == {a \in S : a.payment = p}

AppliedTo(S, i)   == Cardinality(OnInvoice(S, i))
AppliedFrom(S, p) == Cardinality(FromPayment(S, p))

(* recordPayment; the applications it may carry are ApplyPayment's. *)
RecordPayment(p) ==
    /\ payment[p] = "none"
    /\ payment' = [payment EXCEPT ![p] = "live"]
    /\ balance' = Exposure(place, voidLines, billed, payment')
    /\ UNCHANGED <<lines, invoice, apps, appId, trx, history>>

(* Mutation: what is left of the payment is not looked at. *)
FitsInvoice(p, i, k) == AppliedTo(apps, i) + k <= Total(i)

(* Neither more than the payment nor more than the invoice has left. *)
Fits(p, i, k) ==
    /\ AppliedFrom(apps, p) + k <= Amount
    /\ AppliedTo(apps, i) + k <= Total(i)

StatusFor(n, i) == IF n = Total(i) THEN "paid" ELSE "partially_paid"

(* applyPaymentApplications, k units of payment p to invoice i. *)
ApplyPayment(p, i, k) ==
    /\ payment[p] = "live"
    /\ invoice[i] \notin {"none", "void"}
    /\ Fits(p, i, k)
    /\ appId + k <= MaxApp
    /\ apps' = apps \cup [id : (appId + 1)..(appId + k), payment : {p}, invoice : {i}]
    /\ appId' = appId + k
    /\ invoice' = [invoice EXCEPT ![i] = StatusFor(AppliedTo(apps', i), i)]
    /\ UNCHANGED <<lines, payment, balance, trx, history>>

BeginVoid(r, op, x) ==
    /\ trx[r] = NoVoid
    /\ IF op = "invoice" THEN invoice[x] # "none" ELSE payment[x] # "none"
    /\ trx' = [trx EXCEPT ![r] = [op |-> op, of |-> x, apps |-> apps, invoice |-> invoice]]
    /\ UNCHANGED <<lines, invoice, payment, apps, appId, balance, history>>

Finish(r) == trx' = [trx EXCEPT ![r] = NoVoid]

(* Refused, failed or crashed: rolled back. *)
Abort(r) ==
    /\ trx[r] # NoVoid
    /\ Finish(r)
    /\ UNCHANGED <<lines, invoice, payment, apps, appId, balance, history>>

(* voidInvoice: the invoice is locked, its applications are not. *)
VoidInvoice(r) ==
    LET v == trx[r]
        i == v.of
        rows == OnInvoice(v.apps, i) IN
    /\ v.op = "invoice"
    /\ invoice[i] \notin {"none", "void"}
    /\ invoice' = [invoice EXCEPT ![i] = "void"]
    /\ apps' = apps \ rows
    /\ raced' = (raced \/ rows # OnInvoice(apps, i))
    /\ Finish(r)
    /\ UNCHANGED <<lines, payment, appId, balance, moved>>

(* Mutation: a status ar_invoices does not have. *)
Unpaid(n, i) == IF n = 0 THEN "unpaid" ELSE StatusFor(n, i)

(* The status voidPayment gives an invoice that keeps n units. *)
StatusAfterVoid(n, i) == IF n = 0 THEN "issued" ELSE StatusFor(n, i)

(* voidPayment: the payment is locked; its applications, the invoices they  *)
(* name and what else was applied to those are read from the snapshot.      *)
VoidPayment(r) ==
    LET v == trx[r]
        p == v.of
        rows == FromPayment(v.apps, p)
        touched == {a.invoice : a \in rows} IN
    /\ v.op = "payment"
    /\ payment[p] = "live"
    /\ payment' = [payment EXCEPT ![p] = "void"]
    /\ apps' = apps \ rows
    /\ invoice' = [i \in Invoices |->
                     IF i \in touched /\ v.invoice[i] # "void"
                     THEN StatusAfterVoid(AppliedTo(v.apps \ rows, i), i)
                     ELSE invoice[i]]
    /\ balance' = Exposure(place, voidLines, billed, payment')
    /\ raced' = \/ raced
                \/ rows # FromPayment(apps, p)
                \/ \E i \in touched : \/ v.invoice[i] # invoice[i]
                                     \/ OnInvoice(v.apps, i) # OnInvoice(apps, i)
    /\ Finish(r)
    /\ UNCHANGED <<lines, appId, moved>>

Next ==
    \/ \E l \in Lines, f \in Folios :
        \/ \E o \in BOOLEAN : PostCharge(l, f, o)
        \/ MoveLineItem(l, f)
    \/ \E l \in Lines : VoidLineItem(l)
    \/ \E f \in Folios : BillToCompany(f) \/ Unbill(f)
    \/ \E i \in Invoices : GenerateInvoice(i)
    \/ \E p \in Payments :
        \/ RecordPayment(p)
        \/ \E i \in Invoices, k \in 1..Amount : ApplyPayment(p, i, k)
    \/ \E r \in Requests :
        \/ \E i \in Invoices : BeginVoid(r, "invoice", i)
        \/ \E p \in Payments : BeginVoid(r, "payment", p)
        \/ VoidInvoice(r) \/ VoidPayment(r) \/ Abort(r)

Spec == Init /\ [][Next]_vars

-----------------------------------------------------------------------------
(* Properties. *)

(* A charge the company was invoiced for stays a charge of the company: it  *)
(* is neither voided nor back on a folio the guest settles, even when its   *)
(* invoice is void.  Un-billing a folio, voiding a line and choosing what   *)
(* to invoice must agree on this.  moveLineItem does not, so lines moved    *)
(* once invoiced are excepted.                                              *)
InvoicedChargeStaysWithCompany ==
    \A l \in Lines \ moved :
        invoiceOf[l] # Nowhere => l \notin voidLines /\ place[l] \in billed

(* Applications never exceed the payment or the invoice they join, and the  *)
(* status of an invoice says what is applied to it, through every order of  *)
(* applying and voiding (unless a void overtook what its snapshot shows).   *)
AllocationsAddUp ==
    /\ \A p \in Payments : AppliedFrom(apps, p) <= Amount
    /\ \A i \in Invoices : AppliedTo(apps, i) <= Total(i)
    /\ ~raced => \A i \in Invoices :
        LET n == AppliedTo(apps, i) IN
        CASE invoice[i] \in {"none", "issued", "void"} -> n = 0
          [] invoice[i] = "partially_paid"             -> 0 < n /\ n < Total(i)
          [] invoice[i] = "paid"                       -> n = Total(i)

(* A charge posted to a company folio never takes what the company owes     *)
(* over its limit unless overridden, however stale the stored balance is    *)
(* after a move or a change of who is billed.                               *)
ChargesWithinLimit ==
    [][\A l \in Lines, f \in billed :
         PostCharge(l, f, FALSE) =>
             Exposure(place', voidLines', billed', payment') <= Limit]_vars
=============================================================================
