--------------------------- MODULE PaymentGateway ---------------------------
(***************************************************************************)
(* A Paystack payment from checkout to verdict, whatever it pays for       *)
(* (src/backend/src/modules/cashiering/service.js, shared/webhook-events.js*)
(* and jobs/payment-webhooks.js).  The local row and Paystack's record are *)
(* two systems with no common transaction: three kinds of server call work *)
(* on a payment at once, each reading the row, then talking to Paystack    *)
(* with NO transaction open, then writing:                                 *)
(*   checkout  startPaystackCheckout                                       *)
(*   verify    verifyPayment (the payer's page, the cashier, the portal)   *)
(*   decide    decidePaymentWebhookEvent (webhook request or retry sweep)  *)
(*                                                                         *)
(* What a captured payment buys is Apply in the module that extends this   *)
(* one (FolioPayment, GuestOrderPayment).                                  *)
(*                                                                         *)
(* Paystack is external: it refuses a reference it already has, its record *)
(* of a finished transaction never changes, and it may be unreachable or   *)
(* answer "no such transaction" at any time (lag, a rotated key).          *)
(***************************************************************************)
EXTENDS Naturals

CONSTANTS
    Payments,     \* payments rows (each the transaction of one reference)
    Workers,      \* server processes, each able to run one call at a time
    Sweeper,      \* the worker of the retry sweep
    Resumable,    \* settlement_target is in RESUMABLE_TARGETS
    MaxAttempts,  \* MAX_ATTEMPTS (12)
    GraceAttempts,\* RECORD_NOT_FOUND_GRACE_ATTEMPTS (3)
    MaxCrashes    \* processes that die in the middle of a call (bound)

ASSUME SweeperAssumption  == Sweeper \in Workers
ASSUME TargetAssumption   == Resumable \in BOOLEAN
ASSUME AttemptsAssumption == /\ MaxAttempts \in Nat /\ GraceAttempts \in Nat
                             /\ 0 < GraceAttempts /\ GraceAttempts < MaxAttempts
ASSUME CrashesAssumption  == MaxCrashes \in Nat

VARIABLES
    status,    \* payments.status; "none" = no row yet
    old,       \* payments created more than seven days ago
    paystack,  \* Paystack's own record of each transaction
    event,     \* the payment_webhook_events row of each transaction
    purging,   \* the tenant is being purged, or was
    call,      \* the locals of each worker's call
    crashes    \* processes lost so far

gatewayVars == <<status, old, paystack, event, purging, call, crashes>>

Unpaid   == {"INITIATED", "PENDING"}
Settled  == {"CAPTURED", "REFUNDED"}
Terminal == Settled \cup {"FAILED", "CANCELLED"}
Statuses == {"none"} \cup Unpaid \cup Terminal

(* "created": initialised, but nobody holds the access code yet; "open": the *)
(* payer may pay; "short": paid, but the record disagrees with the row.      *)
Finished == {"success", "short", "failed"}
Records  == {"unknown", "created", "open"} \cup Finished

Outcomes == {"applied", "ignored", "rejected", "needs_review", "deferred_exhausted"}
NoEvent  == [kept |-> "no", outcome |-> "null", attempts |-> 0]
Events   == [kept : {"no", "unsigned", "signed"}, outcome : {"null"} \cup Outcomes,
             attempts : 0..MaxAttempts]

Idle  == [op |-> "idle", at |-> "idle"]
Calls == {Idle} \cup
         [op : {"checkout", "verify", "decide"}, at : {"open", "record", "ask", "apply", "commit", "write"},
          p : Payments, seen : Statuses, tries : 0..MaxAttempts,
          todo : {"none", "close", "success", "failed", "defer"} \cup Outcomes]

GatewayTypeOK ==
    /\ status \in [Payments -> Statuses]
    /\ old \subseteq Payments
    /\ paystack \in [Payments -> Records]
    /\ event \in [Payments -> Events]
    /\ purging \in BOOLEAN
    /\ call \in [Workers -> Calls]
    /\ crashes \in 0..MaxCrashes

GatewayInit ==
    /\ status = [p \in Payments |-> "none"]
    /\ old = {}
    /\ paystack = [p \in Payments |-> "unknown"]
    /\ event = [p \in Payments |-> NoEvent]
    /\ purging = FALSE
    /\ call = [w \in Workers |-> Idle]
    /\ crashes = 0

-----------------------------------------------------------------------------
(* Control of a call. *)

At(w, op, at) == call[w].op = op /\ call[w].at = at

(* The row as the call reads it; attempt_count matters to decide alone. *)
Start(w, op, at, p, tries, todo) ==
    call' = [call EXCEPT ![w] = [op |-> op, at |-> at, p |-> p, seen |-> status[p],
                                 tries |-> tries, todo |-> todo]]

Goto(w, at, todo) == call' = [call EXCEPT ![w].at = at, ![w].todo = todo]
Return(w)         == call' = [call EXCEPT ![w] = Idle]

SetStatus(p, s) == status' = [status EXCEPT ![p] = s]

(* No transaction that claimed the row is still to commit; one that has     *)
(* more to do after its claim holds the row's lock at "commit".             *)
Free(p) == \A w \in Workers : call[w].at = "commit" => call[w].p # p

-----------------------------------------------------------------------------
(* startPaystackCheckout: only an INITIATED row is taken to Paystack; any   *)
(* other is handed back as it is.                                           *)
StartCheckout(w, p) ==
    /\ call[w] = Idle
    /\ w # Sweeper
    /\ status[p] = "INITIATED"
    /\ Start(w, "checkout", "open", p, 0, "none")
    /\ UNCHANGED <<status, old, paystack, event, purging, crashes>>

(* initializeTransaction succeeds: Paystack had no such reference. *)
OpenTransaction(w) ==
    /\ At(w, "checkout", "open")
    /\ paystack[call[w].p] = "unknown"
    /\ paystack' = [paystack EXCEPT ![call[w].p] = "created"]
    /\ Goto(w, "record", "none")
    /\ UNCHANGED <<status, old, event, purging, crashes>>

(* It throws: the reference is taken, or the answer never came (Paystack    *)
(* may or may not have created the transaction).                            *)
OpenFails(w) ==
    /\ At(w, "checkout", "open")
    /\ \/ UNCHANGED paystack
       \/ /\ paystack[call[w].p] = "unknown"
          /\ paystack' = [paystack EXCEPT ![call[w].p] = "created"]
    /\ Return(w)
    /\ UNCHANGED <<status, old, event, purging, crashes>>

(* The UPDATE to PENDING names only the id, whatever the row says by now.   *)
(* The answer carries the access code: from here on the payer can pay.      *)
RecordCheckout(w) ==
    /\ At(w, "checkout", "record")
    /\ Free(call[w].p)
    /\ SetStatus(call[w].p, "PENDING")
    /\ paystack' = [paystack EXCEPT ![call[w].p] = "open"]
    /\ Return(w)
    /\ UNCHANGED <<old, event, purging, crashes>>

-----------------------------------------------------------------------------
(* Paystack and the payer (external). *)

Finish(p, record) ==
    /\ paystack[p] = "open"
    /\ paystack' = [paystack EXCEPT ![p] = record]
    /\ UNCHANGED <<status, old, event, purging, call, crashes>>

(* handlePaystackWebhook on a genuine charge event, delivered any number of *)
(* times: persistWebhookEvent inserts it or upgrades an unsigned squatter;  *)
(* the event is decided by Decide below, now or by the sweep.               *)
DeliverSigned(p) ==
    /\ paystack[p] \in Finished
    /\ event[p].kept # "signed"
    /\ event' = [event EXCEPT ![p].kept = "signed"]
    /\ UNCHANGED <<status, old, paystack, purging, call, crashes>>

(* A request with a bad signature naming the same event id is kept, unread. *)
DeliverUnsigned(p) ==
    /\ event[p].kept = "no"
    /\ event' = [event EXCEPT ![p].kept = "unsigned"]
    /\ UNCHANGED <<status, old, paystack, purging, call, crashes>>

-----------------------------------------------------------------------------
(* verifyPayment. *)

StartVerify(w, p) ==
    /\ call[w] = Idle
    /\ w # Sweeper
    /\ status[p] \in Unpaid
    /\ Start(w, "verify", "ask", p, 0, "none")
    /\ UNCHANGED <<status, old, paystack, event, purging, crashes>>

(* Paystack answers.  A disagreement throws; a transaction that is not over *)
(* ends the payment, unless its checkout can be resumed.                    *)
VerifyAnswered(w) ==
    /\ At(w, "verify", "ask")
    /\ paystack[call[w].p] # "unknown"
    /\ LET record == paystack[call[w].p] IN
       IF record = "short" \/ (Resumable /\ record \in {"created", "open"})
       THEN Return(w)
       ELSE Goto(w, "apply", IF record = "success" THEN "success" ELSE "failed")
    /\ UNCHANGED <<status, old, paystack, event, purging, crashes>>

(* No such transaction (definitive only for an old payment), or no answer. *)
VerifyUnanswered(w) ==
    /\ At(w, "verify", "ask")
    /\ \/ call[w].p \in old /\ Goto(w, "write", "close")
       \/ Return(w)
    /\ UNCHANGED <<status, old, paystack, event, purging, crashes>>

(* closePaymentUnknownToGateway: conditional on the row still being unpaid. *)
CloseUnknown(w) ==
    /\ At(w, "verify", "write")
    /\ Free(call[w].p)
    /\ status' = [status EXCEPT ![call[w].p] = IF @ \in Unpaid THEN "CANCELLED" ELSE @]
    /\ Return(w)
    /\ UNCHANGED <<old, paystack, event, purging, crashes>>

-----------------------------------------------------------------------------
(* decidePaymentWebhookEvent. *)

LateCapture(s)    == Resumable /\ s = "CANCELLED"
TerminalUnpaid(s) == s \in Terminal \ Settled /\ ~LateCapture(s)

(* Outcomes that need no word from Paystack.  The event says charge.failed  *)
(* exactly when the transaction failed.                                     *)
IgnoredUnread(p) ==
    \/ purging
    \/ status[p] \in Settled
    \/ TerminalUnpaid(status[p]) /\ paystack[p] = "failed"

StartDecide(w, p) ==
    /\ call[w] = Idle
    /\ event[p].kept = "signed"
    /\ event[p].outcome = "null"
    /\ IF IgnoredUnread(p)
       THEN Start(w, "decide", "write", p, event[p].attempts, "ignored")
       ELSE Start(w, "decide", "ask", p, event[p].attempts, "none")
    /\ UNCHANGED <<status, old, paystack, event, purging, crashes>>

(* Mutation: a disagreement is taken for a confirmation. *)
VerdictTrusting(record, seen) ==
    CASE record \in {"created", "open"} -> IF TerminalUnpaid(seen) THEN "ignored" ELSE "defer"
      [] record = "failed"              -> IF TerminalUnpaid(seen) THEN "ignored" ELSE "failed"
      [] record \in {"success", "short"} -> IF TerminalUnpaid(seen) THEN "needs_review" ELSE "success"

(* classifyGatewayRecord, and what follows for the row as it was read. *)
Verdict(record, seen) ==
    CASE record = "short"               -> "rejected"
      [] record \in {"created", "open"} -> IF TerminalUnpaid(seen) THEN "ignored" ELSE "defer"
      [] record = "failed"              -> IF TerminalUnpaid(seen) THEN "ignored" ELSE "failed"
      [] record = "success"             -> IF TerminalUnpaid(seen) THEN "needs_review" ELSE "success"

DecideAnswered(w) ==
    /\ At(w, "decide", "ask")
    /\ paystack[call[w].p] # "unknown"
    /\ LET verdict == Verdict(paystack[call[w].p], call[w].seen) IN
       Goto(w, IF verdict \in {"success", "failed"} THEN "apply" ELSE "write", verdict)
    /\ UNCHANGED <<status, old, paystack, event, purging, crashes>>

(* No such transaction, believed after a few attempts; or no answer. *)
DecideUnanswered(w) ==
    /\ At(w, "decide", "ask")
    /\ \/ Goto(w, "write", "defer")
       \/ call[w].tries >= GraceAttempts /\ Goto(w, "write", "rejected")
    /\ UNCHANGED <<status, old, paystack, event, purging, crashes>>

(* finalizeWebhookEvent. *)
Finalize(p, outcome) ==
    event' = [event EXCEPT ![p].outcome = IF @ = "null" THEN outcome ELSE @]

(* Mutation: the attempts are counted but never exhausted. *)
DeferForever(p, tries) ==
    event' = [event EXCEPT ![p].attempts = IF event[p].outcome = "null" THEN tries + 1 ELSE @]

(* Mutation: a failed attempt is not counted. *)
DeferUncounted(p, tries) == UNCHANGED event

(* deferWebhookEvent: counts from the attempts the call read. *)
Defer(p, tries) ==
    IF tries + 1 >= MaxAttempts
    THEN Finalize(p, "deferred_exhausted")
    ELSE event' = [event EXCEPT ![p].attempts = IF event[p].outcome = "null" THEN tries + 1 ELSE @]

WriteDecision(w) ==
    /\ At(w, "decide", "write")
    /\ IF call[w].todo = "defer"
       THEN Defer(call[w].p, call[w].tries)
       ELSE Finalize(call[w].p, call[w].todo)
    /\ Return(w)
    /\ UNCHANGED <<status, old, paystack, purging, crashes>>

-----------------------------------------------------------------------------
(* applyGatewayResult, the part common to every target. *)

Applying(w, verdict) == call[w].at = "apply" /\ call[w].todo = verdict

(* Mutation: the claim trusts the row as the call read it. *)
ClaimsStale(w) == call[w].seen \notin Terminal \/ LateCapture(call[w].seen)

(* The conditional UPDATE to CAPTURED affects the row. *)
Claims(w) ==
    \/ status[call[w].p] \notin Terminal
    \/ LateCapture(call[w].seen) /\ status[call[w].p] = "CANCELLED"

(* verifyPayment returns; decidePaymentWebhookEvent goes on to finalize,    *)
(* whether or not the claim affected a row.                                 *)
Applied(w) == IF call[w].op = "verify" THEN Return(w) ELSE Goto(w, "write", "applied")

(* The claim affects no row: another caller got there first. *)
ApplyNothing(w) ==
    /\ Applying(w, "success")
    /\ Free(call[w].p)
    /\ ~Claims(w)
    /\ Applied(w)
    /\ UNCHANGED <<status, old, paystack, event, purging, crashes>>

ApplyFailure(w) ==
    /\ Applying(w, "failed")
    /\ Free(call[w].p)
    /\ status' = [status EXCEPT ![call[w].p] = IF @ \in Terminal THEN @ ELSE "FAILED"]
    /\ Applied(w)
    /\ UNCHANGED <<old, paystack, event, purging, crashes>>

(* The transaction rolls back: verifyPayment throws, a decision is deferred. *)
ApplyRollsBack(w) ==
    /\ call[w].at \in {"apply", "commit"}
    /\ crashes < MaxCrashes
    /\ crashes' = crashes + 1
    /\ IF call[w].op = "verify" THEN Return(w) ELSE Goto(w, "write", "defer")
    /\ UNCHANGED <<status, old, paystack, event, purging>>

-----------------------------------------------------------------------------
(* The process dies between two statements; nothing it committed is undone. *)
Crash(w) ==
    /\ call[w] # Idle
    /\ crashes < MaxCrashes
    /\ crashes' = crashes + 1
    /\ Return(w)
    /\ UNCHANGED <<status, old, paystack, event, purging>>

GrowOld(p) ==
    /\ status[p] # "none"
    /\ p \notin old
    /\ old' = old \cup {p}
    /\ UNCHANGED <<status, paystack, event, purging, call, crashes>>

(* The offboarding sweep starts to delete the tenant's data (external). *)
StartPurge ==
    /\ ~purging
    /\ purging' = TRUE
    /\ UNCHANGED <<status, old, paystack, event, call, crashes>>

(* Everything but what a capture buys and who else writes the row. *)
GatewayStep(w) ==
    \/ OpenTransaction(w) \/ OpenFails(w) \/ RecordCheckout(w)
    \/ VerifyAnswered(w) \/ VerifyUnanswered(w) \/ CloseUnknown(w)
    \/ DecideAnswered(w) \/ DecideUnanswered(w) \/ WriteDecision(w)
    \/ ApplyNothing(w) \/ ApplyFailure(w)

GatewayNext ==
    \/ \E w \in Workers : GatewayStep(w) \/ ApplyRollsBack(w) \/ Crash(w)
    \/ \E w \in Workers, p \in Payments :
          StartCheckout(w, p) \/ StartVerify(w, p) \/ StartDecide(w, p)
    \/ \E p \in Payments :
          \/ \E record \in Finished : Finish(p, record)
          \/ DeliverSigned(p) \/ DeliverUnsigned(p) \/ GrowOld(p)
    \/ StartPurge
=============================================================================
