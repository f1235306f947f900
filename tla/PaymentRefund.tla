---------------------------- MODULE PaymentRefund ----------------------------
(***************************************************************************)
(* Refunds of one captured Paystack payment (cashiering/service.js): the   *)
(* refund call that reserves an amount and asks Paystack, the check of a   *)
(* refund whose answer never came (the sweep, a refund webhook), and the   *)
(* manager's "clear".  Every transaction that learns an answer locks the   *)
(* payment first, so each is one step; the refund call reads before it     *)
(* queues on that lock, so it takes two.                                   *)
(*                                                                         *)
(* INITIATED and PENDING are one status here, "reserved": no guard tells   *)
(* them apart.  Paystack is external: it makes at most one refund per      *)
(* request, never of more than the payment, and may refuse, be slow, stay  *)
(* silent or name a status the code does not know ("odd").                 *)
(***************************************************************************)
EXTENDS Integers, FiniteSets

CONSTANTS
    Refunds,     \* refund intents; Paystack's refunds are named after them
    Workers,     \* processes that run the calls
    Sweeper,     \* the one that runs the reconciliation sweep
    Manager,     \* the one that clears stuck refunds
    None,        \* no Paystack refund id recorded
    Amount,      \* the payment
    MinChecks    \* clearMinChecks

ASSUME WorkerAssumption == Sweeper \in Workers /\ Manager \in Workers
ASSUME NoneAssumption   == None \notin Refunds
ASSUME RefundsAreFinite == IsFiniteSet(Refunds)
ASSUME NumberAssumption == Amount \in Nat \ {0} /\ MinChecks \in Nat

VARIABLES
    refund,    \* payments: the intents, with provider_payment_id as gid
    effects,   \* how often a refund's effects were applied (folio lines, balances)
    payment,   \* status of the refunded payment
    sale,      \* the settlement the payment funds, if it is a Register payment
    checks,    \* refund_reconciliations.attempts, counted up to MinChecks
    last,      \* its last_result
    cleared,   \* refunds a manager gave up on
    aged,      \* refunds at least minAgeMinutes old
    paystack,  \* Paystack's own refunds
    older,     \* per refund, those made well before it
    call,      \* what each process is doing
    crossed    \* history: a commit fell between two reads of another call

ledger == <<refund, effects, payment, sale>>
vars   == <<refund, effects, payment, sale, checks, last, cleared, aged,
            paystack, older, call, crossed>>

NoRefund == [status |-> "none", amount |-> 0, gid |-> None]
Idle     == [op |-> "idle", at |-> "idle"]
Answers  == {"processed", "pending", "failed"}
Calls ==
    {Idle}
    \cup [op : {"refund"}, at : {"ask", "refused"}, of : Refunds]
    \cup [op : {"refund"}, at : {"record"}, of : Refunds, result : {"processed", "pending"}]
    \cup [op : {"refund"}, at : {"commit"}, of : Refunds, result : {"processed", "pending"},
          sold : BOOLEAN]
    \cup [op : {"check", "clear"}, at : {"look"}, of : Refunds, gid : Refunds \cup {None}]
    \cup [op : {"check", "clear"}, at : {"rivals", "settle"}, of : Refunds,
          gid : Refunds \cup {None}, result : Answers \cup {"none"}]
    \cup [op : {"clear"}, at : {"clear"}, of : Refunds]

TypeOK ==
    /\ refund \in [Refunds -> [status : {"none", "reserved", "captured", "failed"},
                               amount : 0..Amount, gid : Refunds \cup {None}]]
    /\ effects \in [Refunds -> 0..1]
    /\ payment \in {"CAPTURED", "PARTIALLY_REFUNDED", "REFUNDED"}
    /\ sale \in {"none", "standing", "voided"}
    /\ checks \in [Refunds -> 0..MinChecks]
    /\ last \in [Refunds -> Answers \cup {"null", "none", "cleared"}]
    /\ cleared \subseteq Refunds
    /\ aged \subseteq Refunds
    /\ paystack \in [Refunds -> Answers \cup {"none", "odd"}]
    /\ older \in [Refunds -> SUBSET Refunds]
    /\ call \in [Workers -> Calls]
    /\ crossed \in BOOLEAN

Init ==
    /\ refund = [i \in Refunds |-> NoRefund]
    /\ effects = [i \in Refunds |-> 0]
    /\ payment = "CAPTURED"
    /\ sale = "none"
    /\ checks = [i \in Refunds |-> 0]
    /\ last = [i \in Refunds |-> "null"]
    /\ cleared = {}
    /\ aged = {}
    /\ paystack = [i \in Refunds |-> "none"]
    /\ older = [i \in Refunds |-> {}]
    /\ call = [w \in Workers |-> Idle]
    /\ crossed = FALSE

-----------------------------------------------------------------------------
With(statuses)  == {i \in Refunds : refund[i].status \in statuses}
InFlight(i)     == refund[i].status = "reserved"

(* The units that some refunds are of, and how many they are. *)
Units(refunds)  == {u \in refunds \X (1..Amount) : u[2] <= refund[u[1]].amount}
Total(refunds)  == Cardinality(Units(refunds))

Made            == {i \in Refunds : refund[i] # NoRefund}
Asking(w, i)    == call[w].op = "refund" /\ call[w].of = i

At(w, op, at) == call[w].op = op /\ call[w].at = at
Return(w)     == call' = [call EXCEPT ![w] = Idle]

(* Mutant: refunds still in flight are not counted. *)
AvailableSettled == Amount - Total(With({"captured"}))

(* refundedSoFar, read under the payment's lock. *)
Available == Amount - Total(With({"reserved", "captured"}))

(* refundPayment, its first transaction: the amount is reserved.  Earlier   *)
(* refunds may be so much older than this one that lookUpRefundAtPaystack   *)
(* will never take theirs for it (it allows two minutes).                   *)
Reserve(w, i, amount) ==
    /\ call[w] = Idle
    /\ refund[i] = NoRefund
    /\ payment # "REFUNDED"
    /\ amount \in 1..Available
    /\ refund' = [refund EXCEPT ![i] = [status |-> "reserved", amount |-> amount, gid |-> None]]
    /\ \E apart \in SUBSET {j \in Made : \A v \in Workers : ~Asking(v, j)} :
          aged \subseteq apart /\ older' = [older EXCEPT ![i] = apart]
    /\ call' = [call EXCEPT ![w] = [op |-> "refund", at |-> "ask", of |-> i]]
    /\ UNCHANGED <<effects, payment, sale, checks, last, cleared, aged, paystack, crossed>>

(* Paystack holds no more refunds than the payment is worth. *)
PaystackAllows(i) ==
    Total({j \in Refunds : paystack[j] \in {"pending", "processed", "odd"}})
        + refund[i].amount <= Amount

Asked(w, i, status) ==
    /\ At(w, "refund", "ask")
    /\ i = call[w].of
    /\ PaystackAllows(i)
    /\ paystack' = [paystack EXCEPT ![i] = status]
    /\ UNCHANGED <<ledger, checks, last, cleared, aged, older, crossed>>

(* Paystack takes the refund, and says so; or its answer is lost, and the   *)
(* call flags the refund and throws, which changes nothing else.            *)
AskAccepted(w, i, status) ==
    /\ Asked(w, i, status)
    /\ call' = [call EXCEPT ![w] = [op |-> "refund", at |-> "record", of |-> i, result |-> status]]

AskUnheard(w, i, status) == Asked(w, i, status) /\ Return(w)

(* It refuses: an HTTP 4xx. *)
AskRefused(w) ==
    /\ At(w, "refund", "ask")
    /\ call' = [call EXCEPT ![w] = [op |-> "refund", at |-> "refused", of |-> @.of]]
    /\ UNCHANGED <<ledger, checks, last, cleared, aged, paystack, older, crossed>>

(* A definite refusal releases the amount, if it is still reserved. *)
Release(w) ==
    /\ At(w, "refund", "refused")
    /\ LET i == call[w].of IN
       refund' = IF InFlight(i) THEN [refund EXCEPT ![i].status = "failed"] ELSE refund
    /\ Return(w)
    /\ UNCHANGED <<effects, payment, sale, checks, last, cleared, aged, paystack,
                   older, crossed>>

-----------------------------------------------------------------------------
(* Another call is between reading which Paystack refunds are taken and     *)
(* which refunds still wait for one.                                        *)
Crosses(w) == \E v \in Workers \ {w} : call[v].at = "rivals"

(* Mutant: the answer is applied whatever became of the refund meanwhile. *)
ClaimsAgain(i) == i \in Refunds

(* settleRefundIntent claims a refund that is still in flight. *)
Claims(i) == InFlight(i)

(* Mutant: only a single refund of everything counts as a full one. *)
VoidsSaleAlone(i, sold) == refund[i].amount = Amount /\ sold

(* applyProcessedRefundEffects: with this one the payment is refunded in    *)
(* full, ...                                                                *)
Full(i) == Total(With({"captured"}) \cup {i}) = Amount

(* ... which voids the settlement it funds, if the plain read finds one.    *)
VoidsSale(i, sold) == Full(i) /\ sold

Settle(w, i, result, gid, sold) ==
    LET status == [processed |-> "captured", pending |-> "reserved", failed |-> "failed"][result]
    IN  /\ Claims(i)
        /\ refund' = [refund EXCEPT ![i] = [status |-> status, amount |-> @.amount,
                                            gid |-> IF gid = None THEN @.gid ELSE gid]]
        /\ IF result = "processed"
           THEN /\ effects' = [effects EXCEPT ![i] = @ + 1]
                /\ payment' = IF Full(i) THEN "REFUNDED" ELSE "PARTIALLY_REFUNDED"
                /\ sale' = IF VoidsSale(i, sold) THEN "voided" ELSE sale
           ELSE UNCHANGED <<effects, payment, sale>>
        /\ crossed' = (crossed \/ Crosses(w))

(* The call records Paystack's answer: its transaction first reads the      *)
(* intent, which fixes what its plain reads will see, ...                   *)
RecordPeek(w) ==
    /\ At(w, "refund", "record")
    /\ call' = [call EXCEPT ![w] = [op |-> "refund", at |-> "commit", of |-> call[w].of,
                                    result |-> call[w].result, sold |-> sale # "none"]]
    /\ UNCHANGED <<ledger, checks, last, cleared, aged, paystack, older, crossed>>

(* ... then queues for the payment, and settles the refund if it still can. *)
RecordCommit(w) ==
    /\ At(w, "refund", "commit")
    /\ LET i == call[w].of IN
       \/ Settle(w, i, call[w].result, i, call[w].sold)
       \/ ~Claims(i) /\ UNCHANGED <<ledger, crossed>>
    /\ Return(w)
    /\ UNCHANGED <<checks, last, cleared, aged, paystack, older>>

(* claimRegisterPaymentForCheck: the cashier puts a captured Register       *)
(* payment on a check.                                                      *)
TakeSale ==
    /\ sale = "none"
    /\ payment = "CAPTURED"
    /\ sale' = "standing"
    /\ crossed' = (crossed \/ \E w \in Workers : At(w, "refund", "commit"))
    /\ UNCHANGED <<refund, effects, payment, checks, last, cleared, aged, paystack,
                   older, call>>

-----------------------------------------------------------------------------
(* refundClearEligibility; that a clear waits longer than the sweep does is *)
(* not modelled.                                                            *)
Eligible(i) == InFlight(i) /\ i \in aged /\ checks[i] >= MinChecks /\ last[i] = "none"

StartLook(w, op, i) ==
    /\ call[w] = Idle
    /\ call' = [call EXCEPT ![w] = [op |-> op, at |-> "look", of |-> i, gid |-> refund[i].gid]]
    /\ UNCHANGED <<ledger, checks, last, cleared, aged, paystack, older, crossed>>

(* reconcileRefundIntent: for a refund webhook at any time, or by the sweep *)
(* once the refund is old enough.                                           *)
StartCheck(w, i) ==
    /\ InFlight(i)
    /\ IF w = Sweeper THEN i \in aged ELSE \E j \in Refunds : paystack[j] # "none"
    /\ StartLook(w, "check", i)

(* clearStuckRefund checks once more, on behalf of a manager. *)
StartClear(i) == Eligible(i) /\ StartLook(Manager, "clear", i)

(* lookUpRefundAtPaystack: Paystack's record of the refund, when its id is  *)
(* known; "none" stands for every lack of an answer (unreachable, not       *)
(* found, ambiguous).                                                       *)
Found(w, at, gid, result) ==
    /\ call[w].at = "look"
    /\ call' = [call EXCEPT ![w] = [op |-> call[w].op, at |-> at, of |-> call[w].of,
                                    gid |-> gid, result |-> result]]
    /\ UNCHANGED <<ledger, checks, last, cleared, aged, paystack, older, crossed>>

(* Mutant: a status the code does not know is taken for a failure. *)
KnownOrFailed(j) == IF paystack[j] = "odd" THEN "failed" ELSE paystack[j]

(* classifyRefundStatus. *)
Known(j) == IF paystack[j] = "odd" THEN "none" ELSE paystack[j]

LookById(w) ==
    /\ call[w].at = "look" /\ call[w].gid # None
    /\ Found(w, "settle", call[w].gid, Known(call[w].gid))

(* Otherwise the one refund of that amount Paystack lists for the payment   *)
(* that is not too old and not some other row's.                            *)
Candidates(i) ==
    {j \in Refunds :
        /\ paystack[j] # "none"
        /\ refund[j].amount = refund[i].amount
        /\ j \notin older[i]
        /\ \A k \in Refunds \ {i} : refund[k].gid # j}

LookByAmount(w) ==
    /\ call[w].at = "look" /\ call[w].gid = None
    /\ \E j \in Candidates(call[w].of) :
          /\ Candidates(call[w].of) = {j}
          /\ Found(w, "rivals", j, Known(j))

LookFindsNone(w) == Found(w, "settle", call[w].gid, "none")

(* It counts only when no other refund of that amount is waiting for one.   *)
Rival(i, k) ==
    k # i /\ InFlight(k) /\ refund[k].gid = None /\ refund[k].amount = refund[i].amount

Rivals(w) ==
    /\ call[w].at = "rivals"
    /\ call' = [call EXCEPT ![w] = [op |-> @.op, at |-> "settle", of |-> @.of, gid |-> @.gid,
                                    result |-> IF \E k \in Refunds : Rival(@.of, k)
                                               THEN "none" ELSE @.result]]
    /\ UNCHANGED <<ledger, checks, last, cleared, aged, paystack, older, crossed>>

(* The check's own transaction, under the payment's lock: an answer settles *)
(* the refund, if nobody else has (a clear then has nothing left to do).    *)
Count(i, result) ==
    /\ checks' = [checks EXCEPT ![i] = IF @ < MinChecks THEN @ + 1 ELSE @]
    /\ last' = [last EXCEPT ![i] = result]

CheckSettles(w) ==
    /\ call[w].at = "settle" /\ call[w].result # "none"
    /\ LET i == call[w].of IN
       \/ Settle(w, i, call[w].result, call[w].gid, sale # "none") /\ Count(i, call[w].result)
       \/ ~Claims(i) /\ UNCHANGED <<ledger, checks, last, crossed>>
    /\ Return(w)
    /\ UNCHANGED <<cleared, aged, paystack, older>>

(* Without one the check is only counted, and a clear goes on.              *)
CheckCounts(w) ==
    /\ call[w].at = "settle" /\ call[w].result = "none"
    /\ Count(call[w].of, "none")
    /\ IF call[w].op = "check" THEN Return(w)
       ELSE call' = [call EXCEPT ![w] = [op |-> "clear", at |-> "clear", of |-> call[w].of]]
    /\ UNCHANGED <<ledger, cleared, aged, paystack, older, crossed>>

(* clearStuckRefund, its own transaction: the amount is released. *)
Clear(w) ==
    /\ At(w, "clear", "clear")
    /\ LET i == call[w].of IN
       IF Eligible(i)
       THEN /\ refund' = [refund EXCEPT ![i].status = "failed"]
            /\ last' = [last EXCEPT ![i] = "cleared"]
            /\ cleared' = cleared \cup {i}
            /\ crossed' = (crossed \/ Crosses(w))
       ELSE UNCHANGED <<refund, last, cleared, crossed>>
    /\ Return(w)
    /\ UNCHANGED <<effects, payment, sale, checks, aged, paystack, older>>

-----------------------------------------------------------------------------
(* Five minutes pass.  No call to Paystack lasts that long, so calls for    *)
(* refunds made no later than this one are over.                            *)
Age(i) ==
    /\ i \in Made \ aged
    /\ \A w \in Workers, k \in Refunds : Asking(w, k) => i \in older[k]
    /\ aged' = aged \cup {i}
    /\ UNCHANGED <<ledger, checks, last, cleared, paystack, older, call, crossed>>

(* Paystack finishes a refund. *)
PaystackFinishes(i, status) ==
    /\ paystack[i] = "pending"
    /\ paystack' = [paystack EXCEPT ![i] = status]
    /\ UNCHANGED <<ledger, checks, last, cleared, aged, older, call, crossed>>

(* A call ends where it is and changes nothing more: its process dies, the  *)
(* request never gets to Paystack, or the transaction fails and the refund  *)
(* is only flagged (flagRefundOutcomeUnknown).                              *)
Abandon(w) ==
    /\ call[w] # Idle
    /\ Return(w)
    /\ UNCHANGED <<ledger, checks, last, cleared, aged, paystack, older, crossed>>

Ask(w) ==
    \/ AskRefused(w)
    \/ \E i \in Refunds, status \in {"processed", "pending"} :
          AskAccepted(w, i, status) \/ AskUnheard(w, i, status)

Check(w) ==
    \/ LookById(w) \/ LookByAmount(w) \/ LookFindsNone(w) \/ Rivals(w)
    \/ CheckSettles(w) \/ CheckCounts(w) \/ Clear(w)

(* A process goes on with the call it is in. *)
Step(w) ==
    \/ Ask(w) \/ Release(w) \/ RecordPeek(w) \/ RecordCommit(w)
    \/ Check(w)

Next ==
    \/ \E w \in Workers : Step(w) \/ Abandon(w)
    \/ \E w \in Workers, i \in Refunds :
          StartCheck(w, i) \/ \E amount \in 1..Amount : Reserve(w, i, amount)
    \/ TakeSale
    \/ \E i \in Refunds :
          \/ StartClear(i) \/ Age(i)
          \/ \E status \in {"processed", "failed", "odd"} : PaystackFinishes(i, status)

Spec == Init /\ [][Next]_vars

-----------------------------------------------------------------------------
(* refundPayment: two requests "cannot both refund the same money".         *)
(* Whatever is refunded, or may yet be, never exceeds the payment.          *)
NeverOverRefunded == Total(With({"reserved", "captured"})) <= Amount

(* applyProcessedRefundEffects: "applied exactly once by whichever path     *)
(* first sees it", and the payment says how much of it went back.  Two      *)
(* refunds never count one and the same Paystack refund, unless one is      *)
(* recorded between the two reads with which a check looks for the other's. *)
RefundAppliedOnce ==
    /\ ~crossed => \A i, j \in With({"captured"}) :
                       i # j => refund[i].gid # refund[j].gid
    /\ \A i \in Refunds : effects[i] = IF refund[i].status = "captured" THEN 1 ELSE 0
    /\ payment = CASE Total(With({"captured"})) = 0 -> "CAPTURED"
                   [] Total(With({"captured"})) = Amount -> "REFUNDED"
                   [] OTHER -> "PARTIALLY_REFUNDED"

(* "Never releases an amount on doubt": an amount is free again only when   *)
(* Paystack made no refund of it or failed it, or when a manager gave up.   *)
ReleasedIsUnpaid ==
    \A i \in Refunds :
        ~crossed /\ refund[i].status = "failed" /\ i \notin cleared
            => paystack[i] \in {"none", "failed"}

(* "A FULL refund voids the settlement it funded", provided the sale is not *)
(* made in the instant between the peek and the lock of settleRefundIntent. *)
SaleVoidedInOrder == ~crossed => (payment = "REFUNDED" => sale # "standing")

(* Calls that overtake each other, lose answers and are repeated implement  *)
(* the ledger: two requests "cannot both refund the same money", and of     *)
(* refund call, sweep, webhook and clear only one decides an intent, with   *)
(* its effects ("by whichever path first sees it").                         *)
Ledger == INSTANCE RefundLedger WITH
    stage  <- [i \in Refunds |-> refund[i].status],
    amount <- [i \in Refunds |-> refund[i].amount]
RefundsAreDecidedOnce == Ledger!Spec
=============================================================================
