---------------------------- MODULE RefundLedger ----------------------------
(***************************************************************************)
(* What refunding a payment promises, whatever calls, sweeps, webhooks and *)
(* managers do at once (refundPayment, settleRefundIntent): an amount is   *)
(* reserved while it fits what is left, and is decided once.  Either it is *)
(* captured, in one step with its effects and the payment's status, or it  *)
(* is released.  PaymentRefund implements it.                              *)
(***************************************************************************)
EXTENDS Naturals, FiniteSets

CONSTANTS Refunds, Amount

VARIABLES stage, amount, effects, payment

vars == <<stage, amount, effects, payment>>

Init ==
    /\ stage = [i \in Refunds |-> "none"]
    /\ amount = [i \in Refunds |-> 0]
    /\ effects = [i \in Refunds |-> 0]
    /\ payment = "CAPTURED"

(* What some refunds come to: the number of their units. *)
Sum(refunds) == Cardinality({u \in refunds \X (1..Amount) : u[2] <= amount[u[1]]})

In(stages) == {i \in Refunds : stage[i] \in stages}

Reserve(i, a) ==
    /\ stage[i] = "none"
    /\ Sum(In({"reserved", "captured"})) + a <= Amount
    /\ stage' = [stage EXCEPT ![i] = "reserved"]
    /\ amount' = [amount EXCEPT ![i] = a]
    /\ UNCHANGED <<effects, payment>>

Capture(i) ==
    /\ stage[i] = "reserved"
    /\ stage' = [stage EXCEPT ![i] = "captured"]
    /\ effects' = [effects EXCEPT ![i] = 1]
    /\ payment' = IF Sum(In({"captured"}) \cup {i}) = Amount
                  THEN "REFUNDED" ELSE "PARTIALLY_REFUNDED"
    /\ UNCHANGED amount

Release(i) ==
    /\ stage[i] = "reserved"
    /\ stage' = [stage EXCEPT ![i] = "failed"]
    /\ UNCHANGED <<amount, effects, payment>>

Next == \E i \in Refunds : Capture(i) \/ Release(i) \/ \E a \in 1..Amount : Reserve(i, a)

Spec == Init /\ [][Next]_vars
=============================================================================
