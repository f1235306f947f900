--------------------------- MODULE MCPaymentRefund ---------------------------
(* PaymentRefund with two refunds of one payment, each for all of it or for *)
(* half, and two calls at a time: the sweep's, and any other.               *)
EXTENDS PaymentRefund, TLC

Symmetry == Permutations(Refunds)
=============================================================================
