--------------------------- MODULE MCFolioPayment ---------------------------
(* FolioPayment on a small instance: one caller and the sweep, which run    *)
(* verify and decide on the same payment.  No symmetry, because liveness is *)
(* checked; PaymentProofs has the safety part for any number of each.       *)
EXTENDS FolioPayment, TLC
=============================================================================
