------------------------ MODULE MCGuestOrderPayment ------------------------
(* GuestOrderPayment on a small instance. *)
EXTENDS GuestOrderPayment, TLC

Symmetry == Permutations(Workers \ {Sweeper})
=============================================================================
