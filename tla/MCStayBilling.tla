---------------------------- MODULE MCStayBilling ----------------------------
EXTENDS StayBilling, TLC

Perms == Permutations(Requests)
=============================================================================
