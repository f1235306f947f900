----------------------------- MODULE MCRegister -----------------------------
EXTENDS Register, TLC

Perms == Permutations(Requests) \cup Permutations(Checks) \cup Permutations(Groups)
=============================================================================
