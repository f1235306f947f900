-------------------------- MODULE MCCompanyAccount --------------------------
EXTENDS CompanyAccount, TLC

Perms == Permutations(Requests) \cup Permutations(Folios) \cup Permutations(Lines)
         \cup Permutations(Invoices) \cup Permutations(Payments)
=============================================================================
