----------------------------- MODULE MCAccounts -----------------------------
EXTENDS Accounts, TLC

\* Requests, session rows and passwords are interchangeable.
Symmetric == Permutations(Requests) \cup Permutations(Sessions)
             \cup Permutations(Passwords)

=============================================================================
