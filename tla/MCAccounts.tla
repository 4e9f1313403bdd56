------------------------------ MODULE MCAccounts ------------------------------
(* Instances of Accounts for TLC.                                          *)
EXTENDS Accounts, TLC

\* Users, tokens and handlers are interchangeable.
Symmetry == Permutations(Users) \cup Permutations(Tokens) \cup Permutations(Handlers)

\* The server's time is behind UTC.
West == -1
=============================================================================
