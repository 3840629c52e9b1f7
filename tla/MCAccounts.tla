----------------------------- MODULE MCAccounts -----------------------------
EXTENDS Accounts, TLC

EnvOidc   == [version |-> 0, redirect |-> "env"]
Symmetric == Permutations(Emails) \cup Permutations(Requests)
=============================================================================
