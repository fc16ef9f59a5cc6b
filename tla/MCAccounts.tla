----------------------------- MODULE MCAccounts -----------------------------
(* Interchangeable requests, wallets and addresses.                        *)
EXTENDS Accounts, TLC

CONSTANTS r1, r2, w1, w2, a1, a2

Symmetry == Permutations({r1, r2}) \cup Permutations({w1, w2}) \cup Permutations({a1, a2})
=============================================================================
