----------------------------- MODULE MCAccounts -----------------------------
(* Instances of Accounts: users u and w, and u's project.                   *)
EXTENDS Accounts, TLC

CONSTANTS u, w

MCFounder == [p \in Projects |-> u]
Symmetry == Permutations(Requests)
=============================================================================
