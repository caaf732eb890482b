---------------------------- MODULE MCAccounts ----------------------------
(* Model values for the runs of Accounts. *)
EXTENDS Accounts, TLC

CONSTANTS p1, q1, q2, k1

Symmetry == Permutations(Phones) \cup Permutations(Requests)
=============================================================================
