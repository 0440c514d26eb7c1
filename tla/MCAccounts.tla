----------------------------- MODULE MCAccounts -----------------------------
(* Constants for the run of Accounts.                                      *)
EXTENDS Accounts, TLC

Symmetry == Permutations(Founders) \cup Permutations(Requests)
=============================================================================
