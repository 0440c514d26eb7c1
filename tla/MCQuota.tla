------------------------------ MODULE MCQuota ------------------------------
(* Constants for the runs of Quota.                                        *)
EXTENDS Quota, TLC

Symmetry == Permutations(Senders)
=============================================================================
