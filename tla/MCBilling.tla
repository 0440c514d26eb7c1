----------------------------- MODULE MCBilling -----------------------------
(* Small instances of Billing for TLC: see the .cfg files named after the  *)
(* run.  Requests are interchangeable.                                     *)
EXTENDS Billing, TLC

Symmetry == Permutations(Handlers) \cup Permutations(Checkouts) \cup Permutations(Profiles)
============================================================================
