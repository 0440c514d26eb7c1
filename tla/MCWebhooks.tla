----------------------------- MODULE MCWebhooks -----------------------------
(* Constants for the runs of Webhooks.                                     *)
EXTENDS Webhooks, TLC

Symmetry == Permutations(Events) \cup Permutations(Editors)
=============================================================================
