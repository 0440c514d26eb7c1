------------------------------ MODULE MCEmail ------------------------------
(* Constants for the runs of EmailPipeline.                                *)
EXTENDS EmailPipeline, TLC

Symmetry == Permutations(Emails)
=============================================================================
