----------------------------- MODULE MCTracking -----------------------------
(* Tracking on a small instance.                                           *)
EXTENDS Tracking, TLC

Symmetry == Permutations(Plans) \cup Permutations(Checks) \cup
            Permutations(Updates) \cup Permutations(Visits)

\* Bound: changes and visits together.  A visit touches nothing that a change
\* does: it asks only what had been granted when the e-mail was logged.
Bounded == changes + Cardinality({v \in Visits : visit[v].pc # "start"}) <= MaxChanges
=============================================================================
