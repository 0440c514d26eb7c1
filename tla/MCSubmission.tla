---------------------------- MODULE MCSubmission ----------------------------
(* Constants for the run of Submission.                                    *)
EXTENDS Submission, TLC

\* The customer's first key is all he may have; webhooks come with "big" only.
MCLimit == [p \in {"small", "big"} |->
             [k \in Kinds |-> IF k = "key" \/ p = "small"
                              THEN IF k = "webhook" THEN 0 ELSE 1
                              ELSE IF k = "webhook" THEN 1 ELSE 2]]
Symmetry == Permutations(Requests)
=============================================================================
