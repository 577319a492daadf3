------------------------------ MODULE MCBooks ------------------------------
(* Instances of Books for TLC. *)
EXTENDS Books, TLC

CONSTANTS r1, r2, q1, k1, k2, k3, f1, f2, g1, g2

TwoRows == 1 :> [date |-> 1, cat |-> k1] @@ 2 :> [date |-> 1, cat |-> k2] @@ 3 :> None

\* What clients call together in one behaviour.
Together ==
    {{"cursor", "offset", "create", "delete"}, {"cursor", "edit"},
     {"cursor", "create", "replaceCategory"}, {"replaceCategory", "edit"},
     {"newCategory", "replaceCategory", "dropCategory"}, {"files"}}

Interchangeable == Permutations(Requests) \cup Permutations(Files)
                   \cup Permutations(Uploads)
=============================================================================
