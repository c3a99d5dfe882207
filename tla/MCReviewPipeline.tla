-------------------------- MODULE MCReviewPipeline --------------------------
(* Small instances of ReviewPipeline for TLC. *)
EXTENDS ReviewPipeline, TLC

CONSTANTS i1, i2, p1, p2, c1, c2, k1, k2

Symmetry ==
    Permutations(Instances) \cup Permutations(Publishers) \cup Permutations(Consumers)
        \cup Permutations(Partitions)
============================================================================
