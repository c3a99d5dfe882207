-------------------------- MODULE MCReviewsOutbox --------------------------
(* Small instances of ReviewsOutbox for TLC. *)
EXTENDS ReviewsOutbox, TLC

CONSTANTS i1, i2, p1, p2, k1, k2

Symmetry ==
    Permutations(Instances) \cup Permutations(Publishers) \cup Permutations(Partitions)

\* The strongest scheduling one could ask for: a publisher that could claim a
\* row again and again does claim that row.
StronglyFairSpec == FairSpec /\ \A p \in Publishers : \A r \in Ids : SF_vars(Claim(p, r))

\* plan.md:297 says of a claimed row that "the peer worker skips that row and
\* keeps draining other pending events".
PeerKeepsDraining == EventuallyPublished
============================================================================
