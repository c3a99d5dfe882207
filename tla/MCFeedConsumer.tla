--------------------------- MODULE MCFeedConsumer ---------------------------
(* Small instances of FeedConsumer for TLC. *)
EXTENDS FeedConsumer, TLC

CONSTANTS c1, c2, k1, k2, e1, e2, other

Symmetry ==
    Permutations(Consumers) \cup Permutations(Partitions) \cup Permutations(CreatedEvents)

\* events.md:91 says that the consumer "commits an offset only after the Neo4j
\* write succeeds".
OffsetOnlyAfterWrite ==
    \A k \in Partitions : \A n \in 1..committed[k] :
        topic[k][n] \in CreatedEvents => topic[k][n] \in graph
============================================================================
