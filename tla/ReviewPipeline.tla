--------------------------- MODULE ReviewPipeline ---------------------------
(***************************************************************************)
(* The path of a review from the request to the feed: the transactional    *)
(* outbox and its publishers (ReviewsOutbox) joined to the feed consumers  *)
(* (FeedConsumer) by the Kafka topic they share.  One budget of faults is  *)
(* spent by both sides.                                                    *)
(***************************************************************************)
EXTENDS ReviewsOutbox

CONSTANTS
    Consumers,          \* as in FeedConsumer
    SilentFailures

\* What FeedConsumer assumes of its constants.
ASSUME SilenceAssumption == SilentFailures \in BOOLEAN
ASSUME ConsumersAssumption == IsFiniteSet(Consumers)

VARIABLES committed, members, state, assigned, position, current, graph, writes, dropped

\* Every message of the topic is a review.created event; the log needs no bound
\* of its own.
Feed == INSTANCE FeedConsumer WITH
            Events <- 1..MaxReviews, CreatedEvents <- 1..MaxReviews, MaxLog <- MaxReviews

outboxOnly == <<dbVars, outbox, pubVars>>
feedOnly == <<committed, members, state, assigned, position, current, graph, writes, dropped>>
pipelineVars == <<outboxOnly, feedOnly, topic, faults>>

PipelineInit == Init /\ Feed!Init

PipelineNext ==
    \/ Next /\ UNCHANGED feedOnly
    \/ Feed!FeedNext /\ UNCHANGED outboxOnly

PipelineSpec == PipelineInit /\ [][PipelineNext]_pipelineVars

FairPipeline == PipelineSpec /\ Fairness /\ Feed!Fairness

----------------------------------------------------------------------------
\* At every moment a stored review is on its way or has arrived: it is in the
\* graph, or its outbox row is still to be published, or its event is in the
\* log at or after the committed offset, where the next consumer will read it.
\* This ties the order of the two commits (Postgres status, Kafka offset) to
\* the work done before each of them, over every interleaving and crash.
NothingLost ==
    \A v \in reviews :
        \/ v \in graph
        \/ \E r \in 1..MaxReviews : Unpublished(r) /\ outbox[r].review = v
        \/ \E k \in Partitions : \E n \in 1..Len(topic[k]) : topic[k][n] = v /\ n > committed[k]

\* The pipeline implements the delivery it promises: every stored review becomes
\* visible, and stays so (events.md: at-least-once delivery, idempotent MERGE).
Delivery == INSTANCE EventDelivery WITH
                Reviews <- 1..MaxReviews, created <- reviews, visible <- graph
DeliversEveryReview == Delivery!Spec
============================================================================
