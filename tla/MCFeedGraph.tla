---------------------------- MODULE MCFeedGraph ----------------------------
(* A small instance of FeedGraph for TLC. *)
EXTENDS FeedGraph, TLC

CONSTANTS ann, bob, cid, A, B, C, D

\* ann and bob share A and B, ann and cid share A; bob reviewed C twice.
Workload == <<
    <<ann, A, 1>>, <<ann, B, 3>>,
    <<bob, A, 2>>, <<bob, B, 2>>, <<bob, C, 4>>, <<bob, C, 5>>,
    <<cid, A, 3>>, <<cid, D, 4>> >>
MCReviews == DOMAIN Workload
MCAuthor == [v \in MCReviews |-> Workload[v][1]]
MCItem == [v \in MCReviews |-> Workload[v][2]]
MCAt == [v \in MCReviews |-> Workload[v][3]]
MCFollows == {<<ann, bob>>, <<ann, cid>>, <<bob, ann>>}
=============================================================================
