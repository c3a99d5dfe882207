----------------------------- MODULE FeedGraph -----------------------------
(***************************************************************************)
(* The Neo4j graph of the feed service (feed-service/app/repository.py):   *)
(* what save_review_event and follow_user merge into it, and what the feed *)
(* and recommendation queries read from it.  Events arrive at least once   *)
(* and in any order (ReviewPipeline); follows may be repeated, too.        *)
(*                                                                         *)
(* A relationship type is a function from pairs of nodes to the number of  *)
(* relationships between them: a Cypher query counts each of them, and     *)
(* only MERGE keeps that number at one.  A query is one transaction.       *)
(*                                                                         *)
(* Abstractions.  Nodes are their ids: constraints make them unique, and   *)
(* no query returns a node without a relationship.  The properties SET on  *)
(* a review are those of its event, the same each time.                    *)
(***************************************************************************)
EXTENDS Integers, FiniteSets

CONSTANTS
    Users, Items,
    Reviews,            \* review ids, and what their events say:
    Author, Item, At,   \* user_id, item_id, created_at
    Follows,            \* pairs <<follower, following>> that are asked for
    FeedLimit, RecLimit \* LIMIT of the two queries

ASSUME WorkloadAssumption ==
    /\ Author \in [Reviews -> Users] /\ Item \in [Reviews -> Items] /\ At \in [Reviews -> Nat]
    /\ Follows \subseteq Users \X Users

VARIABLES
    stored,             \* reviews in the reviews service
    follows,            \* (:User)-[:FOLLOWS]->(:User)
    wrote,              \* (:User)-[:WROTE]->(:Review)
    about,              \* (:Review)-[:ABOUT]->(:Item)
    reviewed            \* (:User)-[:REVIEWED]->(:Item)

graph == <<follows, wrote, about, reviewed>>
vars == <<stored, graph>>

Init ==
    /\ stored = {}
    /\ follows = [p \in Users \X Users |-> 0]
    /\ wrote = [p \in Users \X Reviews |-> 0]
    /\ about = [p \in Reviews \X Items |-> 0]
    /\ reviewed = [p \in Users \X Items |-> 0]

----------------------------------------------------------------------------
\* Mistake: CREATE makes another relationship, up to two here.
Create(rel, a, b) == [rel EXCEPT ![<<a, b>>] = IF @ < 2 THEN @ + 1 ELSE @]

\* MERGE (a)-[:REL]->(b)
Merge(rel, a, b) == [rel EXCEPT ![<<a, b>>] = IF @ = 0 THEN 1 ELSE @]

\* The reviews service stores a review and will publish its event.
Store(v) ==
    /\ v \notin stored
    /\ stored' = stored \cup {v}
    /\ UNCHANGED graph

\* Mistake: the review is merged without (u)-[:REVIEWED]->(i).
SaveWithoutReviewed(v) ==
    /\ v \in stored
    /\ wrote' = Merge(wrote, Author[v], v)
    /\ about' = Merge(about, v, Item[v])
    /\ UNCHANGED <<stored, follows, reviewed>>

\* save_review_event, for the first time or again.
SaveReview(v) ==
    /\ v \in stored
    /\ wrote' = Merge(wrote, Author[v], v)
    /\ about' = Merge(about, v, Item[v])
    /\ reviewed' = Merge(reviewed, Author[v], Item[v])
    /\ UNCHANGED <<stored, follows>>

\* Mistake: asking again takes the relationship away.
FollowOrUnfollow(p) ==
    /\ follows' = [follows EXCEPT ![p] = 1 - @]
    /\ UNCHANGED <<stored, wrote, about, reviewed>>

\* follow_user, with the id of the token as follower.
FollowUser(p) ==
    /\ follows' = Merge(follows, p[1], p[2])
    /\ UNCHANGED <<stored, wrote, about, reviewed>>

Next ==
    \/ \E v \in Reviews : Store(v) \/ SaveReview(v)
    \/ \E p \in Follows : FollowUser(p)

Spec == Init /\ [][Next]_vars

----------------------------------------------------------------------------
(* The queries.                                                            *)

\* The relationships of a type, each for itself: <<from, to, number>>.
Edges(rel) == {<<q[1][1], q[1][2], q[2]>> : q \in {q \in (DOMAIN rel) \X (1..2) : q[2] <= rel[q[1]]}}

\* Mistake: LIMIT without ORDER BY.
TopAnyOrder(rows, n, key) ==
    {S \in SUBSET rows : Cardinality(S) = IF Cardinality(rows) < n THEN Cardinality(rows) ELSE n}

\* ORDER BY key DESC LIMIT n: the possible answers, as sets; ties go either way.
Top(rows, n, key) ==
    {S \in TopAnyOrder(rows, n, key) : \A x \in S, y \in rows \ S : key[x] >= key[y]}

\* get_feed_for_user: (me)-[:FOLLOWS]->(author)-[:WROTE]->(r)-[:ABOUT]->(i), ordered by
\* r.created_at.  A row has its three relationships.
FeedRows(me) ==
    {row \in Edges(follows) \X Edges(wrote) \X Edges(about) :
        /\ row[1][1] = me
        /\ row[2][1] = row[1][2]
        /\ row[3][1] = row[2][2]}
GetFeed(me) == Top(FeedRows(me), FeedLimit, [row \in FeedRows(me) |-> At[row[2][2]]])

\* get_user_reviews: (u)-[:WROTE]->(r)-[:ABOUT]->(i).
UserRows(u) == {row \in Edges(wrote) \X Edges(about) : row[1][1] = u /\ row[2][1] = row[1][2]}
GetUserReviews(u) ==
    Top(UserRows(u), FeedLimit, [row \in UserRows(u) |-> At[row[1][2]]])

\* get_recommendations: (me)-[:REVIEWED]->(item)<-[:REVIEWED]-(other)-[:REVIEWED]->(rec),
\* where no relationship is used twice, and WHERE NOT (me)-[:REVIEWED]->(rec).
Reuses(row) == row[1] = row[2] \/ row[2] = row[3]
AnyItem(me, j) == TRUE                                               \* mistake
NotReviewed(me, j) == reviewed[<<me, j>>] = 0
RecRows(me) ==
    {row \in Edges(reviewed) \X Edges(reviewed) \X Edges(reviewed) :
        /\ row[1][1] = me /\ row[2][2] = row[1][2] /\ row[3][1] = row[2][1]
        /\ ~Reuses(row)
        /\ NotReviewed(me, row[3][2])}
RecItems(me) == {row[3][2] : row \in RecRows(me)}
RecScore(me, j) == Cardinality({row \in RecRows(me) : row[3][2] = j})
GetRecommendations(me) == Top(RecItems(me), RecLimit, [j \in RecItems(me) |-> RecScore(me, j)])

----------------------------------------------------------------------------
\* The types say also that no two nodes are related twice in the same way.
TypeOK ==
    /\ stored \subseteq Reviews
    /\ follows \in [Users \X Users -> 0..1]
    /\ wrote \in [Users \X Reviews -> 0..1]
    /\ about \in [Reviews \X Items -> 0..1]
    /\ reviewed \in [Users \X Items -> 0..1]

\* The graph as SocialView sees it.
View == INSTANCE SocialView WITH
            delivered <- {v \in Reviews : wrote[<<Author[v], v>>] > 0},
            followed <- {p \in Users \X Users : follows[p] > 0}

\* However often and in whatever order events and follows are merged, the graph is
\* what SocialView says, step by step: nothing but the set of them counts.
ImplementsView == View!Spec

\* The feed shows the newest reviews of the users one follows, and each of them once
\* however often its event came; and a user's own page likewise.
FeedIsNewest ==
    \A me \in Users :
        /\ \A S \in GetFeed(me) : LET shown == {row[2][2] : row \in S} IN
              Cardinality(shown) = Cardinality(S) /\ View!IsNewest(View!Due(me), shown)
        /\ \A S \in GetUserReviews(me) : LET shown == {row[1][2] : row \in S} IN
              Cardinality(shown) = Cardinality(S) /\ View!IsNewest(View!By(me), shown)

ScoreCountsUsers(me, j) == RecScore(me, j) = Cardinality(View!Recommenders(me, j))

\* The items recommended are those SocialView defines, whatever the order and the number
\* of deliveries.  They are ranked by pairs, of another user and an item shared with that
\* user (count(*)).  The page shows this as "Recommended by {score} users who share your
\* taste" (frontend/app.py:1061): that is true only where nobody shares two items.
RecommendationsAreShared ==
    \A me \in Users :
        /\ RecItems(me) = View!Candidates(me)
        /\ \A j \in RecItems(me) : RecScore(me, j) = View!Score(me, j)
        /\ \A j \in RecItems(me) : ScoreCountsUsers(me, j) <=> View!EachSharesOne(me, j)
        /\ \A S \in GetRecommendations(me) : \A j \in S, k \in RecItems(me) \ S :
              View!Score(me, j) >= View!Score(me, k) /\ Cardinality(S) = RecLimit

\* Nobody is recommended what they have reviewed, except while the event of that
\* review is still under way.
OwnOnlyWhilePending ==
    \A me \in Users : \A v \in stored :
        Author[v] = me /\ Item[v] \in RecItems(me) => wrote[<<me, v>>] = 0
=============================================================================
