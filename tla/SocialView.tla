----------------------------- MODULE SocialView -----------------------------
(***************************************************************************)
(* What the feed service promises, without a graph: the reviews that were  *)
(* delivered and who follows whom decide, alone, what everybody is shown.  *)
(***************************************************************************)
EXTENDS Integers, FiniteSets

CONSTANTS Users, Items, Reviews, Author, Item, At, FeedLimit

VARIABLES
    stored,         \* reviews in the reviews service
    delivered,      \* reviews whose event has reached the feed
    followed        \* pairs <<follower, following>>

vars == <<stored, delivered, followed>>

Init == stored = {} /\ delivered = {} /\ followed = {}

Store(v) == stored' = stored \cup {v} /\ UNCHANGED <<delivered, followed>>

Deliver(v) ==
    /\ v \in stored
    /\ delivered' = delivered \cup {v}
    /\ UNCHANGED <<stored, followed>>

Follow(u, w) == followed' = followed \cup {<<u, w>>} /\ UNCHANGED <<stored, delivered>>

Next ==
    \/ \E v \in Reviews : Store(v) \/ Deliver(v)
    \/ \E u, w \in Users : Follow(u, w)

Spec == Init /\ [][Next]_vars

----------------------------------------------------------------------------
\* The feed of a user has reviews of the users they follow, a user's page has their
\* own.  One is missing only when FeedLimit others at least as new are shown.
Due(me) == {v \in delivered : <<me, Author[v]>> \in followed}
By(u) == {v \in delivered : Author[v] = u}
IsNewest(due, shown) ==
    /\ shown \subseteq due
    /\ \A v \in due \ shown : Cardinality({w \in shown : At[w] >= At[v]}) = FeedLimit

\* The items a user has reviewed, and who shares one of them.
Taste(u) == {Item[v] : v \in By(u)}

\* An item is recommended by others who share an item with the user, each of them as
\* often as they share one.
Recommenders(me, j) == {u \in Users \ {me} : j \in Taste(u) /\ Taste(u) \cap Taste(me) # {}}
Score(me, j) ==
    Cardinality({p \in Recommenders(me, j) \X Items : p[2] \in Taste(p[1]) \cap Taste(me)})
EachSharesOne(me, j) ==
    \A u \in Recommenders(me, j) : \A i, k \in Taste(u) \cap Taste(me) : i = k
Candidates(me) == {j \in Items \ Taste(me) : Recommenders(me, j) # {}}
=============================================================================
