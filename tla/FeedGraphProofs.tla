-------------------------- MODULE FeedGraphProofs --------------------------
(***************************************************************************)
(* Proofs about FeedGraph, for any users, items, reviews and limits: MERGE *)
(* keeps every relationship single, so the graph is SocialView's, and the  *)
(* three queries answer what SocialView defines.  A row of a query stands  *)
(* for one review, or for one shared item of one user: the counts follow   *)
(* from these bijections.                                                  *)
(***************************************************************************)
EXTENDS FeedGraph, FiniteSetTheorems, FunctionTheorems, TLAPS

\* wrote, about and reviewed say the same of a review whose event was merged, and
\* only those have one.
Merged(v) == wrote[<<Author[v], v>>] = 1

GraphInv ==
    /\ TypeOK
    /\ IsFiniteSet(stored)
    /\ \A u \in Users, v \in Reviews : wrote[<<u, v>>] = 1 => u = Author[v] /\ v \in stored
    /\ \A v \in Reviews, i \in Items : about[<<v, i>>] = 1 <=> i = Item[v] /\ Merged(v)
    /\ \A u \in Users, i \in Items :
          reviewed[<<u, i>>] = 1 <=> \E v \in Reviews : u = Author[v] /\ i = Item[v] /\ Merged(v)

USE WorkloadAssumption

----------------------------------------------------------------------------
(* The invariant.                                                          *)

LEMMA GraphInitially == Init => GraphInv
<1> SUFFICES ASSUME Init PROVE GraphInv
  OBVIOUS
<1>1. TypeOK
  BY DEF Init, TypeOK
<1>2. IsFiniteSet(stored)
  BY FS_EmptySet DEF Init
<1>3. /\ \A u \in Users, v \in Reviews : wrote[<<u, v>>] = 0
      /\ \A v \in Reviews, i \in Items : about[<<v, i>>] = 0
      /\ \A u \in Users, i \in Items : reviewed[<<u, i>>] = 0
  BY DEF Init
<1>4. \A v \in Reviews : ~Merged(v)
  BY <1>3 DEF Merged
<1> QED BY <1>1, <1>2, <1>3, <1>4 DEF GraphInv

LEMMA SaveKeepsGraph ==
    ASSUME GraphInv, NEW v \in Reviews, SaveReview(v) PROVE GraphInv'
<1> DEFINE a == Author[v]  i == Item[v]
<1>0. /\ a \in Users /\ i \in Items /\ v \in stored
      /\ wrote \in [Users \X Reviews -> 0..1] /\ about \in [Reviews \X Items -> 0..1]
      /\ reviewed \in [Users \X Items -> 0..1]
  BY DEF SaveReview, GraphInv, TypeOK
<1>1. /\ wrote' \in [Users \X Reviews -> 0..1]
      /\ \A x \in Users, y \in Reviews : wrote'[<<x, y>>] = 1 <=> wrote[<<x, y>>] = 1 \/ (x = a /\ y = v)
  <2>1. wrote' = Merge(wrote, a, v)
    BY DEF SaveReview
  <2>2. Merge(wrote, a, v) \in [Users \X Reviews -> 0..1]
    BY <1>0 DEF Merge
  <2>3. \A x \in Users, y \in Reviews :
            Merge(wrote, a, v)[<<x, y>>] = 1 <=> wrote[<<x, y>>] = 1 \/ (x = a /\ y = v)
    BY <1>0 DEF Merge
  <2> QED BY <2>1, <2>2, <2>3
<1>2. /\ about' \in [Reviews \X Items -> 0..1]
      /\ \A x \in Reviews, y \in Items : about'[<<x, y>>] = 1 <=> about[<<x, y>>] = 1 \/ (x = v /\ y = i)
  <2>1. about' = Merge(about, v, i)
    BY DEF SaveReview
  <2>2. Merge(about, v, i) \in [Reviews \X Items -> 0..1]
    BY <1>0 DEF Merge
  <2>3. \A x \in Reviews, y \in Items :
            Merge(about, v, i)[<<x, y>>] = 1 <=> about[<<x, y>>] = 1 \/ (x = v /\ y = i)
    BY <1>0 DEF Merge
  <2> QED BY <2>1, <2>2, <2>3
<1>3. /\ reviewed' \in [Users \X Items -> 0..1]
      /\ \A x \in Users, y \in Items : reviewed'[<<x, y>>] = 1 <=> reviewed[<<x, y>>] = 1 \/ (x = a /\ y = i)
  <2>1. reviewed' = Merge(reviewed, a, i)
    BY DEF SaveReview
  <2>2. Merge(reviewed, a, i) \in [Users \X Items -> 0..1]
    BY <1>0 DEF Merge
  <2>3. \A x \in Users, y \in Items :
            Merge(reviewed, a, i)[<<x, y>>] = 1 <=> reviewed[<<x, y>>] = 1 \/ (x = a /\ y = i)
    BY <1>0 DEF Merge
  <2> QED BY <2>1, <2>2, <2>3
<1>4. \A w \in Reviews : Merged(w)' <=> Merged(w) \/ w = v
  <2> SUFFICES ASSUME NEW w \in Reviews PROVE Merged(w)' <=> Merged(w) \/ w = v
    OBVIOUS
  <2>1. Author[w] \in Users
    OBVIOUS
  <2>2. wrote'[<<Author[w], w>>] = 1 <=> wrote[<<Author[w], w>>] = 1 \/ (Author[w] = a /\ w = v)
    BY <1>1, <2>1
  <2> QED BY <2>2 DEF Merged
<1>5. TypeOK' /\ IsFiniteSet(stored')
  BY <1>1, <1>2, <1>3 DEF SaveReview, GraphInv, TypeOK
<1>6. \A u \in Users, w \in Reviews : wrote'[<<u, w>>] = 1 => u = Author[w] /\ w \in stored'
  BY <1>0, <1>1 DEF SaveReview, GraphInv
<1>7. \A w \in Reviews, j \in Items : about'[<<w, j>>] = 1 <=> j = Item[w] /\ Merged(w)'
  <2> SUFFICES ASSUME NEW w \in Reviews, NEW j \in Items
               PROVE  about'[<<w, j>>] = 1 <=> j = Item[w] /\ Merged(w)'
    OBVIOUS
  <2>1. about'[<<w, j>>] = 1 <=> about[<<w, j>>] = 1 \/ (w = v /\ j = i)
    BY <1>2
  <2>2. about[<<w, j>>] = 1 <=> j = Item[w] /\ Merged(w)
    BY DEF GraphInv
  <2> QED BY <1>4, <2>1, <2>2
<1>8. \A u \in Users, j \in Items :
          reviewed'[<<u, j>>] = 1 <=> \E w \in Reviews : u = Author[w] /\ j = Item[w] /\ Merged(w)'
  <2> SUFFICES ASSUME NEW u \in Users, NEW j \in Items
               PROVE  reviewed'[<<u, j>>] = 1
                         <=> \E w \in Reviews : u = Author[w] /\ j = Item[w] /\ Merged(w)'
    OBVIOUS
  <2>1. reviewed'[<<u, j>>] = 1 <=> reviewed[<<u, j>>] = 1 \/ (u = a /\ j = i)
    BY <1>3
  <2>2. reviewed[<<u, j>>] = 1 <=> \E w \in Reviews : u = Author[w] /\ j = Item[w] /\ Merged(w)
    BY DEF GraphInv
  <2> QED BY <1>4, <2>1, <2>2
<1> QED BY <1>5, <1>6, <1>7, <1>8 DEF GraphInv

LEMMA Inductive == GraphInv /\ [Next]_vars => GraphInv'
<1> SUFFICES ASSUME GraphInv, [Next]_vars PROVE GraphInv'
  OBVIOUS
<1>1. ASSUME NEW v \in Reviews, Store(v) PROVE GraphInv'
  <2>1. IsFiniteSet(stored')
    BY <1>1, FS_AddElement DEF GraphInv, Store
  <2>2. TypeOK'
    BY <1>1 DEF GraphInv, Store, graph, TypeOK
  <2>3. UNCHANGED <<wrote, about, reviewed>> /\ stored \subseteq stored'
    BY <1>1 DEF Store, graph
  <2> QED BY <2>1, <2>2, <2>3 DEF GraphInv, Merged
<1>2. ASSUME NEW v \in Reviews, SaveReview(v) PROVE GraphInv'
  BY <1>2, SaveKeepsGraph
<1>3. ASSUME NEW p \in Follows, FollowUser(p) PROVE GraphInv'
  <2>1. p[1] \in Users /\ p[2] \in Users
    OBVIOUS
  <2>2. TypeOK'
    BY <1>3, <2>1 DEF GraphInv, FollowUser, Merge, TypeOK
  <2> QED BY <1>3, <2>2 DEF GraphInv, FollowUser, Merged
<1>4. CASE UNCHANGED vars
  <2>1. UNCHANGED <<stored, follows, wrote, about, reviewed>>
    BY <1>4 DEF vars, graph
  <2>2. TypeOK'
    BY <2>1 DEF GraphInv, TypeOK
  <2> QED BY <2>1, <2>2 DEF GraphInv, Merged
<1> QED BY <1>1, <1>2, <1>3, <1>4 DEF Next

THEOREM Invariance == Spec => []GraphInv
  BY GraphInitially, Inductive, PTL DEF Spec

\* No two nodes are ever related twice in the same way, however often an event or
\* a follow is repeated (the MERGE statements of save_review_event and follow_user).
THEOREM TypeSafety == Spec => []TypeOK
<1>1. GraphInv => TypeOK
  BY DEF GraphInv
<1> QED BY <1>1, Invariance, PTL

----------------------------------------------------------------------------
(* The refinement.                                                         *)

Delivered == {v \in Reviews : wrote[<<Author[v], v>>] > 0}
Followed == {p \in Users \X Users : follows[p] > 0}

OneMeansAny ==
    /\ Delivered = {v \in Reviews : Merged(v)}
    /\ Followed = {p \in Users \X Users : follows[p] = 1}

LEMMA ViewState == GraphInv => OneMeansAny
<1> SUFFICES ASSUME GraphInv
             PROVE  /\ \A v \in Reviews : wrote[<<Author[v], v>>] > 0 <=> Merged(v)
                    /\ \A p \in Users \X Users : follows[p] > 0 <=> follows[p] = 1
  BY DEF Delivered, Followed, OneMeansAny
<1> QED BY DEF GraphInv, TypeOK, Merged

LEMMA StepOfView == GraphInv /\ GraphInv' /\ [Next]_vars => [View!Next]_(View!vars)
<1> SUFFICES ASSUME GraphInv, GraphInv', [Next]_vars PROVE [View!Next]_(View!vars)
  OBVIOUS
<1>0. OneMeansAny /\ OneMeansAny'
  BY ViewState, PTL
<1>1. ASSUME NEW v \in Reviews, Store(v) PROVE View!Store(v)
  <2>1. stored' = stored \cup {v} /\ wrote' = wrote /\ follows' = follows
    BY <1>1 DEF Store, graph
  <2> QED BY <2>1 DEF View!Store
<1>2. ASSUME NEW v \in Reviews, SaveReview(v) PROVE View!Deliver(v)
  <2>1. /\ v \in stored /\ stored' = stored /\ follows' = follows
        /\ wrote' = Merge(wrote, Author[v], v)
    BY <1>2 DEF SaveReview
  <2>2. \A w \in Reviews : Merged(w)' <=> Merged(w) \/ w = v
    BY <2>1 DEF Merge, Merged, GraphInv, TypeOK
  <2>3. Delivered' = Delivered \cup {v}
    BY <1>0, <2>2 DEF OneMeansAny
  <2> QED BY <2>1, <2>3 DEF View!Deliver, Delivered
<1>3. ASSUME NEW p \in Follows, FollowUser(p) PROVE View!Follow(p[1], p[2])
  <2>1. /\ p \in Users \X Users /\ p = <<p[1], p[2]>>
        /\ stored' = stored /\ wrote' = wrote /\ follows' = Merge(follows, p[1], p[2])
    BY <1>3 DEF FollowUser
  <2>2. \A q \in Users \X Users : follows'[q] = 1 <=> follows[q] = 1 \/ q = p
    BY <2>1 DEF Merge, GraphInv, TypeOK
  <2>3. Followed' = Followed \cup {p}
    BY <1>0, <2>1, <2>2 DEF OneMeansAny
  <2> QED BY <2>1, <2>3 DEF View!Follow, Followed
<1>4. CASE UNCHANGED vars
  BY <1>4 DEF vars, graph, View!vars
<1>5. ASSUME NEW p \in Follows PROVE p[1] \in Users /\ p[2] \in Users
  OBVIOUS
<1> QED BY <1>1, <1>2, <1>3, <1>4, <1>5 DEF Next, View!Next

\* However often and in whatever order events and follows are merged, the graph is
\* what SocialView says: nothing but the set of them counts.
THEOREM GraphIsView == Spec => ImplementsView
<1>1. Init => View!Init
  BY DEF Init, View!Init
<1> QED BY <1>1, Invariance, StepOfView, PTL DEF Spec, View!Spec, ImplementsView

----------------------------------------------------------------------------
(* Rows.                                                                   *)

\* A relationship type that relates no two nodes twice.
Single(rel, A, B) == rel \in [A \X B -> 0..1]
Related(rel, a, b) == rel[<<a, b>>] = 1
Edge(a, b) == <<a, b, 1>>

LEMMA EdgesFacts ==
    ASSUME NEW A, NEW B, NEW rel, Single(rel, A, B)
    PROVE  \A e : e \in Edges(rel) <=> \E a \in A, b \in B : Related(rel, a, b) /\ e = Edge(a, b)
<1> SUFFICES ASSUME NEW e
             PROVE  e \in Edges(rel) <=> \E a \in A, b \in B : Related(rel, a, b) /\ e = Edge(a, b)
  OBVIOUS
<1>0. rel \in [A \X B -> 0..1]
  BY DEF Single
<1>1. ASSUME e \in Edges(rel) PROVE \E a \in A, b \in B : Related(rel, a, b) /\ e = Edge(a, b)
  <2>1. PICK q \in (A \X B) \X (1..2) : q[2] <= rel[q[1]] /\ e = <<q[1][1], q[1][2], q[2]>>
    BY <1>0, <1>1 DEF Edges
  <2>2. /\ q[1][1] \in A /\ q[1][2] \in B /\ q[1] = <<q[1][1], q[1][2]>>
        /\ rel[q[1]] \in 0..1 /\ q[2] \in 1..2
    BY <1>0
  <2>3. q[2] = 1 /\ rel[q[1]] = 1
    BY <2>1, <2>2
  <2> QED BY <2>1, <2>2, <2>3 DEF Related, Edge
<1>2. ASSUME NEW a \in A, NEW b \in B, Related(rel, a, b), e = Edge(a, b) PROVE e \in Edges(rel)
  <2> DEFINE q == <<<<a, b>>, 1>>
  <2>1. q \in (DOMAIN rel) \X (1..2) /\ q[2] <= rel[q[1]] /\ e = <<q[1][1], q[1][2], q[2]>>
    BY <1>0, <1>2 DEF Related, Edge
  <2> QED BY <2>1 DEF Edges
<1> QED BY <1>1, <1>2

\* The rows of the two lists of reviews, and what they stand for.
FeedRow(me, v) == <<<<me, Author[v], 1>>, <<Author[v], v, 1>>, <<v, Item[v], 1>>>>
UserRow(v) == <<<<Author[v], v, 1>>, <<v, Item[v], 1>>>>

LEMMA DueFacts ==
    ASSUME GraphInv, NEW me \in Users, NEW v
    PROVE  /\ v \in View!Due(me) <=> v \in Reviews /\ Merged(v) /\ follows[<<me, Author[v]>>] = 1
           /\ v \in View!By(me) <=> v \in Reviews /\ Merged(v) /\ Author[v] = me
<1>1. /\ View!Due(me) = {w \in Delivered : <<me, Author[w]>> \in Followed}
      /\ View!By(me) = {w \in Delivered : Author[w] = me}
  BY DEF View!Due, View!By, Delivered, Followed
<1>2. \A w \in Reviews : <<me, Author[w]>> \in Users \X Users
  OBVIOUS
<1> QED BY <1>1, <1>2, ViewState DEF OneMeansAny

LEMMA WroteFacts ==
    ASSUME GraphInv, NEW u \in Users, NEW v \in Reviews
    PROVE  wrote[<<u, v>>] = 1 <=> u = Author[v] /\ Merged(v)
  BY DEF GraphInv, Merged

LEMMA RelationFacts ==
    ASSUME GraphInv
    PROVE  /\ \A e : e \in Edges(follows) <=>
                       \E u \in Users, w \in Users : Related(follows, u, w) /\ e = Edge(u, w)
           /\ \A e : e \in Edges(wrote) <=>
                       \E u \in Users, v \in Reviews : Related(wrote, u, v) /\ e = Edge(u, v)
           /\ \A e : e \in Edges(about) <=>
                       \E v \in Reviews, i \in Items : Related(about, v, i) /\ e = Edge(v, i)
           /\ \A e : e \in Edges(reviewed) <=>
                       \E u \in Users, i \in Items : Related(reviewed, u, i) /\ e = Edge(u, i)
<1>1. /\ Single(follows, Users, Users) /\ Single(wrote, Users, Reviews)
      /\ Single(about, Reviews, Items) /\ Single(reviewed, Users, Items)
  BY DEF GraphInv, TypeOK, Single
<1>2. \A e : e \in Edges(follows) <=>
               \E u \in Users, w \in Users : Related(follows, u, w) /\ e = Edge(u, w)
  BY <1>1, EdgesFacts
<1>3. \A e : e \in Edges(wrote) <=>
               \E u \in Users, v \in Reviews : Related(wrote, u, v) /\ e = Edge(u, v)
  BY <1>1, EdgesFacts
<1>4. \A e : e \in Edges(about) <=>
               \E v \in Reviews, i \in Items : Related(about, v, i) /\ e = Edge(v, i)
  BY <1>1, EdgesFacts
<1>5. \A e : e \in Edges(reviewed) <=>
               \E u \in Users, i \in Items : Related(reviewed, u, i) /\ e = Edge(u, i)
  BY <1>1, EdgesFacts
<1> QED BY <1>2, <1>3, <1>4, <1>5

LEMMA FeedRowsFacts ==
    ASSUME GraphInv, NEW me \in Users, NEW row
    PROVE  row \in FeedRows(me) <=> \E v \in View!Due(me) : row = FeedRow(me, v)
<1>1. ASSUME row \in FeedRows(me) PROVE \E v \in View!Due(me) : row = FeedRow(me, v)
  <2>1. /\ row = <<row[1], row[2], row[3]>>
        /\ row[1] \in Edges(follows) /\ row[2] \in Edges(wrote) /\ row[3] \in Edges(about)
        /\ row[1][1] = me /\ row[2][1] = row[1][2] /\ row[3][1] = row[2][2]
    BY <1>1 DEF FeedRows
  <2>2. PICK u1 \in Users, w1 \in Users : Related(follows, u1, w1) /\ row[1] = Edge(u1, w1)
    BY <2>1, RelationFacts
  <2>3. PICK u2 \in Users, v2 \in Reviews : Related(wrote, u2, v2) /\ row[2] = Edge(u2, v2)
    BY <2>1, RelationFacts
  <2>4. PICK v3 \in Reviews, i3 \in Items : Related(about, v3, i3) /\ row[3] = Edge(v3, i3)
    BY <2>1, RelationFacts
  <2>5. u1 = me /\ w1 = u2 /\ v2 = v3
    BY <2>1, <2>2, <2>3, <2>4 DEF Edge
  <2>6. u2 = Author[v2] /\ Merged(v2)
    BY <2>3, WroteFacts DEF Related
  <2>7. i3 = Item[v2]
    BY <2>4, <2>5 DEF GraphInv, Related
  <2>8. v2 \in View!Due(me)
    BY <2>2, <2>5, <2>6, DueFacts DEF Related
  <2>9. row = FeedRow(me, v2)
    BY <2>1, <2>2, <2>3, <2>4, <2>5, <2>6, <2>7 DEF FeedRow, Edge
  <2> QED BY <2>8, <2>9
<1>2. ASSUME NEW v \in View!Due(me), row = FeedRow(me, v) PROVE row \in FeedRows(me)
  <2>1. v \in Reviews /\ Merged(v) /\ follows[<<me, Author[v]>>] = 1
    BY DueFacts
  <2>2. /\ Author[v] \in Users /\ Item[v] \in Items
        /\ wrote[<<Author[v], v>>] = 1 /\ about[<<v, Item[v]>>] = 1
    BY <2>1 DEF GraphInv, Merged
  <2>3. /\ <<me, Author[v], 1>> \in Edges(follows)
        /\ <<Author[v], v, 1>> \in Edges(wrote)
        /\ <<v, Item[v], 1>> \in Edges(about)
    BY <2>1, <2>2, RelationFacts DEF Related, Edge
  <2> QED BY <1>2, <2>3 DEF FeedRows, FeedRow
<1> QED BY <1>1, <1>2

LEMMA UserRowsFacts ==
    ASSUME GraphInv, NEW u \in Users, NEW row
    PROVE  row \in UserRows(u) <=> \E v \in View!By(u) : row = UserRow(v)
<1>1. ASSUME row \in UserRows(u) PROVE \E v \in View!By(u) : row = UserRow(v)
  <2>1. /\ row = <<row[1], row[2]>>
        /\ row[1] \in Edges(wrote) /\ row[2] \in Edges(about)
        /\ row[1][1] = u /\ row[2][1] = row[1][2]
    BY <1>1 DEF UserRows
  <2>2. PICK u1 \in Users, v1 \in Reviews : Related(wrote, u1, v1) /\ row[1] = Edge(u1, v1)
    BY <2>1, RelationFacts
  <2>3. PICK v2 \in Reviews, i2 \in Items : Related(about, v2, i2) /\ row[2] = Edge(v2, i2)
    BY <2>1, RelationFacts
  <2>4. u1 = u /\ v2 = v1
    BY <2>1, <2>2, <2>3 DEF Edge
  <2>5. u = Author[v1] /\ Merged(v1)
    BY <2>2, <2>4, WroteFacts DEF Related
  <2>6. i2 = Item[v1]
    BY <2>3, <2>4 DEF GraphInv, Related
  <2>7. v1 \in View!By(u)
    BY <2>5, DueFacts
  <2>8. row = UserRow(v1)
    BY <2>1, <2>2, <2>3, <2>4, <2>5, <2>6 DEF UserRow, Edge
  <2> QED BY <2>7, <2>8
<1>2. ASSUME NEW v \in View!By(u), row = UserRow(v) PROVE row \in UserRows(u)
  <2>1. v \in Reviews /\ Merged(v) /\ Author[v] = u
    BY DueFacts
  <2>2. Item[v] \in Items /\ wrote[<<u, v>>] = 1 /\ about[<<v, Item[v]>>] = 1
    BY <2>1 DEF GraphInv, Merged
  <2>3. <<u, v, 1>> \in Edges(wrote) /\ <<v, Item[v], 1>> \in Edges(about)
    BY <2>1, <2>2, RelationFacts DEF Related, Edge
  <2> QED BY <1>2, <2>1, <2>3 DEF UserRows, UserRow
<1> QED BY <1>1, <1>2

----------------------------------------------------------------------------
(* The newest reviews.                                                     *)

\* SocialView counts as FeedGraph does.
LEMMA SameCardinality == \A S : View!Cardinality(S) = Cardinality(S)
  BY DEF View!Cardinality, Cardinality, View!IsFiniteSet, IsFiniteSet

\* The answer stands for reviews, one for one; a review that is due and not shown has
\* FeedLimit others before it.
LEMMA TopIsNewest ==
    ASSUME NEW D \in SUBSET Reviews, IsFiniteSet(D),
           NEW R, NEW f \in Bijection(D, R),
           NEW key, \A v \in D : key[f[v]] = At[v],
           NEW S \in Top(R, FeedLimit, key)
    PROVE  LET shown == {v \in D : f[v] \in S} IN
              Cardinality(shown) = Cardinality(S) /\ View!IsNewest(D, shown)
<1> DEFINE shown == {v \in D : f[v] \in S}
<1>1. /\ S \in SUBSET R
      /\ Cardinality(S) = IF Cardinality(R) < FeedLimit THEN Cardinality(R) ELSE FeedLimit
      /\ \A x \in S, y \in R \ S : key[x] >= key[y]
  BY DEF Top, TopAnyOrder
<1>2. IsFiniteSet(R)
  BY FS_Bijection DEF ExistsBijection
<1>3. /\ f \in [D -> R]
      /\ \A v, w \in D : f[v] = f[w] => v = w
      /\ \A y \in R : \E v \in D : f[v] = y
  BY Fun_BijectionProperties
<1>4. IsFiniteSet(shown) /\ ExistsBijection(shown, S)
  <2> DEFINE g == [v \in shown |-> f[v]]
  <2>1. g \in [shown -> S] /\ \A v, w \in shown : g[v] = g[w] => v = w
    BY <1>3
  <2>2. \A y \in S : \E v \in shown : g[v] = y
    BY <1>1, <1>3
  <2>3. g \in Bijection(shown, S)
    BY <2>1, <2>2, Fun_IsBij
  <2>4. shown \in SUBSET D
    OBVIOUS
  <2> QED BY <2>3, <2>4, FS_Subset DEF ExistsBijection
<1>5. Cardinality(shown) = Cardinality(S)
  BY <1>4, FS_Bijection
<1>6. ASSUME NEW v \in D \ shown
      PROVE  Cardinality({w \in shown : At[w] >= At[v]}) = FeedLimit
  <2>1. f[v] \in R \ S
    BY <1>3
  <2>2. Cardinality(S) # Cardinality(R)
    BY <1>1, <1>2, <2>1, FS_Subset
  <2>3. \A w \in shown : At[w] >= At[v]
    BY <1>1, <2>1
  <2>4. {w \in shown : At[w] >= At[v]} = shown
    BY <2>3
  <2> QED BY <1>1, <1>5, <2>2, <2>4
<1> QED BY <1>5, <1>6, SameCardinality DEF View!IsNewest

LEMMA DueIsFinite ==
    ASSUME GraphInv, NEW me \in Users
    PROVE  /\ View!Due(me) \in SUBSET Reviews /\ IsFiniteSet(View!Due(me))
           /\ View!By(me) \in SUBSET Reviews /\ IsFiniteSet(View!By(me))
<1>1. \A v \in Reviews : Merged(v) => v \in stored
  BY DEF GraphInv, Merged
<1>2. View!Due(me) \in SUBSET stored /\ View!By(me) \in SUBSET stored
  BY <1>1, DueFacts
<1>3. IsFiniteSet(stored) /\ stored \subseteq Reviews
  BY DEF GraphInv, TypeOK
<1> QED BY <1>2, <1>3, FS_Subset

LEMMA FeedOfOne ==
    ASSUME GraphInv, NEW me \in Users, NEW S \in GetFeed(me)
    PROVE  LET shown == {row[2][2] : row \in S} IN
              Cardinality(shown) = Cardinality(S) /\ View!IsNewest(View!Due(me), shown)
<1> DEFINE D == View!Due(me)
           R == FeedRows(me)
           f == [v \in D |-> FeedRow(me, v)]
           key == [row \in R |-> At[row[2][2]]]
<1>1. \A v \in D : FeedRow(me, v) \in R /\ FeedRow(me, v)[2][2] = v
  <2>1. \A v \in D : FeedRow(me, v) \in R
    BY FeedRowsFacts
  <2>2. \A v \in D : FeedRow(me, v)[2][2] = v
    BY DEF FeedRow
  <2> QED BY <2>1, <2>2
<1>2. f \in [D -> R] /\ \A v, w \in D : f[v] = f[w] => v = w
  BY <1>1
<1>3. \A row \in R : \E v \in D : f[v] = row
  BY FeedRowsFacts
<1>4. f \in Bijection(D, R)
  BY <1>2, <1>3, Fun_IsBij
<1>5. \A v \in D : key[f[v]] = At[v]
  BY <1>1
<1>6. S \in Top(R, FeedLimit, key)
  BY DEF GetFeed
<1>7. S \subseteq R
  BY <1>6 DEF Top, TopAnyOrder
<1>8. {v \in D : f[v] \in S} = {row[2][2] : row \in S}
  BY <1>1, <1>3, <1>7
<1>9. LET shown == {v \in D : f[v] \in S} IN
        Cardinality(shown) = Cardinality(S) /\ View!IsNewest(D, shown)
  <2> HIDE DEF D, R, f, key
  <2>1. D \in SUBSET Reviews /\ IsFiniteSet(D)
    BY DueIsFinite DEF D
  <2> QED BY <1>4, <1>5, <1>6, <2>1, TopIsNewest
<1> QED BY <1>8, <1>9

LEMMA UserPageOfOne ==
    ASSUME GraphInv, NEW u \in Users, NEW S \in GetUserReviews(u)
    PROVE  LET shown == {row[1][2] : row \in S} IN
              Cardinality(shown) = Cardinality(S) /\ View!IsNewest(View!By(u), shown)
<1> DEFINE D == View!By(u)
           R == UserRows(u)
           f == [v \in D |-> UserRow(v)]
           key == [row \in R |-> At[row[1][2]]]
<1>1. \A v \in D : UserRow(v) \in R /\ UserRow(v)[1][2] = v
  <2>1. \A v \in D : UserRow(v) \in R
    BY UserRowsFacts
  <2>2. \A v \in D : UserRow(v)[1][2] = v
    BY DEF UserRow
  <2> QED BY <2>1, <2>2
<1>2. f \in [D -> R] /\ \A v, w \in D : f[v] = f[w] => v = w
  BY <1>1
<1>3. \A row \in R : \E v \in D : f[v] = row
  BY UserRowsFacts
<1>4. f \in Bijection(D, R)
  BY <1>2, <1>3, Fun_IsBij
<1>5. \A v \in D : key[f[v]] = At[v]
  BY <1>1
<1>6. S \in Top(R, FeedLimit, key)
  BY DEF GetUserReviews
<1>7. S \subseteq R
  BY <1>6 DEF Top, TopAnyOrder
<1>8. {v \in D : f[v] \in S} = {row[1][2] : row \in S}
  BY <1>1, <1>3, <1>7
<1>9. LET shown == {v \in D : f[v] \in S} IN
        Cardinality(shown) = Cardinality(S) /\ View!IsNewest(D, shown)
  <2> HIDE DEF D, R, f, key
  <2>1. D \in SUBSET Reviews /\ IsFiniteSet(D)
    BY DueIsFinite DEF D
  <2> QED BY <1>4, <1>5, <1>6, <2>1, TopIsNewest
<1> QED BY <1>8, <1>9

\* The feed and a user's own page show the newest reviews that are due, each once
\* (get_feed_for_user, get_user_reviews).
THEOREM FeedShowsNewest == Spec => []FeedIsNewest
<1>1. GraphInv => FeedIsNewest
  BY FeedOfOne, UserPageOfOne DEF FeedIsNewest
<1> QED BY <1>1, Invariance, PTL

----------------------------------------------------------------------------
(* Recommendations.                                                        *)

LEMMA TasteFacts ==
    ASSUME GraphInv, NEW u \in Users
    PROVE  /\ \A i : i \in View!Taste(u) <=> i \in Items /\ Related(reviewed, u, i)
           /\ \A i \in View!Taste(u) : \E v \in stored : u = Author[v] /\ i = Item[v]
<1>1. \A v : v \in View!By(u) <=> v \in Reviews /\ Merged(v) /\ Author[v] = u
  BY DueFacts
<1>2. \A i \in Items : Related(reviewed, u, i) <=>
          \E v \in Reviews : u = Author[v] /\ i = Item[v] /\ Merged(v)
  BY DEF GraphInv, Related
<1>3. View!Taste(u) = {Item[v] : v \in View!By(u)}
  BY DEF View!Taste, View!By
<1>4. \A v \in Reviews : Merged(v) => v \in stored
  BY DEF GraphInv, Merged
<1> QED BY <1>1, <1>2, <1>3, <1>4

\* Who recommends what, by which shared item.
RecRow(me, u, i, j) == <<<<me, i, 1>>, <<u, i, 1>>, <<u, j, 1>>>>
Shares(me, u, i, j) ==
    /\ u \in Users \ {me}
    /\ i \in View!Taste(u) \cap View!Taste(me)
    /\ j \in View!Taste(u) \ View!Taste(me)

LEMMA RecRowsFacts ==
    ASSUME GraphInv, NEW me \in Users, NEW row
    PROVE  row \in RecRows(me) <=> \E u, i, j : Shares(me, u, i, j) /\ row = RecRow(me, u, i, j)
<1>0. \A u \in Users : \A i : i \in View!Taste(u) <=> i \in Items /\ Related(reviewed, u, i)
  BY TasteFacts
<1>1. ASSUME row \in RecRows(me)
      PROVE  \E u, i, j : Shares(me, u, i, j) /\ row = RecRow(me, u, i, j)
  <2>1. /\ row = <<row[1], row[2], row[3]>>
        /\ row[1] \in Edges(reviewed) /\ row[2] \in Edges(reviewed) /\ row[3] \in Edges(reviewed)
        /\ row[1][1] = me /\ row[2][2] = row[1][2] /\ row[3][1] = row[2][1]
        /\ row[1] # row[2] /\ row[2] # row[3]
        /\ reviewed[<<me, row[3][2]>>] = 0
    BY <1>1 DEF RecRows, Reuses, NotReviewed
  <2>2. PICK u1 \in Users, i1 \in Items : Related(reviewed, u1, i1) /\ row[1] = Edge(u1, i1)
    BY <2>1, RelationFacts
  <2>3. PICK u2 \in Users, i2 \in Items : Related(reviewed, u2, i2) /\ row[2] = Edge(u2, i2)
    BY <2>1, RelationFacts
  <2>4. PICK u3 \in Users, i3 \in Items : Related(reviewed, u3, i3) /\ row[3] = Edge(u3, i3)
    BY <2>1, RelationFacts
  <2>5. u1 = me /\ i2 = i1 /\ u3 = u2 /\ u2 # me
    BY <2>1, <2>2, <2>3, <2>4 DEF Edge
  <2>6. ~Related(reviewed, me, i3)
    BY <2>1, <2>4 DEF Edge, Related
  <2>7. Shares(me, u2, i1, i3)
    BY <1>0, <2>2, <2>3, <2>4, <2>5, <2>6 DEF Shares
  <2>8. row = RecRow(me, u2, i1, i3)
    BY <2>1, <2>2, <2>3, <2>4, <2>5 DEF RecRow, Edge
  <2> QED BY <2>7, <2>8
<1>2. ASSUME NEW u, NEW i, NEW j, Shares(me, u, i, j), row = RecRow(me, u, i, j)
      PROVE  row \in RecRows(me)
  <2>1. /\ u \in Users /\ u # me /\ i \in Items /\ j \in Items /\ i # j
        /\ Related(reviewed, me, i) /\ Related(reviewed, u, i) /\ Related(reviewed, u, j)
        /\ ~Related(reviewed, me, j)
    BY <1>0, <1>2 DEF Shares
  <2>2. Edge(me, i) \in Edges(reviewed) /\ Edge(u, i) \in Edges(reviewed) /\ Edge(u, j) \in Edges(reviewed)
    BY <2>1, RelationFacts
  <2>3. NotReviewed(me, j)
    BY <2>1 DEF NotReviewed, Related, GraphInv, TypeOK
  <2>4. row = <<Edge(me, i), Edge(u, i), Edge(u, j)>>
    BY <1>2 DEF RecRow, Edge
  <2>5. /\ row[1][1] = me /\ row[2][2] = row[1][2] /\ row[3][1] = row[2][1] /\ row[3][2] = j
        /\ row[1] # row[2] /\ row[2] # row[3]
    BY <2>1, <2>4 DEF Edge
  <2> QED BY <2>2, <2>3, <2>4, <2>5 DEF RecRows, Reuses
<1> QED BY <1>1, <1>2

LEMMA RecItemsFacts ==
    ASSUME GraphInv, NEW me \in Users
    PROVE  RecItems(me) = View!Candidates(me)
<1>1. ASSUME NEW j PROVE j \in RecItems(me) <=> \E u, i : Shares(me, u, i, j)
  <2>1. j \in RecItems(me) <=> \E row \in RecRows(me) : j = row[3][2]
    BY DEF RecItems
  <2>2. \A u, i, k : RecRow(me, u, i, k)[3][2] = k
    BY DEF RecRow
  <2> QED BY <2>1, <2>2, RecRowsFacts
<1>2. ASSUME NEW j PROVE j \in View!Candidates(me) <=> \E u, i : Shares(me, u, i, j)
  <2>1. j \in View!Candidates(me) <=>
          /\ j \in Items /\ j \notin View!Taste(me)
          /\ \E u \in Users \ {me} : j \in View!Taste(u) /\ View!Taste(u) \cap View!Taste(me) # {}
    BY DEF View!Candidates, View!Recommenders
  <2>2. \A u \in Users : j \in View!Taste(u) => j \in Items
    BY TasteFacts
  <2> QED BY <2>1, <2>2 DEF Shares
<1> QED BY <1>1, <1>2

\* Whatever was reviewed was stored, so it is finite.
LEMMA SharedIsFinite ==
    ASSUME GraphInv
    PROVE  /\ IsFiniteSet({Author[v] : v \in stored})
           /\ IsFiniteSet({Item[v] : v \in stored})
<1> DEFINE As == {Author[v] : v \in stored}
           Is == {Item[v] : v \in stored}
<1>1. IsFiniteSet(stored)
  BY DEF GraphInv
<1>2. [v \in stored |-> Author[v]] \in Surjection(stored, As)
  BY DEF Surjection
<1>3. [v \in stored |-> Item[v]] \in Surjection(stored, Is)
  BY DEF Surjection
<1> QED BY <1>1, <1>2, <1>3, FS_Surjection

LEMMA ScoreFacts ==
    ASSUME GraphInv, NEW me \in Users, NEW j \in RecItems(me)
    PROVE  /\ RecScore(me, j) = View!Score(me, j)
           /\ ScoreCountsUsers(me, j) <=> View!EachSharesOne(me, j)
<1> DEFINE P == {p \in View!Recommenders(me, j) \X Items :
                    p[2] \in View!Taste(p[1]) \cap View!Taste(me)}
           R == {row \in RecRows(me) : row[3][2] = j}
           f == [p \in P |-> RecRow(me, p[1], p[2], j)]
<1>1. j \in Items /\ j \notin View!Taste(me)
  BY RecItemsFacts DEF View!Candidates
<1>2. \A p : p \in P <=> \E u, i : p = <<u, i>> /\ Shares(me, u, i, j)
  <2>1. \A u \in Users : \A i \in View!Taste(u) : i \in Items
    BY TasteFacts
  <2> QED BY <1>1, <2>1 DEF View!Recommenders, Shares
<1>3. \A p \in P : f[p] \in R
  <2>1. \A u, i : Shares(me, u, i, j) => RecRow(me, u, i, j) \in RecRows(me)
    BY RecRowsFacts
  <2>2. \A u, i : RecRow(me, u, i, j)[3][2] = j
    BY DEF RecRow
  <2> QED BY <1>2, <2>1, <2>2
<1>4. \A p, q \in P : f[p] = f[q] => p = q
  <2>1. \A u, i, w, k : RecRow(me, u, i, j) = RecRow(me, w, k, j) => u = w /\ i = k
    BY DEF RecRow
  <2> QED BY <1>2, <2>1
<1>5. \A row \in R : \E p \in P : f[p] = row
  <2>1. \A u, i, k : RecRow(me, u, i, k)[3][2] = k
    BY DEF RecRow
  <2> SUFFICES ASSUME NEW row \in R PROVE \E p \in P : f[p] = row
    OBVIOUS
  <2>2. PICK u, i, k : Shares(me, u, i, k) /\ row = RecRow(me, u, i, k)
    BY RecRowsFacts
  <2>3. k = j
    BY <2>1, <2>2
  <2>4. <<u, i>> \in P
    BY <1>2, <2>2, <2>3
  <2> QED BY <2>2, <2>3, <2>4
<1>6. f \in Bijection(P, R)
  <2>1. f \in [P -> R]
    BY <1>3
  <2> HIDE DEF P, R, f
  <2> QED BY <1>4, <1>5, <2>1, Fun_IsBij
<1>7. IsFiniteSet(P)
  <2> DEFINE As == {Author[v] : v \in stored}
             Is == {Item[v] : v \in stored}
  <2>1. IsFiniteSet(As \X Is)
    BY SharedIsFinite, FS_Product
  <2>2. \A u \in Users : \A i \in View!Taste(u) : u \in As /\ i \in Is
    BY TasteFacts
  <2>3. P \in SUBSET (As \X Is)
    BY <1>2, <2>2 DEF Shares
  <2> QED BY <2>1, <2>3, FS_Subset
<1>8. Cardinality(P) = Cardinality(R)
  <2> HIDE DEF P, R, f
  <2> QED BY <1>6, <1>7, FS_Bijection DEF ExistsBijection
<1>9. View!Score(me, j) = Cardinality(P)
  BY SameCardinality DEF View!Score
<1> DEFINE U == View!Recommenders(me, j)
           g == [p \in P |-> p[1]]
<1>10. \A u \in U : \A i \in View!Taste(u) \cap View!Taste(me) : <<u, i>> \in P
  <2>1. \A u \in Users : \A i \in View!Taste(u) : i \in Items
    BY TasteFacts
  <2> QED BY <2>1 DEF View!Recommenders
<1>11. \A p \in P : /\ p = <<p[1], p[2]>> /\ p[1] \in U
                     /\ p[2] \in View!Taste(p[1]) \cap View!Taste(me)
  OBVIOUS
<1>12. g \in Surjection(P, U)
  <2>1. \A u \in U : View!Taste(u) \cap View!Taste(me) # {}
    BY DEF View!Recommenders
  <2>2. ASSUME NEW u \in U PROVE \E p \in P : g[p] = u
    <3>1. PICK i : i \in View!Taste(u) \cap View!Taste(me)
      BY <2>1
    <3>2. <<u, i>> \in P
      BY <1>10, <3>1
    <3>3. g[<<u, i>>] = u
      BY <3>2
    <3> QED BY <3>2, <3>3
  <2>3. \A u \in U : \E p \in P : g[p] = u
    BY <2>2
  <2>4. g \in [P -> U]
    BY <1>11
  <2> HIDE DEF P, U, g
  <2> QED BY <2>3, <2>4 DEF Surjection
<1>13. Cardinality(U) = Cardinality(P) <=> g \in Injection(P, U)
  <2> HIDE DEF P, U, g
  <2> QED BY <1>7, <1>12, FS_Surjection
<1>14. g \in Injection(P, U) <=> \A p, q \in P : p[1] = q[1] => p = q
  <2>1. g \in [P -> U] /\ \A p \in P : g[p] = p[1]
    BY <1>11
  <2> HIDE DEF P, U, g
  <2> QED BY <2>1 DEF Injection, IsInjective
<1>15. (\A p, q \in P : p[1] = q[1] => p = q) <=> View!EachSharesOne(me, j)
  <2>1. View!EachSharesOne(me, j) <=>
          \A u \in U : \A i, k \in View!Taste(u) \cap View!Taste(me) : i = k
    BY DEF View!EachSharesOne
  <2>2. ASSUME \A p, q \in P : p[1] = q[1] => p = q, NEW u \in U,
               NEW i \in View!Taste(u) \cap View!Taste(me), NEW k \in View!Taste(u) \cap View!Taste(me)
        PROVE  i = k
    <3>1. <<u, i>> \in P /\ <<u, k>> \in P
      BY <1>10
    <3>2. <<u, i>>[1] = <<u, k>>[1]
      OBVIOUS
    <3> HIDE DEF P
    <3>3. <<u, i>> = <<u, k>>
      BY <2>2, <3>1, <3>2
    <3> QED BY <3>3
  <2>3. ASSUME View!EachSharesOne(me, j), NEW p \in P, NEW q \in P, p[1] = q[1]
        PROVE  p = q
    <3>1. p[2] = q[2]
      BY <1>11, <2>1, <2>3
    <3> QED BY <1>11, <2>3, <3>1
  <2> QED BY <2>1, <2>2, <2>3
<1> QED BY <1>8, <1>9, <1>13, <1>14, <1>15 DEF RecScore, ScoreCountsUsers

LEMMA RecommendationsOfOne ==
    ASSUME GraphInv, NEW me \in Users, NEW S \in GetRecommendations(me),
           NEW j \in S, NEW k \in RecItems(me) \ S
    PROVE  View!Score(me, j) >= View!Score(me, k) /\ Cardinality(S) = RecLimit
<1>1. /\ S \in SUBSET RecItems(me)
      /\ Cardinality(S) = IF Cardinality(RecItems(me)) < RecLimit THEN Cardinality(RecItems(me)) ELSE RecLimit
      /\ RecScore(me, j) >= RecScore(me, k)
  BY DEF GetRecommendations, Top, TopAnyOrder
<1>2. IsFiniteSet(RecItems(me))
  <2>1. RecItems(me) \in SUBSET {Item[v] : v \in stored}
    BY RecItemsFacts, TasteFacts DEF View!Candidates, View!Recommenders
  <2> QED BY <2>1, SharedIsFinite, FS_Subset
<1>3. Cardinality(S) # Cardinality(RecItems(me))
  BY <1>1, <1>2, FS_Subset
<1> QED BY <1>1, <1>3, ScoreFacts

\* The recommendations are what SocialView defines, in number and in rank
\* (get_recommendations).
THEOREM RecommendationsShare == Spec => []RecommendationsAreShared
<1>1. GraphInv => RecommendationsAreShared
  BY RecItemsFacts, ScoreFacts, RecommendationsOfOne DEF RecommendationsAreShared
<1> QED BY <1>1, Invariance, PTL

\* Nobody is recommended what they have reviewed, except while the event of that
\* review is still under way (WHERE NOT in get_recommendations).
THEOREM OwnWhilePending == Spec => []OwnOnlyWhilePending
<1>1. GraphInv => OwnOnlyWhilePending
  <2> SUFFICES ASSUME GraphInv, NEW me \in Users, NEW v \in stored,
                      Author[v] = me, Item[v] \in RecItems(me)
               PROVE  wrote[<<me, v>>] = 0
    BY DEF OwnOnlyWhilePending
  <2>1. v \in Reviews /\ wrote[<<me, v>>] \in 0..1
    BY DEF GraphInv, TypeOK
  <2>2. Item[v] \notin View!Taste(me)
    BY RecItemsFacts DEF View!Candidates
  <2>3. Merged(v) => Related(reviewed, me, Item[v])
    BY <2>1 DEF GraphInv, Related
  <2> QED BY <2>1, <2>2, <2>3, TasteFacts DEF Merged
<1> QED BY <1>1, Invariance, PTL
=============================================================================
