--------------------------- MODULE MCReviewPages ---------------------------
EXTENDS ReviewPages, TLC

MCNewMovie == "title" :> "old" @@ "year" :> "old"
MCUpdates == {<<>>, "title" :> "a", "title" :> "b" @@ "year" :> "b"}
\* Two things are under way at a time: two requests, or a request and a page.
TwoAtATime ==
    Cardinality({r \in Requests : req[r].at # "free"}) + (IF page.at = "closed" THEN 0 ELSE 1) <= 2
Symmetry == Permutations(Requests)
=============================================================================
