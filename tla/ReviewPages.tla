---------------------------- MODULE ReviewPages ----------------------------
(***************************************************************************)
(* The pages that show reviews (frontend/app.py) with the joins of the     *)
(* gateway (api-gateway/app/main.py): what is shown is put together from   *)
(* calls to three services that nothing holds still meanwhile.  A page     *)
(* first takes its own maps of users and movies, then asks for a section   *)
(* of cards; for the enriched sections the gateway reads the items, the    *)
(* users and the movies, and the page's maps fill what it left open.       *)
(*                                                                         *)
(* Abstractions.  A page has one section.  Accounts and reviews are only   *)
(* ever added, names never change: a user stands for the name, a review    *)
(* is its author and item.  What the feed holds is any set of reviews and  *)
(* what it recommends any set of items (FeedGraph says which).             *)
(***************************************************************************)
EXTENDS Catalog

CONSTANTS
    Users,          \* all that ever register
    Bogus,          \* an item id that is no movie's: reviews are accepted for any
    MaxFailed       \* bound: calls of the page that fail

ASSUME PagesAssumption == Bogus \notin Ids /\ "none" \notin Users

VARIABLES
    users,          \* the registered users
    reviews,        \* the stored reviews
    selected,       \* st.session_state.selected_movie, by its id
    page,           \* the page: at, kind, its maps, what the gateway has read, cards
    held,           \* history: what the catalog held since the page was opened
    failed          \* calls that failed

people == <<users, reviews>>
pagesVars == <<movies, used, req, users, reviews, selected, page, held, failed>>

Nothing == "none"
Kinds == {"item", "user", "all", "feed", "recs"}
Closed == [at |-> "closed", kind |-> "all", users |-> {}, movies |-> <<>>, whole |-> TRUE,
           got |-> {}, names |-> {}, titles |-> <<>>, cards |-> {}]

PagesInit ==
    /\ CatalogInit
    /\ users = {} /\ reviews = {} /\ selected = Nothing
    /\ page = Closed /\ held = {} /\ failed = 0

Pairs(f) == {<<id, f[id]>> : id \in DOMAIN f}
Hold == held' = IF page.at \in {"closed", "shown"} THEN held ELSE held \cup Pairs(movies')

----------------------------------------------------------------------------
\* register, and POST /reviews by somebody with a token.
Register(u) ==
    /\ u \notin users /\ users' = users \cup {u}
    /\ UNCHANGED <<catalog, reviews, selected, page, held, failed>>
Post(u, item) ==
    /\ u \in users /\ reviews' = reviews \cup {[user |-> u, item |-> item]}
    /\ UNCHANGED <<catalog, users, selected, page, held, failed>>
PostAny(u) == \E item \in used \cup {Bogus} : Post(u, item)

\* Publish review: the selected movie may be gone by now.
Publish(u) == page.at = "shown" /\ selected # Nothing /\ Post(u, selected)

\* The page runs from the top, as every click makes it.
Open(kind) ==
    /\ kind = "item" => selected # Nothing
    /\ page' = [Closed EXCEPT !.at = "users", !.kind = kind]
    /\ held' = Pairs(movies)
    /\ UNCHANGED <<catalog, people, selected, failed>>

Failing == failed < MaxFailed /\ failed' = failed + 1
Holds == UNCHANGED failed

\* Mistakes: the selected movie, as it once was, stands in for a map that
\* cannot be read; the gateway reads the users or the movies before the items.
KeptMovies == IF selected = Nothing THEN <<>> ELSE [id \in {selected} |-> NewMovie]
UsersFirst == <<"names", "items", "titles">>
MoviesFirst == <<"titles", "items", "names">>

\* get_users_map and get_movies_map: a failure gives an empty map.
NoMovies == <<>>
GetUsersMap ==
    /\ page.at = "users"
    /\ \/ Holds /\ page' = [page EXCEPT !.at = "movies", !.users = users]
       \/ Failing /\ page' = [page EXCEPT !.at = "movies"]
GetMoviesMap ==
    /\ page.at = "movies"
    /\ \/ Holds /\ page' = [page EXCEPT !.at = "join", !.movies = movies]
       \/ Failing /\ page' = [page EXCEPT !.at = "join", !.movies = NoMovies, !.whole = FALSE]

\* What a section asks for: GET /reviews/item, /reviews/user, /reviews and
\* /feed answer with reviews, /feed/recommendations with items alone.
Items(kind) ==
    CASE kind = "item" -> {{x \in reviews : x.item = selected}}
      [] kind = "user" -> {{x \in reviews : x.user = u} : u \in users}
      [] kind = "all"  -> {reviews}
      [] OTHER         -> SUBSET reviews

\* feed_enriched and reviews_enriched: three calls, one after the other; if
\* one of them fails, so does the section.
CallOrder == <<"items", "names", "titles">>
Then(at) ==
    CASE at = "join" -> CallOrder[1] [] at = CallOrder[1] -> CallOrder[2]
      [] at = CallOrder[2] -> CallOrder[3] [] OTHER -> "enrich"
GetJson ==
    /\ page.at \in {"items", "names", "titles"}
    /\ \/ /\ Holds
          /\ CASE page.at = "items" ->
                    \E got \in Items(page.kind) : page' = [page EXCEPT !.at = Then("items"), !.got = got]
               [] page.at = "names" -> page' = [page EXCEPT !.at = Then("names"), !.names = users]
               [] page.at = "titles" -> page' = [page EXCEPT !.at = Then("titles"), !.titles = movies]
       \/ Failing /\ page' = Closed

\* verify_authorization, before the first call.
Join ==
    /\ page.at = "join" /\ page.kind # "recs"
    /\ \/ Holds /\ page' = [page EXCEPT !.at = Then("join")]
       \/ Failing /\ page' = Closed

\* enrich_review_items, and review_card: the gateway's name and movie, or the
\* page's own, or none.
Name(u) == IF u \in page.names \cup page.users THEN u ELSE Nothing
Title(id) ==
    IF id \in DOMAIN page.titles THEN page.titles[id]
    ELSE IF id \in DOMAIN page.movies THEN page.movies[id] ELSE NotFound
Show ==
    /\ page.at = "enrich" /\ Holds
    /\ page' = [Closed EXCEPT !.at = "shown", !.kind = page.kind, !.whole = page.whole, !.movies = page.movies,
           !.cards = {[user |-> Name(x.user), item |-> x.item, movie |-> Title(x.item)] : x \in page.got}]

\* page_feed's recommendations: no gateway join, the page's movies alone.
Recommend ==
    /\ page.at = "join" /\ page.kind = "recs"
    /\ \/ /\ Holds
          /\ \E got \in Items("recs") :
               page' = [page EXCEPT !.at = "shown",
                   !.cards = {[user |-> Nothing, item |-> x.item, movie |-> Title(x.item)] : x \in got}]
       \/ Failing /\ page' = Closed

PageStep ==
    /\ GetUsersMap \/ GetMoviesMap \/ Join \/ GetJson \/ Show \/ Recommend
    /\ UNCHANGED <<catalog, people, selected, held>>

\* Choose movie, or the button of a card that has a movie.
Selectable == DOMAIN page.movies \cup {c.item : c \in {d \in page.cards : d.movie # NotFound}}
Choose ==
    /\ page.at = "shown"
    /\ \E id \in Selectable : selected' = id
    /\ UNCHANGED <<catalog, people, page, held, failed>>

CatalogStep == CatalogNext /\ Hold /\ UNCHANGED <<users, reviews, selected, page, failed>>

PagesNext ==
    \/ CatalogStep
    \/ PageStep
    \/ Choose
    \/ \E kind \in Kinds : Open(kind)
    \/ \E u \in Users : Register(u) \/ PostAny(u) \/ Publish(u)

PagesSpec == PagesInit /\ [][PagesNext]_pagesVars

----------------------------------------------------------------------------
\* Every review of an enriched section is shown with its author's name, even
\* if the author registered after the page was opened or the page's own map
\* could not be read: the gateway reads the users after the reviews.
AuthorsAreNamed ==
    (page.at = "shown" /\ page.kind # "recs") => \A c \in page.cards : c.user # Nothing

\* A card without a title is about no movie of the catalog now.  Only a
\* recommendation may miss the title of a movie that is there, when the
\* page's map could not be read or the movie came later.
UntitledIsGone ==
    \A c \in page.cards :
        c.movie = NotFound =>
            \/ c.item \notin Present
            \/ page.kind = "recs" /\ (~page.whole \/ c.item \notin DOMAIN page.movies)

\* What a card shows of a movie, the catalog held at some time since the page
\* was opened: neither an older state nor a mixture of two.
TitlesWereTrue ==
    \A c \in page.cards : c.movie # NotFound => <<c.item, c.movie>> \in held
=============================================================================
