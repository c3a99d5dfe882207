------------------------------ MODULE DemoSeed ------------------------------
(***************************************************************************)
(* "Seed Demo World" of the frontend (frontend/app.py) on top of the       *)
(* registration of Accounts: seed_demo_world reads what exists and creates *)
(* what is missing, first users, then movies, reviews and follows, one     *)
(* call to the gateway at a time.  Several browsers may do so at once, a   *)
(* user may click elsewhere and so stop the script between two calls, and  *)
(* calls fail.                                                             *)
(*                                                                         *)
(* Abstractions.  Users and movies are never removed, so a list that was   *)
(* read is a prefix of the table and its length is all there is to keep.   *)
(* A call that failed has ended before the script goes on.  The gateway    *)
(* passes a POST on until an instance answers (GatewayFailover), so it may *)
(* be carried out by every instance, and in the end all answers may be     *)
(* lost.  For a registration that is an answer that is lost, for a follow  *)
(* it changes nothing.  A demo account's email and password are written as *)
(* its username.  The session of the browser stays valid.                  *)
(***************************************************************************)
EXTENDS Integers, SequencesExt

CONSTANTS
    Browsers,
    DemoUsers,      \* DEMO_USERS: their usernames, in order
    DemoMovies,     \* DEMO_MOVIES: their titles, in order
    Texts,          \* length of DEMO_REVIEW_TEXTS
    PerMovie,       \* reviews per movie in max_reviews
    MaxPlanned,     \* upper limit of max_reviews
    FollowPairs,    \* the fixed part of follow_pairs
    Viewer,         \* the account the browsers are logged in with
    Stranger,       \* somebody who registers by themselves
    StrangeRows,    \* with one of these: a username and an email
    Instances,      \* instances of a service, each of which the gateway may try
    MaxFaults,      \* bound: calls that go wrong
    MaxClicks       \* bound: clicks on the two buttons

VARIABLES
    users, reg,     \* Accounts
    movies,         \* titles in the catalog
    reviews,        \* bag of reviews <<author, movie, text>>
    follows,        \* FOLLOWS relationships of the feed graph
    seed,           \* the script of each browser
    overlaps,       \* history: clicks while another browser was seeding
    clicks, faults

Demo == Range(DemoUsers)

\* There are demo users and follows between them, no title twice, and texts to choose from.
ASSUME DemoAssumption ==
    /\ DemoUsers \in Seq(Demo) /\ \E m, n \in Demo : m # n
    /\ DemoMovies \in Seq(Range(DemoMovies))
    /\ \A j, k \in DOMAIN DemoMovies : DemoMovies[j] = DemoMovies[k] => j = k
    /\ FollowPairs \in Seq(Demo \X Demo)
    /\ Texts \in Nat \ {0} /\ PerMovie \in Nat /\ MaxPlanned \in Nat
    /\ Instances \in Nat \ {0}

\* The viewer is no demo user, and a stranger takes one demo user's name or email.
ASSUME PeopleAssumption ==
    /\ Viewer \notin Demo /\ Stranger \notin Demo \cup {Viewer} \cup Browsers
    /\ \A r \in StrangeRows : \E n \in Demo :
          r \in {[name |-> n, email |-> Stranger], [name |-> Stranger, email |-> n]}

accounts == <<users, reg>>
stores == <<movies, reviews, follows>>
bounds == <<overlaps, clicks, faults>>
vars == <<accounts, stores, seed, bounds>>

Auth == INSTANCE Accounts WITH
            Clients <- Browsers \cup {Stranger},
            Names <- Demo \cup {Viewer, Stranger}, Emails <- Demo \cup {Viewer, Stranger}

\* A script: what it does next, the index of its loop, the users and movies it has
\* read, existing_keys, which button was clicked, and whether a call went wrong (history).
Script(at, only) ==
    [at |-> at, i |-> 1, users |-> 0, movies |-> 0, keys |-> {}, only |-> only, hurt |-> FALSE]
Idle == Script("idle", FALSE)

Init ==
    /\ users = <<[name |-> Viewer, email |-> Viewer]>>
    /\ reg = [c \in Browsers \cup {Stranger} |->
                [step |-> "idle", name |-> Auth!None, email |-> Auth!None]]
    /\ movies = <<>> /\ reviews = EmptyBag /\ follows = {}
    /\ seed = [b \in Browsers |-> Idle]
    /\ overlaps = 0 /\ clicks = 0 /\ faults = 0

Running(b) == seed[b].at \notin {"idle", "done"}

----------------------------------------------------------------------------
(* Steps of a script.                                                      *)

At(b, where) == seed[b].at = where
Becomes(b, new) == seed' = [seed EXCEPT ![b] = new]
Goto(b, where) == Becomes(b, [seed[b] EXCEPT !.at = where, !.i = 1])
AfterSkipping(b, k) == Becomes(b, [seed[b] EXCEPT !.i = k + 2])     \* mistake
After(b, k) == Becomes(b, [seed[b] EXCEPT !.i = k + 1])

\* A call goes wrong.  It raises, and some loops swallow that.
Fault == faults < MaxFaults /\ faults' = faults + 1
Swallowed(b, k) == Fault /\ Becomes(b, [seed[b] EXCEPT !.i = k + 1, !.hurt = TRUE])
Raised(b) == Fault /\ Becomes(b, Idle)

\* What the loop of b still has to do, in order: the first k of the list from i on
\* that passes the test.
Todo(b, last, Missing(_)) == {k \in seed[b].i..last : Missing(k)}
First(S) == CHOOSE k \in S : \A j \in S : k <= j

\* page_catalog: a click on one of the two buttons.
Click(b, only) ==
    /\ ~Running(b) /\ clicks < MaxClicks
    /\ Becomes(b, Script(IF only THEN "movies" ELSE "users", only))
    /\ clicks' = clicks + 1
    /\ overlaps' = overlaps + IF \E a \in Browsers : Running(a) THEN 1 ELSE 0
    /\ UNCHANGED <<accounts, stores, faults>>

\* Streamlit stops a script when the user clicks elsewhere; api() reads the session
\* before each call, and the exception that stops it passes every `except Exception`.
Stop(b) ==
    /\ Running(b) /\ ~At(b, "registering")
    /\ Becomes(b, Idle)
    /\ UNCHANGED <<accounts, stores, bounds>>

----------------------------------------------------------------------------
(* ensure_demo_users.                                                      *)

Listed(b) == {users[k].name : k \in 1..seed[b].users}

GetUsers(b, before, after) ==
    /\ At(b, before)
    /\ \/ /\ Becomes(b, [seed[b] EXCEPT !.at = after, !.i = 1, !.users = Len(Auth!AllUsers)])
          /\ UNCHANGED faults
       \/ Raised(b)
    /\ UNCHANGED <<accounts, stores, overlaps, clicks>>

MissingUsers(b) == Todo(b, Len(DemoUsers), LAMBDA k : DemoUsers[k] \notin Listed(b))

RegisterNext(b) ==
    /\ At(b, "register")
    /\ LET todo == MissingUsers(b)
           k == First(todo)
       IN IF todo = {}
          THEN Goto(b, "users again") /\ UNCHANGED <<accounts, faults>>
          ELSE \/ /\ Auth!Register(b, DemoUsers[k], DemoUsers[k])
                  /\ Becomes(b, [seed[b] EXCEPT !.at = "registering", !.i = k + 1])
                  /\ UNCHANGED faults
               \/ Swallowed(b, k) /\ UNCHANGED accounts
    /\ UNCHANGED <<stores, overlaps, clicks>>

\* The answer is counted as created or skipped, and so is one that is lost.
Registered(b) ==
    /\ At(b, "registering") /\ Auth!Ended(b)
    /\ Becomes(b, [seed[b] EXCEPT !.at = "register"])
    /\ UNCHANGED <<accounts, stores, bounds>>

\* The auth service handles a registration; somebody else may register, too.
Handle ==
    /\ \E c \in Browsers \cup {Stranger} : Auth!Handle(c)
    /\ UNCHANGED <<stores, seed, bounds>>
Interfere ==
    /\ reg[Stranger].step = "idle"
    /\ \E r \in StrangeRows : Auth!Register(Stranger, r.name, r.email)
    /\ UNCHANGED <<stores, seed, bounds>>

----------------------------------------------------------------------------
(* seed_movies, ensure_demo_movies; create_movie of the catalog service.   *)

GetMovies(b, before, after) ==
    /\ At(b, before)
    /\ \/ /\ Becomes(b, [seed[b] EXCEPT !.at = after, !.i = 1, !.movies = Len(movies)])
          /\ UNCHANGED faults
       \/ Raised(b)
    /\ UNCHANGED <<accounts, stores, overlaps, clicks>>

\* insert_one under a fresh id: nothing keeps two movies from having the same title.
Insert(title, n) == movies' = movies \o [j \in 1..n |-> title]

\* What the list that was read lacks: existing_titles.
MissingTitles(b) ==
    Todo(b, Len(DemoMovies), LAMBDA k : \A j \in 1..seed[b].movies : movies[j] # DemoMovies[k])

CreateNext(b) ==
    /\ At(b, "create")
    /\ LET todo == MissingTitles(b)
           k == First(todo)
       IN IF todo = {}
          THEN /\ Goto(b, IF seed[b].only THEN "done" ELSE "movies again")
               /\ UNCHANGED <<movies, faults>>
          ELSE \/ Insert(DemoMovies[k], 1) /\ After(b, k) /\ UNCHANGED faults
               \/ \E n \in 2..Instances : Insert(DemoMovies[k], n) /\ After(b, k) /\ Fault
               \/ \E n \in 0..Instances : Insert(DemoMovies[k], n) /\ Raised(b)
    /\ UNCHANGED <<accounts, reviews, follows, overlaps, clicks>>

----------------------------------------------------------------------------
(* seed_demo_reviews.                                                      *)

\* demo_users: those of the list, by id, or the whole list when there are none.
DemoOf(list) ==
    LET f[k \in 0..Len(list)] ==
            IF k = 0 THEN <<>> ELSE f[k - 1] \o IF list[k] \in Demo THEN <<list[k]>> ELSE <<>>
    IN f[Len(list)]
Authors(b) ==
    LET list == [k \in 1..seed[b].users |-> users[k].name]
    IN IF DemoOf(list) = <<>> THEN list ELSE DemoOf(list)

MaxReviews(b) ==
    LET m == seed[b].movies * PerMovie IN IF m < MaxPlanned THEN m ELSE MaxPlanned
Key(b, k) ==
    <<Authors(b)[((k - 1) % Len(Authors(b))) + 1], ((k - 1) % seed[b].movies) + 1, (k - 1) % Texts>>

\* get_demo_token: whom a username acts as.  Others than demo users get the session's
\* token; a login fails when somebody else has the username or the email.
HasDemoAccount(n) == \E k \in 1..Len(users) : users[k] = [name |-> n, email |-> n]
ActsAs(n) == IF n \notin Demo THEN Viewer ELSE n
NeverRefused(n) == TRUE                                              \* mistake
CanLogin(n) == n \in Demo => HasDemoAccount(n)

AllReviews == BagToSet(reviews)

\* Mistake: the reviews that exist are not looked at.
ReviewsUnread(b) ==
    /\ At(b, "movies read")
    /\ Becomes(b, [seed[b] EXCEPT !.at = "review"])
    /\ UNCHANGED <<accounts, stores, bounds>>

\* The list of reviews is read, or taken to be empty.
GetReviews(b) ==
    /\ At(b, "movies read")
    /\ \/ /\ Becomes(b, [seed[b] EXCEPT !.at = "review", !.keys = AllReviews])
          /\ UNCHANGED faults
       \/ Fault /\ Becomes(b, [seed[b] EXCEPT !.at = "review", !.keys = {}])
    /\ UNCHANGED <<accounts, stores, overlaps, clicks>>

Post(key, n) == reviews' = reviews (+) [k \in (IF n = 0 THEN {} ELSE {key}) |-> n]

MissingReviews(b) ==
    Todo(b, MaxReviews(b), LAMBDA k : Key(b, k) \notin seed[b].keys /\ CanLogin(Key(b, k)[1]))

ReviewNext(b) ==
    /\ At(b, "review")
    /\ LET todo == MissingReviews(b)
           k == First(todo)
           key == Key(b, k)
           posted == [key EXCEPT ![1] = ActsAs(key[1])]
           added == [seed[b] EXCEPT !.i = k + 1, !.keys = @ \cup {key}]
       IN IF todo = {}
          THEN /\ Becomes(b, [seed[b] EXCEPT !.at = "follow", !.i = 1, !.keys = {}])
               /\ UNCHANGED <<reviews, faults>>
          ELSE \/ Post(posted, 1) /\ Becomes(b, added) /\ UNCHANGED faults
               \/ \E n \in 2..Instances : Post(posted, n) /\ Becomes(b, added) /\ Fault
               \/ \E n \in 0..Instances : Post(posted, n) /\ Swallowed(b, k)
    /\ UNCHANGED <<accounts, movies, follows, overlaps, clicks>>

----------------------------------------------------------------------------
(* seed_demo_follows.                                                      *)

Pairs == FollowPairs \o [k \in DOMAIN DemoUsers |-> <<Viewer, DemoUsers[k]>>]

MissingFollows(b) ==
    Todo(b, Len(Pairs), LAMBDA k : Range(Pairs[k]) \subseteq Listed(b) /\ CanLogin(Pairs[k][1]))

FollowNext(b) ==
    /\ At(b, "follow")
    /\ LET todo == MissingFollows(b)
           k == First(todo)
       IN IF todo = {}
          THEN Goto(b, "done") /\ UNCHANGED <<follows, faults>>
          ELSE \/ follows' = follows \cup {Pairs[k]} /\ After(b, k) /\ UNCHANGED faults
               \/ follows' \in {follows, follows \cup {Pairs[k]}} /\ Swallowed(b, k)
    /\ UNCHANGED <<accounts, movies, reviews, overlaps, clicks>>

Step(b) ==
    \/ GetUsers(b, "users", "register") \/ RegisterNext(b) \/ Registered(b)
    \/ GetUsers(b, "users again", "movies")
    \/ GetMovies(b, "movies", "create") \/ CreateNext(b) \/ GetMovies(b, "movies again", "movies read")
    \/ GetReviews(b) \/ ReviewNext(b) \/ FollowNext(b)

Next ==
    \/ \E b \in Browsers : Step(b) \/ Stop(b) \/ \E only \in BOOLEAN : Click(b, only)
    \/ Handle
    \/ Interfere

Spec == Init /\ [][Next]_vars

----------------------------------------------------------------------------
\* However many seeds and strangers register at once (service.py:55).
AccountsAreUnique == Auth!AccountsAreUnique
AnswersAreTrue == Auth!AnswersAreTrue

\* A seed that reports success, and none of whose calls went wrong, leaves the whole
\* demo world: whatever earlier seeds left unfinished, and whatever others create
\* meanwhile.  Only a demo user whose name or email a stranger has taken is missing,
\* with all that it would have written.
Complete(b) ==
    LET there == {n \in Demo : HasDemoAccount(n)} \cup {Viewer} IN
    /\ \A n \in Demo \ there : \E k \in 1..Len(users) :
          {users[k].name, users[k].email} = {Stranger, n}
    /\ Range(DemoMovies) \subseteq Range(movies)
    /\ \A k \in 1..MaxReviews(b) : Key(b, k)[1] \in there => Key(b, k) \in AllReviews
    /\ \A k \in DOMAIN Pairs : Range(Pairs[k]) \subseteq there => Pairs[k] \in follows

FinishedIsComplete ==
    \A b \in Browsers : At(b, "done") /\ ~seed[b].only /\ ~seed[b].hurt => Complete(b)

Copies(t) == Cardinality({j \in DOMAIN movies : movies[j] = t})

\* Movies and reviews are created after a read that did not find them, which nothing
\* protects: a copy too many needs another seed at the same time or a call that went
\* wrong.  A seed beside another adds at most one, and a call that went wrong at most
\* as many as there are instances: the loop over the reviews comes back to a key
\* whose answer was lost, and posts it once more.
Surplus == Instances * faults
CopiesNeedRivals ==
    /\ \A t \in Range(DemoMovies) : Copies(t) <= 1 + overlaps + Surplus
    /\ \A k \in AllReviews : reviews[k] <= 1 + overlaps + Surplus

\* A review of the seed is by the demo user it names, whose account answers to the
\* demo password.  It is by whoever is logged in only when the seed found no demo user
\* at all (get_demo_token), which takes a registration that failed.
AuthorsAreReal ==
    \A k \in AllReviews : IF k[1] = Viewer THEN faults > 0 ELSE HasDemoAccount(k[1])
=============================================================================
