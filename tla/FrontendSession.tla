-------------------------- MODULE FrontendSession --------------------------
(***************************************************************************)
(* The session of one browser tab (frontend/app.py): what Streamlit keeps  *)
(* in st.session_state, and the tokens it leaves behind at the server.     *)
(*                                                                         *)
(* Every click runs the script from the top.  The state decides whether    *)
(* the login form or the pages are drawn, and only a button that is drawn  *)
(* has its handler run.  A handler is a sequence of steps: requests and    *)
(* assignments to the session.  A further click stops the script that runs *)
(* where it next touches the session or draws, so between any two          *)
(* assignments; the stop is a BaseException, no handler catches it.        *)
(*                                                                         *)
(* A login may leave several tokens: the gateway passes it on until an     *)
(* instance of the auth service answers (GatewayFailover), and those that  *)
(* timed out or failed may have stored a token, too.  Those that carry it  *)
(* out after the tab has given up count as having done so before.          *)
(*                                                                         *)
(* Abstractions.  A token that is neither alive nor held may be issued     *)
(* again.  What a page reads is left out, and so is all that a seed does   *)
(* (DemoSeed) but its logins: it changes nothing here.                     *)
(***************************************************************************)
EXTENDS Integers, FiniteSets, Sequences, SequencesExt

CONSTANTS
    Accounts, Tokens, Movies, Pages,
    None,
    Instances,      \* instances of the auth service, each of which the gateway may try
    MaxStops,       \* bound: handlers that a click stops
    MaxFailures,    \* bound: requests that fail, at the first instance or at all
    MaxSeeded       \* bound: demo logins of seeds

ASSUME SessionAssumption ==
    /\ {"Catalog", "Reviews"} \subseteq Pages /\ None \notin Accounts \cup Tokens \cup Movies
    /\ MaxStops \in Nat /\ MaxFailures \in Nat /\ MaxSeeded \in Nat
    /\ Instances \in Nat \ {0}
\* A login always finds tokens to issue: no behaviour is cut short for want of one.
ASSUME TokensAssumption ==
    Cardinality(Tokens) >= MaxStops + Instances * MaxFailures + MaxSeeded + 2

VARIABLES
    registered,     \* accounts at the auth service
    owner,          \* live tokens at the auth service, and whose they are
    session,        \* st.session_state: token, user, selected_movie, nav_page
    chosenBy,       \* history: who was shown as user when the movie was selected
    script,         \* the handler: steps to do, its account, token and profile
    stops, failures,
    seeded          \* history: demo logins of seeds

vars == <<registered, owner, session, chosenBy, script, stops, failures, seeded>>

Live == DOMAIN owner
Begin(steps, a) == [todo |-> steps, account |-> a, token |-> None, profile |-> None]
Idle == Begin(<<>>, None)

\* init_state
Empty == [token |-> None, user |-> None, selected |-> None, nav |-> "Catalog"]

Init ==
    /\ registered = {} /\ owner = <<>>
    /\ session = Empty /\ chosenBy = None /\ script = Idle
    /\ stops = 0 /\ failures = 0 /\ seeded = 0

----------------------------------------------------------------------------
(* The handlers.                                                           *)

LoginSteps == <<"POST login", "GET me", "set token", "set user">>
RegisterSteps == <<"POST register">> \o LoginSteps

\* page_catalog: "Seed Demo World" logs in as demo users, for each review and each follow.
SeedSteps == <<"POST demo login">>

\* Mistakes: the user, or the movie, stays; the token is cleared before it is sent.
LogoutKeepsUser == <<"POST logout", "clear token", "clear selected", "clear nav">>
LogoutKeepsMovie == <<"POST logout", "clear token", "clear user", "clear nav">>
LogoutTooLate == <<"clear token", "POST logout", "clear user", "clear selected", "clear nav">>

LogoutSteps == <<"POST logout", "clear token", "clear user", "clear selected", "clear nav">>

\* main: the login form without a token or a user, else the sidebar and a page.
Gate == session.token = None \/ session.user = None

Handlers ==
    IF Gate
    THEN {Begin(steps, a) : steps \in {LoginSteps, RegisterSteps}, a \in Accounts}
    ELSE {Begin(steps, None) : steps \in {LogoutSteps, SeedSteps}}

Doing(step) == script.todo # <<>> /\ Head(script.todo) = step

\* A click, also while a handler runs: it is stopped before its next step, but not
\* between login and me, where it does not touch the session.
Click ==
    /\ ~Doing("GET me")
    /\ \E h \in Handlers \cup {Idle} : script' = h
    /\ IF script.todo = <<>> THEN UNCHANGED stops ELSE stops < MaxStops /\ stops' = stops + 1
    /\ script.todo = <<>> => script' # script
    /\ UNCHANGED <<registered, owner, session, chosenBy, failures, seeded>>

\* movie_card, review_card, page_feed: a button that selects a movie and turns the page;
\* sidebar: a button for each page.
Select(movie) ==
    /\ ~Gate /\ script.todo = <<>>
    /\ session' = [session EXCEPT !.selected = movie, !.nav = "Reviews"]
    /\ chosenBy' = session.user
    /\ UNCHANGED <<registered, owner, script, stops, failures, seeded>>
Navigate(p) ==
    /\ ~Gate /\ script.todo = <<>>
    /\ session' = [session EXCEPT !.nav = p]
    /\ UNCHANGED <<registered, owner, chosenBy, script, stops, failures, seeded>>

----------------------------------------------------------------------------
(* The steps.  After a failed request the handler is over, but for logout, *)
(* which goes on.                                                          *)

Rest == [script EXCEPT !.todo = Tail(@)]
Fails == failures < MaxFailures /\ failures' = failures + 1
Works == UNCHANGED failures

\* register: refused if there is such an account; the answer may be lost.
PostRegister ==
    /\ Doing("POST register")
    /\ registered' = registered \cup {script.account}
    /\ \/ Works /\ script' = (IF script.account \in registered THEN Idle ELSE Rest)
       \/ Fails /\ script' = Idle
    /\ UNCHANGED <<owner, session>>

\* Of the instances the gateway tries, each may issue a token; one of these is the answer,
\* or all answers are lost.
Batches ==
    {S \in SUBSET (Tokens \ (Live \cup {session.token})) :
        IsFiniteSet(S) /\ Cardinality(S) <= Instances}
Issue(S, a) == owner' = [s \in Live \cup S |-> IF s \in S THEN a ELSE owner[s]]
AnsweredWith(t, S) == IF S = {t} THEN Works ELSE t \in S /\ Fails

\* login: a new token, if the account is there.
Known(a) == a \in registered
PostLogin ==
    /\ Doing("POST login")
    /\ IF Known(script.account)
       THEN \E S \in Batches :
                /\ Issue(S, script.account)
                /\ \/ \E t \in S : AnsweredWith(t, S) /\ script' = [Rest EXCEPT !.token = t]
                   \/ Fails /\ script' = Idle
       ELSE Works /\ script' = Idle /\ UNCHANGED owner
    /\ UNCHANGED <<registered, session>>

\* get_demo_token: the seed uses the token for one call and drops it.  It goes on after a
\* login that failed, and it ends.
PostDemoLogin ==
    /\ Doing("POST demo login")
    /\ \/ /\ script' = script
          /\ \E a \in registered, S \in Batches :
                /\ Issue(S, a)
                /\ \/ /\ \E t \in S : AnsweredWith(t, S)
                      /\ seeded < MaxSeeded /\ seeded' = seeded + 1
                   \/ Fails /\ UNCHANGED seeded
       \/ script' = Rest /\ Works /\ UNCHANGED <<owner, seeded>>
    /\ UNCHANGED <<registered, session, chosenBy, stops>>

\* me, with the token just received.
GetMe ==
    /\ Doing("GET me")
    /\ \/ script.token \in Live /\ Works /\ script' = [Rest EXCEPT !.profile = owner[script.token]]
       \/ script.token \notin Live /\ Works /\ script' = Idle
       \/ Fails /\ script' = Idle
    /\ UNCHANGED <<registered, owner, session>>

\* logout: the server may get the request and its answer be lost, or not get it.
PostLogout ==
    /\ Doing("POST logout") /\ script' = Rest
    /\ \/ Works /\ owner' = Restrict(owner, Live \ {session.token})
       \/ Fails /\ owner' = Restrict(owner, Live \ {session.token})
       \/ Fails /\ UNCHANGED owner
    /\ UNCHANGED <<registered, session>>

Assign(step, key, value) ==
    /\ Doing(step) /\ script' = Rest /\ Works
    /\ session' = [session EXCEPT ![key] = value]
    /\ UNCHANGED <<registered, owner>>

Step ==
    /\ \/ PostRegister \/ PostLogin \/ GetMe \/ PostLogout
       \/ Assign("set token", "token", script.token)
       \/ Assign("set user", "user", script.profile)
       \/ Assign("clear token", "token", None)
       \/ Assign("clear user", "user", None)
       \/ Assign("clear selected", "selected", None)
       \/ Assign("clear nav", "nav", "Catalog")
    /\ UNCHANGED <<chosenBy, stops, seeded>>

\* A token expires, or is lost with the store.
Expire(t) ==
    /\ t \in Live
    /\ owner' = Restrict(owner, Live \ {t})
    /\ UNCHANGED <<registered, session, chosenBy, script, stops, failures, seeded>>

Next ==
    \/ Click \/ Step \/ PostDemoLogin
    \/ \E movie \in Movies : Select(movie)
    \/ \E p \in Pages : Navigate(p)
    \/ \E t \in Tokens : Expire(t)

Spec == Init /\ [][Next]_vars

----------------------------------------------------------------------------
TypeOK ==
    /\ registered \subseteq Accounts
    /\ Live \subseteq Tokens /\ \A t \in Live : owner[t] \in registered
    /\ session \in [token : Tokens \cup {None}, user : registered \cup {None},
                    selected : Movies \cup {None}, nav : Pages]
    /\ chosenBy \in registered \cup {None}
    /\ script.account \in Accounts \cup {None} /\ script.token \in Tokens \cup {None}
    /\ script.profile \in registered \cup {None}
    /\ stops \in 0 .. MaxStops /\ failures \in 0 .. MaxFailures /\ seeded \in 0 .. MaxSeeded

\* A page is drawn, and no handler runs.
PageShown == ~Gate /\ script.todo = <<>>

\* When pages are shown, their user is the one in whose name the token acts.  It takes
\* two clicks at the wrong moment to see one user and write as another: one stops a
\* logout after the token, the other a login before the user.
ShownUserOwnsToken ==
    (PageShown /\ session.token \in Live /\ owner[session.token] # session.user) => stops >= 2

\* A token that lives at the server and is not held by the tab was left there by a handler
\* that was stopped, a demo login, or a request that failed: one by each of the former, and
\* by the latter no more than there are instances.  A logout leaves none.
Causes == stops + Instances * failures + seeded
OrphansAreAccounted == Cardinality(Live \ {session.token, script.token}) <= Causes

\* Nobody finds the movie another user had selected, unless the logout was stopped.
SelectionIsOwn ==
    (PageShown /\ session.selected # None /\ chosenBy # session.user) => stops >= 1
=============================================================================
