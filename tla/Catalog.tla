------------------------------ MODULE Catalog ------------------------------
(***************************************************************************)
(* The catalog service (catalog-service/app): one MongoDB collection and   *)
(* the requests that change it.  Each call to MongoDB is atomic, and an    *)
(* update is two of them: the update, and the read of what is answered.    *)
(*                                                                         *)
(* Abstractions.  A movie is a function from its fields to values; an      *)
(* update is a function from the fields that are not None in the request.  *)
(* Reads and searches return what is there and change nothing.             *)
(***************************************************************************)
EXTENDS Integers, FiniteSets, Functions

CONSTANTS
    Ids,            \* movie ids; uuid4 gives each to one movie only
    Requests,       \* requests under way
    NewMovie,       \* the movie of a POST
    Updates         \* the updates of a PUT

\* MovieCreate requires a title.
ASSUME MovieAssumption == \E f \in DOMAIN NewMovie : f # "deleted"

VARIABLES
    movies,         \* the collection: from ids to movies
    used,           \* ids that were given out
    req             \* each request: at, op, id, data, answer, overtaken (history)

catalog == <<movies, used, req>>

Present == DOMAIN movies
NotFound == <<>>
Deleted == [deleted |-> TRUE]
Free == [at |-> "free", op |-> "none", id |-> "none", data |-> <<>>, answer |-> NotFound, overtaken |-> {}]

CatalogInit ==
    /\ movies = <<>> /\ used = {}
    /\ req = [r \in Requests |-> Free]

----------------------------------------------------------------------------
\* The fields of updates that are done and not left yet, and that are set again now.
Overtake(id, fields) ==
    [r \in Requests |->
        IF req[r].op = "put" /\ req[r].id = id /\ req[r].at # "update"
        THEN [req[r] EXCEPT !.overtaken = @ \cup fields] ELSE req[r]]

Finish(r, answer) == [req EXCEPT ![r].at = "answered", ![r].answer = answer]

With(id, m) == [i \in Present \cup {id} |-> IF i = id THEN m ELSE movies[i]]

\* create_movie: insert_one under a fresh id.
CreateMovie ==
    /\ \E id \in Ids \ used : movies' = With(id, NewMovie) /\ used' = used \cup {id}
    /\ UNCHANGED req

\* A PUT or DELETE arrives.  No fields are given: nothing is updated.
Put(r, id, data) ==
    /\ req[r].at = "free" /\ id \in used
    /\ req' = [req EXCEPT ![r] = [Free EXCEPT
                  !.at = IF data = <<>> THEN "read" ELSE "update",
                  !.op = "put", !.id = id, !.data = data]]
    /\ UNCHANGED <<movies, used>>
Delete(r, id) ==
    /\ req[r].at = "free" /\ id \in used
    /\ req' = [req EXCEPT ![r] = [Free EXCEPT !.at = "delete", !.op = "delete", !.id = id]]
    /\ UNCHANGED <<movies, used>>

SetFields(m, data) ==
    [f \in DOMAIN m \cup DOMAIN data |-> IF f \in DOMAIN data THEN data[f] ELSE m[f]]

\* Mistakes: an update with upsert=True; one that writes all fields, those it
\* was not given too; a delete that does not look at deleted_count.
CanUpsert(id) == TRUE
Replaced(m, data) == SetFields(NewMovie, data)
AnswerBlindly(id) == Deleted

\* update_one with $set: only the given fields, and only of a movie that is there.
Changed(m, data) == SetFields(m, data)
CanSet(id) == id \in Present
UpdateOne(r) ==
    LET id == req[r].id  data == req[r].data IN
    /\ req[r].at = "update"
    /\ req' = [Overtake(id, DOMAIN data) EXCEPT ![r].at = "read"]
    /\ movies' = IF CanSet(id)
                 THEN With(id, Changed(IF id \in Present THEN movies[id] ELSE NewMovie, data))
                 ELSE movies
    /\ UNCHANGED used

\* find_one, and 404 if there is none.
Found(id) == IF id \in Present THEN movies[id] ELSE NotFound
ReadBack(r) ==
    /\ req[r].at = "read"
    /\ req' = Finish(r, Found(req[r].id))
    /\ UNCHANGED <<movies, used>>

\* delete_one, and 404 if it deleted nothing.
DeleteAnswer(id) == IF id \in Present THEN Deleted ELSE NotFound
DeleteOne(r) ==
    /\ req[r].at = "delete"
    /\ req' = Finish(r, DeleteAnswer(req[r].id))
    /\ movies' = Restrict(movies, Present \ {req[r].id})
    /\ UNCHANGED used

\* The client has its answer.
Leave(r) ==
    /\ req[r].at = "answered"
    /\ req' = [req EXCEPT ![r] = Free]
    /\ UNCHANGED <<movies, used>>

CatalogNext ==
    \/ CreateMovie
    \/ \E r \in Requests :
         \/ UpdateOne(r) \/ ReadBack(r) \/ DeleteOne(r) \/ Leave(r)
         \/ \E id \in Ids : Delete(r, id) \/ \E data \in Updates : Put(r, id, data)

----------------------------------------------------------------------------
\* An update that is done and not left yet keeps every field it has set until
\* another update sets the same field: two updates of one movie never undo
\* each other's other fields, and neither does the read that follows.
OwnFieldsKept ==
    \A r \in Requests :
        LET q == req[r] IN
        (q.op = "put" /\ q.at \in {"read", "answered"}) =>
            \A f \in DOMAIN q.data \ q.overtaken :
                /\ q.id \in Present => movies[q.id][f] = q.data[f]
                /\ q.answer # NotFound => q.answer[f] = q.data[f]

\* Whoever was told that a movie is deleted or not there will not meet it
\* again, whatever update was under way.
GoneStaysGone ==
    \A r \in Requests :
        (req[r].at = "answered" /\ req[r].answer \in {NotFound, Deleted}) => req[r].id \notin Present

\* Of two requests that delete one movie, only one is told that it did.
DeletedOnce ==
    \A r, s \in Requests :
        (r # s /\ req[r].answer = Deleted /\ req[s].answer = Deleted) => req[r].id # req[s].id
=============================================================================
