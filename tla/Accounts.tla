------------------------------ MODULE Accounts ------------------------------
(***************************************************************************)
(* Registration in the auth service: register_user (service.py) looks up   *)
(* the email, looks up the username, and inserts a row (create_user of     *)
(* repository.py).  Each of the three is a database session of its own, and *)
(* any auth instance may serve any request, so only the unique constraints *)
(* of the table stand between two requests for the same name.              *)
(*                                                                         *)
(* Abstractions.  A row has its username and its email; users lists the    *)
(* rows by id, which is the order in which they were committed (create_user *)
(* commits right after the INSERT).  Passwords are the subject of the      *)
(* modules that log in.                                                    *)
(***************************************************************************)
EXTENDS Integers, Sequences

CONSTANTS
    Clients,        \* who may have a request under way, one each
    Names,          \* usernames
    Emails

VARIABLES
    users,          \* the table users
    reg             \* the request of each client: step, name, email

vars == <<users, reg>>

None == "none"
Steps == {"idle", "email", "name", "insert", "ok", "conflict"}
Rows == [name : Names, email : Emails]

Init ==
    /\ users = <<>>
    /\ reg = [c \in Clients |-> [step |-> "idle", name |-> None, email |-> None]]

Ended(c) == reg[c].step \in {"idle", "ok", "conflict"}

HasEmail(e) == \E k \in 1..Len(users) : users[k].email = e
HasName(n) == \E k \in 1..Len(users) : users[k].name = n

\* get_all_users_service: by id.
AllUsers == users

----------------------------------------------------------------------------
\* POST /auth/register arrives at some instance.
Register(c, n, e) ==
    /\ Ended(c)
    /\ reg' = [reg EXCEPT ![c] = [step |-> "email", name |-> n, email |-> e]]
    /\ UNCHANGED users

Go(c, step) == reg' = [reg EXCEPT ![c].step = step]

\* get_user_by_email, then get_user_by_username.
LookUpEmail(c) ==
    /\ reg[c].step = "email"
    /\ Go(c, IF HasEmail(reg[c].email) THEN "conflict" ELSE "name")
    /\ UNCHANGED users

LookUpName(c) ==
    /\ reg[c].step = "name"
    /\ Go(c, IF HasName(reg[c].name) THEN "conflict" ELSE "insert")
    /\ UNCHANGED users

Row(c) == [name |-> reg[c].name, email |-> reg[c].email]

\* Mistake: no unique constraints, the lookups are trusted.
InsertBlindly(c) ==
    /\ reg[c].step = "insert"
    /\ users' = Append(users, Row(c)) /\ Go(c, "ok")

\* Mistake: the error of the constraint is swallowed.
InsertIgnoringConflict(c) ==
    /\ reg[c].step = "insert"
    /\ users' = IF HasEmail(reg[c].email) \/ HasName(reg[c].name) THEN users ELSE Append(users, Row(c))
    /\ Go(c, "ok")

\* create_user: the constraints decide, and an IntegrityError is a conflict too.
CreateUser(c) ==
    /\ reg[c].step = "insert"
    /\ IF HasEmail(reg[c].email) \/ HasName(reg[c].name)
       THEN Go(c, "conflict") /\ UNCHANGED users
       ELSE Go(c, "ok") /\ users' = Append(users, Row(c))

Handle(c) == LookUpEmail(c) \/ LookUpName(c) \/ CreateUser(c)

Next == \E c \in Clients : Handle(c) \/ \E n \in Names, e \in Emails : Register(c, n, e)

Spec == Init /\ [][Next]_vars

----------------------------------------------------------------------------
TypeOK ==
    /\ users \in Seq(Rows)
    /\ reg \in [Clients -> [step : Steps, name : Names \cup {None}, email : Emails \cup {None}]]
    /\ \A c \in Clients : reg[c].step # "idle" => Row(c) \in Rows

\* No two accounts share a username or an email, however many registrations run
\* at once: what passes both lookups may still lose to another request.
AccountsAreUnique ==
    \A j, k \in 1..Len(users) :
        users[j].name = users[k].name \/ users[j].email = users[k].email => j = k

\* The answer is true when it is sent: whoever is told of a conflict finds the name
\* or the email taken, and whoever is told of success has a row of exactly these two.
AnswersAreTrue ==
    \A c \in Clients :
        /\ reg[c].step = "conflict" => HasEmail(reg[c].email) \/ HasName(reg[c].name)
        /\ reg[c].step = "ok" => \E k \in 1..Len(users) : users[k] = Row(c)
=============================================================================
