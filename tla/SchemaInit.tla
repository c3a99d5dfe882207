----------------------------- MODULE SchemaInit -----------------------------
(***************************************************************************)
(* init_schema_with_lock (common/sqlalchemy.py): every process that uses a *)
(* database creates its tables before anything else, in one transaction,   *)
(* between taking and releasing an advisory lock.  The lock is released    *)
(* before the transaction commits, so the next process may still miss the  *)
(* tables, create them too, wait for the first transaction and fail.       *)
(*                                                                         *)
(* Abstractions.  The tables of a service are created by one transaction   *)
(* and stand for one.  The attempts of retry are not counted: whether the  *)
(* next one is made is left open.  A process that ends loses connection,   *)
(* lock and transaction, and Docker starts it again.                       *)
(***************************************************************************)
EXTENDS Integers

CONSTANTS
    Processes,      \* processes that use the database
    NoProcess       \* none of them

VARIABLES
    init,           \* where each process is in init_db
    holder,         \* who has the advisory lock
    writer,         \* whose transaction has created the tables, not committed yet
    tables,         \* the tables are there, committed
    failures        \* history: creations that failed on existing tables, up to two

vars == <<init, holder, writer, tables, failures>>

Init ==
    /\ init = [p \in Processes |-> "off"]
    /\ holder = NoProcess /\ writer = NoProcess
    /\ tables = FALSE /\ failures = 0

Go(p, where) == init' = [init EXCEPT ![p] = where]
Without(v, p) == IF v = p THEN NoProcess ELSE v

\* The process is started; init_db is the first thing it does.
Begin(p) ==
    /\ init[p] = "off" /\ Go(p, "lock")
    /\ UNCHANGED <<holder, writer, tables, failures>>

\* Mistake: nobody waits.
NoWait(p) == TRUE

\* pg_advisory_lock waits until nobody has it.
MayLock(p) == holder = NoProcess
Lock(p) ==
    /\ init[p] = "lock" /\ MayLock(p)
    /\ Go(p, "check") /\ holder' = p
    /\ UNCHANGED <<writer, tables, failures>>

\* Mistake: create_all(checkfirst=False).
NoLook == FALSE

\* create_all looks for the tables: it sees what is committed.
Seen == tables
Check(p) ==
    /\ init[p] = "check"
    /\ Go(p, IF Seen THEN "unlock" ELSE "create")
    /\ UNCHANGED <<holder, writer, tables, failures>>

\* CREATE TABLE waits for another transaction that has created them; once that has
\* committed it fails, and so does the unlock in the transaction that is aborted now.
Create(p) ==
    /\ init[p] = "create" /\ writer = NoProcess
    /\ IF tables
       THEN /\ Go(p, "failed") /\ UNCHANGED writer
            /\ failures' = IF failures < 2 THEN failures + 1 ELSE failures
       ELSE Go(p, "unlock") /\ writer' = p /\ UNCHANGED failures
    /\ UNCHANGED <<holder, tables>>

\* pg_advisory_unlock, and then COMMIT.
Unlock(p) ==
    /\ init[p] = "unlock"
    /\ Go(p, "commit") /\ holder' = Without(holder, p)
    /\ UNCHANGED <<writer, tables, failures>>
Commit(p) ==
    /\ init[p] = "commit" /\ Go(p, "ready")
    /\ tables' = (tables \/ writer = p) /\ writer' = Without(writer, p)
    /\ UNCHANGED <<holder, failures>>

\* The connection is lost or refused: retry tries again, or gives up and the process
\* ends.  A commit may have happened without its answer.
Disconnected(p) == holder' = Without(holder, p) /\ writer' = Without(writer, p)
DbLost(p) ==
    /\ init[p] \in {"lock", "check", "create", "unlock", "commit"}
    /\ Go(p, "lock") \/ Go(p, "off")
    /\ Disconnected(p)
    /\ \/ UNCHANGED tables
       \/ init[p] = "commit" /\ tables' = (tables \/ writer = p)
    /\ UNCHANGED failures

\* The process ends, because of the failed creation (no OperationalError, so not
\* retried) or at any other point.
Ends(p) ==
    /\ init[p] # "off" /\ Go(p, "off") /\ Disconnected(p)
    /\ UNCHANGED <<tables, failures>>

Work(p) == Begin(p) \/ Lock(p) \/ Check(p) \/ Create(p) \/ Unlock(p) \/ Commit(p) \/ DbLost(p)

Next == \E p \in Processes : Work(p) \/ Ends(p)

Spec == Init /\ [][Next]_vars

----------------------------------------------------------------------------
\* The lock is held by a process at work, and there is one transaction that creates.
SchemaTypeOK ==
    /\ init \in [Processes -> {"off", "lock", "check", "create", "unlock", "commit", "ready", "failed"}]
    /\ holder \in {NoProcess} \cup {p \in Processes : init[p] \in {"check", "create", "unlock", "failed"}}
    /\ writer \in {NoProcess} \cup {p \in Processes : init[p] \in {"unlock", "commit"}}
    /\ tables \in BOOLEAN /\ failures \in 0..2

\* However many processes start, and restart, at once: the early unlock lets the start
\* of one of them fail, once in the life of the database.
AtMostOneFails == failures <= 1

\* A process is past init_db only when its tables are there.
ReadyHasTables == \A p \in Processes : init[p] = "ready" => tables
=============================================================================
