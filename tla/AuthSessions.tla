---------------------------- MODULE AuthSessions ----------------------------
(***************************************************************************)
(* The active tokens of the auth service: login stores a token id in       *)
(* Redis, verify looks it up, logout deletes it (auth-service/app/         *)
(* service.py).  Any instance serves any request; all of them send every   *)
(* command to the node that Sentinel calls the master                      *)
(* (common/redis_client.py).                                               *)
(*                                                                         *)
(* Redis answers a write before its replicas have it.  The commands the    *)
(* master has executed form one log; a replica has received a prefix of    *)
(* it.  A failover makes the most advanced replica the master and cuts the *)
(* log off at what that replica had.                                       *)
(*                                                                         *)
(* Abstractions.  A token is its jti.  Wrong passwords, bad signatures,    *)
(* absent users and tokens past their exp are answered 401 by jwt.decode   *)
(* and the lookups, without a change of state; a key's TTL starts after    *)
(* its exp was computed, so it ends after it.  The model is about tokens   *)
(* that have not expired.  Nodes crash and restart; networks do not split, *)
(* and a node that is not the one Sentinel names comes back only as a      *)
(* replica, while a master serves, and is not promoted before it has       *)
(* synchronised.                                                           *)
(***************************************************************************)
EXTENDS Integers, Sequences, FiniteSets

CONSTANTS
    Nodes,          \* Redis servers (redis-master and two replicas)
    FirstMaster,    \* redis-master: starts as master, with --appendonly yes
    Tokens,         \* token ids uuid4 may give
    Requests,       \* requests the auth instances serve at the same time
    MaxFaults       \* bound: crashes and lost answers

ASSUME NodesAssumption == FirstMaster \in Nodes
ASSUME FaultsAssumption == MaxFaults \in Nat

VARIABLES
    log,            \* commands executed by the master, and kept
    master,         \* the node Sentinel names
    up,             \* running nodes
    seen,           \* how much of the log each node has received
    demoted,        \* the named node has come back as a replica
    req,            \* what each request is doing
    used,           \* token ids handed out
    issued,         \* tokens answered to a login
    revoked,        \* tokens whose logout was answered with success
    lost,           \* history: commands that a failover undid
    faults          \* faults so far

redisVars == <<master, up, seen, demoted>>
tokenVars == <<used, issued, revoked>>
vars == <<log, redisVars, req, tokenVars, lost, faults>>

Commands == {"set", "del"} \X Tokens
NoToken == "none"
Idle == [op |-> "idle", token |-> NoToken, late |-> FALSE, stale |-> FALSE]

Init ==
    /\ log = << >>
    /\ master = FirstMaster
    /\ up = Nodes
    /\ seen = [n \in Nodes |-> 0]
    /\ demoted = FALSE
    /\ req = [r \in Requests |-> Idle]
    /\ used = {} /\ issued = {} /\ revoked = {}
    /\ lost = {}
    /\ faults = 0

Fault == faults < MaxFaults /\ faults' = faults + 1

----------------------------------------------------------------------------
(* Redis and Sentinel.                                                     *)

\* What GET answers to a node that has the first k commands.
Holds(k, t) ==
    \E i \in 1..k : log[i] = <<"set", t>> /\ \A j \in (i + 1)..k : log[j] # <<"del", t>>

Stored(t) == Holds(Len(log), t)

\* The node Sentinel names takes writes.
Serving == master \in up /\ ~demoted

\* The master executes a command.  A DEL of an absent key is not propagated.
Execute(command, t) ==
    /\ Serving
    /\ IF command = "del" /\ ~Stored(t)
       THEN UNCHANGED <<log, redisVars>>
       ELSE /\ log' = Append(log, <<command, t>>)
            /\ seen' = [seen EXCEPT ![master] = Len(log) + 1]
            /\ UNCHANGED <<master, up, demoted>>

\* A replica receives the next command of the stream.
Replicate(n) ==
    /\ Serving /\ n \in up
    /\ seen[n] < Len(log)
    /\ seen' = [seen EXCEPT ![n] = @ + 1]
    /\ UNCHANGED <<log, master, up, demoted, req, tokenVars, lost, faults>>

\* A replica that ends starts over; what a master keeps, its restart says.
Crash(n) ==
    /\ n \in up /\ Fault
    /\ up' = up \ {n}
    /\ seen' = [seen EXCEPT ![n] = 0]
    /\ demoted' = (demoted /\ n # master)
    /\ UNCHANGED <<log, master, req, tokenVars, lost>>

\* The log loses everything after its first k commands.
CutOff(k) ==
    /\ log' = SubSeq(log, 1, k)
    /\ lost' = lost \cup {log[i] : i \in (k + 1)..Len(log)}

\* Docker restarts the master before Sentinel gives it up: redis-master reads
\* every command from its append-only file, the running replicas synchronise.
RestartMaster ==
    /\ master \notin up /\ master = FirstMaster
    /\ up' = up \cup {master}
    /\ seen' = [n \in Nodes |-> IF n \in up' THEN Len(log) ELSE 0]
    /\ UNCHANGED <<log, master, demoted, req, tokenVars, lost, faults>>

\* A promoted replica comes back with the --replicaof of its command line and
\* its snapshot of some earlier moment: it refuses writes, but it answers GET
\* as long as Sentinel goes on naming it.
RestartDemoted(k) ==
    /\ master \notin up /\ master # FirstMaster
    /\ up' = up \cup {master}
    /\ seen' = [seen EXCEPT ![master] = k]
    /\ demoted' = TRUE
    /\ UNCHANGED <<log, master, req, tokenVars, lost, faults>>

\* Sentinel promotes the running replica that has received the most, and the
\* node it named before, should it run, becomes a replica of that one.
Failover(n) ==
    LET replicas == up \ {master} IN
    /\ ~Serving
    /\ n \in replicas /\ \A m \in replicas : seen[m] <= seen[n]
    /\ master' = n
    /\ demoted' = FALSE
    /\ CutOff(seen[n])
    /\ seen' = [seen EXCEPT ![master] = IF master \in up THEN seen[n] ELSE 0]
    /\ UNCHANGED <<up, req, tokenVars, faults>>

\* Any other node comes back as a replica and synchronises in full.
RestartReplica(n) ==
    /\ Serving /\ n \notin up
    /\ up' = up \cup {n}
    /\ seen' = [seen EXCEPT ![n] = Len(log)]
    /\ UNCHANGED <<log, master, demoted, req, tokenVars, lost, faults>>

----------------------------------------------------------------------------
(* Requests.  The field late of a verify says whether the logout of its    *)
(* token had been answered when the request came in, and stale whether its *)
(* lookup was answered by a named node that is a replica.                  *)

Begin(r, op, t) ==
    /\ req[r] = Idle
    /\ req' = [req EXCEPT ![r] = [op |-> op, token |-> t, late |-> t \in revoked,
                                stale |-> FALSE]]

End(r) == req' = [req EXCEPT ![r] = Idle]

\* login_user: the password is right, create_access_token signs a new jti.
Login(r) ==
    \E t \in Tokens \ used :
        /\ Begin(r, "login", t)
        /\ used' = used \cup {t}
        /\ UNCHANGED <<log, redisVars, issued, revoked, lost, faults>>

\* Mistake: a failure of Redis does not stop the login.
StoreTokenOrNot(r) ==
    /\ req[r].op = "login"
    /\ \/ Execute("set", req[r].token)
       \/ ~Serving /\ UNCHANGED <<log, redisVars>>
    /\ issued' = issued \cup {req[r].token}
    /\ End(r)
    /\ UNCHANGED <<used, revoked, lost, faults>>

\* setex, then the answer.
StoreToken(r) ==
    /\ req[r].op = "login"
    /\ Execute("set", req[r].token)
    /\ issued' = issued \cup {req[r].token}
    /\ End(r)
    /\ UNCHANGED <<used, revoked, lost, faults>>

\* verify_token and logout_user: jwt.decode accepts the token.
Verify(r, t) ==
    /\ t \in issued
    /\ Begin(r, "verify", t)
    /\ UNCHANGED <<log, redisVars, tokenVars, lost, faults>>

Logout(r, t) ==
    /\ t \in issued
    /\ Begin(r, "logout", t)
    /\ UNCHANGED <<log, redisVars, tokenVars, lost, faults>>

\* Mistake: the lookup goes to any replica (slave_for).
CheckTokenAtReplica(r) ==
    /\ req[r].op = "verify" /\ master \in up
    /\ \E n \in up :
          req' = [req EXCEPT ![r].op = IF Holds(seen[n], req[r].token) THEN "accepted" ELSE "rejected"]
    /\ UNCHANGED <<log, redisVars, tokenVars, lost, faults>>

Verdict(t) == IF Holds(seen[master], t) THEN "accepted" ELSE "rejected"

\* get: the token is active, or "expired or logged out".  Nobody asks the node
\* Sentinel names for its role.
CheckToken(r) ==
    /\ req[r].op = "verify" /\ master \in up
    /\ req' = [req EXCEPT ![r].op = Verdict(req[r].token), ![r].stale = demoted]
    /\ UNCHANGED <<log, redisVars, tokenVars, lost, faults>>

Answer(r) ==
    /\ req[r].op \in {"accepted", "rejected"}
    /\ End(r)
    /\ UNCHANGED <<log, redisVars, tokenVars, lost, faults>>

\* Mistake: a logout whose delete failed is answered with success.
DeleteTokenOrNot(r) ==
    /\ req[r].op = "logout"
    /\ \/ Execute("del", req[r].token)
       \/ ~Serving /\ UNCHANGED <<log, redisVars>>
    /\ revoked' = revoked \cup {req[r].token}
    /\ End(r)
    /\ UNCHANGED <<used, issued, lost, faults>>

\* delete, then the answer, whether the key was there or not.
DeleteToken(r) ==
    /\ req[r].op = "logout"
    /\ Execute("del", req[r].token)
    /\ revoked' = revoked \cup {req[r].token}
    /\ End(r)
    /\ UNCHANGED <<used, issued, lost, faults>>

\* The command is executed and its answer lost: the request fails with 500.
RedisAnswerLost(r) ==
    /\ Fault
    /\ \/ req[r].op = "login" /\ Execute("set", req[r].token)
       \/ req[r].op = "logout" /\ Execute("del", req[r].token)
    /\ End(r)
    /\ UNCHANGED <<tokenVars, lost>>

\* No node answers, or the one that does refuses the write (READONLY): nobody
\* catches the ConnectionError, the request fails.
RedisUnreachable(r) ==
    /\ \/ req[r].op \in {"login", "logout"} /\ ~Serving
       \/ req[r].op = "verify" /\ master \notin up
    /\ End(r)
    /\ UNCHANGED <<log, redisVars, tokenVars, lost, faults>>

----------------------------------------------------------------------------
RedisStep ==
    \/ RestartMaster
    \/ \E k \in 0..Len(log) : RestartDemoted(k)
    \/ \E n \in Nodes : Replicate(n) \/ Crash(n) \/ Failover(n) \/ RestartReplica(n)

RequestStep(r) ==
    \/ Login(r) \/ StoreToken(r) \/ CheckToken(r) \/ Answer(r) \/ DeleteToken(r)
    \/ RedisAnswerLost(r) \/ RedisUnreachable(r)
    \/ \E t \in Tokens : Verify(r, t) \/ Logout(r, t)

Next ==
    \/ RedisStep
    \/ \E r \in Requests : RequestStep(r)

Spec == Init /\ [][Next]_vars

----------------------------------------------------------------------------
TypeOK ==
    /\ log \in Seq(Commands)
    /\ master \in Nodes
    /\ up \subseteq Nodes
    /\ seen \in [Nodes -> Nat]
    /\ \A n \in Nodes : seen[n] <= Len(log)
    /\ demoted \in BOOLEAN
    /\ req \in [Requests ->
                  [op : {"idle", "login", "verify", "logout", "accepted", "rejected"},
                   token : Tokens \cup {NoToken}, late : BOOLEAN, stale : BOOLEAN]]
    /\ used \subseteq Tokens /\ issued \subseteq used
    /\ revoked \subseteq issued
    /\ lost \subseteq Commands
    /\ faults \in 0..MaxFaults

\* A lookup was answered by a promoted replica that has restarted: one master has
\* been lost to promote it, and then itself.
TwiceLost(r) == req[r].stale /\ faults >= 2

\* A token that was answered "logged out" is accepted by a later request only if
\* its deletion was undone by a failover, or a second master was lost and answers
\* from its snapshot; races of several logouts and verifications never suffice
\* (logout_user), nor does any restart of redis-master.
LoggedOutIsRejected ==
    \A r \in Requests :
        req[r].op = "accepted" /\ req[r].late =>
            <<"del", req[r].token>> \in lost \/ TwiceLost(r)

\* A token that was answered to a login is rejected before its exp only if some
\* logout deleted it, the login itself was undone, or a second master was lost:
\* both auth instances see it at once ("a token issued by auth-service-1 can be
\* verified by auth-service-2", architecture.md).
LoggedInIsAccepted ==
    \A r \in Requests :
        req[r].op = "rejected" =>
            \/ <<"set", req[r].token>> \in lost
            \/ <<"del", req[r].token>> \in lost
            \/ \E i \in 1..Len(log) : log[i] = <<"del", req[r].token>>
            \/ TwiceLost(r)
============================================================================
