--------------------------- MODULE GatewayFailover ---------------------------
(***************************************************************************)
(* POST /reviews through the API gateway (api-gateway/app/main.py): the    *)
(* gateway verifies the token at an auth instance, then forwards the       *)
(* request to one reviews instance after another until one answers; the    *)
(* reviews instance verifies the token again (common/auth_client.py)       *)
(* before it stores the review.  Both find instances at the config server, *)
(* whose list may name instances that have ended.                          *)
(*                                                                         *)
(* An instance the gateway has given up on may still carry out the         *)
(* request: a call is a chain of attempts, at most one per instance, whose *)
(* jobs live on independently.                                             *)
(*                                                                         *)
(* Abstractions.  All calls carry one token, which is logged out at some   *)
(* moment.  A lookup at an auth instance is one step, since it reads Redis *)
(* once.  With one instance listed the gateway returns its 5xx at once,    *)
(* which is what going on to an empty list returns.  The gateway does not  *)
(* end: it has no state, its clients would see a broken connection.        *)
(***************************************************************************)
EXTENDS Integers, FiniteSets

CONSTANTS
    Auths,          \* instances of auth-service
    Reviews,        \* instances of reviews-service
    Calls,          \* requests the gateway serves
    MaxFaults       \* bound: crashes and outages

ASSUME InstancesAssumption == Auths \cap Reviews = {}
ASSUME FaultsAssumption == MaxFaults \in Nat

VARIABLES
    up,             \* instances that serve
    config,         \* the config server runs
    listed,         \* instances it lists
    store,          \* Redis answers the auth instances
    valid,          \* the token has not been logged out
    call,           \* what the gateway does for each call
    job,            \* what each reviews instance does for each call
    stored,         \* the instances that have stored the review of a call
    hurt,           \* history: instances that failed, or were away, during a call
    shaken,         \* history: calls that met an outage of config server or Redis
    faults          \* faults so far

parts == <<up, config, listed, store, valid, faults>>
vars == <<parts, call, job, stored, hurt, shaken>>

Instances == Auths \cup Reviews
NoOne == "none"
NoJob == [stage |-> "none", left |-> {}]
Idle == [state |-> "idle", phase |-> "verify", left |-> {}, last |-> "none",
         error |-> "none", at |-> NoOne, answer |-> "none"]

Init ==
    /\ up = Instances /\ listed = Instances
    /\ config = TRUE /\ store = TRUE /\ valid = TRUE
    /\ call = [c \in Calls |-> Idle]
    /\ job = [c \in Calls |-> [i \in Reviews |-> NoJob]]
    /\ stored = [c \in Calls |-> {}]
    /\ hurt = [c \in Calls |-> {}]
    /\ shaken = {}
    /\ faults = 0

Active(c) == call[c].state \notin {"idle", "done"}
Ended(c) == call[c].state = "done"
Fault == faults < MaxFaults /\ faults' = faults + 1
Hurt(c, i) == hurt' = [hurt EXCEPT ![c] = @ \cup {i}]

\* What an instance or the gateway may get from auth instance a: verify_token
\* fails with 500 when Redis does not answer, and may fail with 500 in a alone,
\* whose own lookup of the user (get_user_by_id) or connection to Redis broke.
Verdict == IF ~store THEN "5xx" ELSE IF valid THEN "ok" ELSE "401"
AuthAnswers(a) == IF a \in up THEN {"timeout", "failed", Verdict} ELSE {"refused"}
HurtBy(c, a, answer) == IF answer \in {"timeout", "failed"} THEN Hurt(c, a) ELSE UNCHANGED hurt

----------------------------------------------------------------------------
(* The gateway.                                                            *)

Answer(c, status) == call' = [call EXCEPT ![c].state = "done", ![c].answer = status]

Receive(c) ==
    /\ call[c].state = "idle"
    /\ call' = [call EXCEPT ![c].state = "resolve"]
    /\ hurt' = [hurt EXCEPT ![c] = Instances \ (up \cap listed)]
    /\ shaken' = IF config /\ store THEN shaken ELSE shaken \cup {c}
    /\ UNCHANGED <<parts, job, stored>>

Candidates(c) == listed \cap (IF call[c].phase = "verify" THEN Auths ELSE Reviews)

\* resolve_instances: no config server or nothing listed is 502.
Resolve(c) ==
    /\ call[c].state = "resolve"
    /\ IF ~config \/ Candidates(c) = {}
       THEN Answer(c, "502")
       ELSE call' = [call EXCEPT ![c].state = "try", ![c].left = Candidates(c),
                                      ![c].last = "none", ![c].error = "none"]
    /\ UNCHANGED <<parts, job, stored, hurt, shaken>>

\* Mistake: the first 5xx is passed on.
Return5xx(c, i) == Answer(c, "5xx")

\* The loop goes on after a 5xx, which it keeps, and after a transport error.
Next5xx(c, i) == call' = [call EXCEPT ![c].state = "try", ![c].left = @ \ {i}, ![c].last = "5xx"]
NextError(c, i, error) ==
    call' = [call EXCEPT ![c].state = "try", ![c].left = @ \ {i}, ![c].error = error]

\* verify_authorization at one instance: 401 ends the call.
Verify(c, a) ==
    /\ call[c].state = "try" /\ call[c].phase = "verify" /\ a \in call[c].left
    /\ \E answer \in AuthAnswers(a) :
        /\ \/ answer \in {"refused", "timeout"} /\ NextError(c, a, answer)
           \/ answer \in {"failed", "5xx"} /\ Next5xx(c, a)
           \/ answer = "401" /\ Answer(c, "401")
           \/ answer = "ok" /\ call' = [call EXCEPT ![c].state = "resolve", ![c].phase = "create"]
        /\ HurtBy(c, a, answer)
    /\ UNCHANGED <<parts, job, stored, shaken>>

\* One attempt at a reviews instance: refused, or accepted.
Try(c, i) ==
    /\ call[c].state = "try" /\ call[c].phase = "create" /\ i \in call[c].left
    /\ IF i \in up
       THEN /\ call' = [call EXCEPT ![c].state = "wait", ![c].at = i]
            /\ job' = [job EXCEPT ![c][i].stage = "asked"]
       ELSE NextError(c, i, "refused") /\ UNCHANGED job
    /\ UNCHANGED <<parts, stored, hurt, shaken>>

\* Mistake: the loop asks the next instance whatever the answer is.
TakeAnswerAndGoOn(c, i) ==
    /\ call[c].state = "wait" /\ call[c].at = i
    /\ \/ job[c][i].stage = "5xx" /\ Next5xx(c, i)
       \/ job[c][i].stage = "ok" /\ IF call[c].left = {i} THEN Answer(c, "created") ELSE NextError(c, i, "none")
       \/ job[c][i].stage = "401" /\ Answer(c, "401")
    /\ UNCHANGED <<parts, job, stored, hurt, shaken>>

TakeAnswer(c, i) ==
    /\ call[c].state = "wait" /\ call[c].at = i
    /\ \/ job[c][i].stage = "5xx" /\ Next5xx(c, i)
       \/ job[c][i].stage = "ok" /\ Answer(c, "created")
       \/ job[c][i].stage = "401" /\ Answer(c, "401")
    /\ UNCHANGED <<parts, job, stored, hurt, shaken>>

\* Mistake: no timeout; only a broken connection ends the wait.
GiveUpBroken(c, i) ==
    /\ call[c].state = "wait" /\ call[c].at = i
    /\ job[c][i].stage = "gone" /\ NextError(c, i, "broken")
    /\ Hurt(c, i)
    /\ UNCHANGED <<parts, job, stored, shaken>>

\* The connection broke, or 20 seconds passed: the job, if any, is abandoned.
GiveUp(c, i) ==
    /\ call[c].state = "wait" /\ call[c].at = i
    /\ IF job[c][i].stage = "gone" THEN NextError(c, i, "broken") ELSE NextError(c, i, "timeout")
    /\ Hurt(c, i)
    /\ UNCHANGED <<parts, job, stored, shaken>>

\* Every instance was tried: the last 5xx, or 502.
Exhausted(c) ==
    /\ call[c].state = "try" /\ call[c].left = {}
    /\ Answer(c, IF call[c].last = "5xx" THEN "5xx" ELSE "502")
    /\ UNCHANGED <<parts, job, stored, hurt, shaken>>

----------------------------------------------------------------------------
(* A reviews instance, whether the gateway still waits or not.             *)

Stage(c, i, s) == job' = [job EXCEPT ![c][i] = [stage |-> s, left |-> {}]]

\* resolve_service_instances; its errors become 503.
ResolveAuth(c, i) ==
    /\ job[c][i].stage = "asked"
    /\ IF ~config \/ listed \cap Auths = {}
       THEN Stage(c, i, "5xx")
       ELSE job' = [job EXCEPT ![c][i] = [stage |-> "lookup", left |-> listed \cap Auths]]
    /\ UNCHANGED <<parts, call, stored, hurt, shaken>>

\* verify_authorization_header: 401 is final, any other failure leads on.
AskAuth(c, i, a) ==
    /\ job[c][i].stage = "lookup" /\ a \in job[c][i].left
    /\ \E answer \in AuthAnswers(a) :
        /\ \/ answer \in {"refused", "timeout", "failed", "5xx"}
              /\ job' = [job EXCEPT ![c][i].left = @ \ {a}]
           \/ answer = "401" /\ Stage(c, i, "401")
           \/ answer = "ok" /\ Stage(c, i, "allowed")
        /\ HurtBy(c, a, answer)
    /\ UNCHANGED <<parts, call, stored, shaken>>

NoAuth(c, i) ==
    /\ job[c][i].stage = "lookup" /\ job[c][i].left = {}
    /\ Stage(c, i, "5xx")
    /\ UNCHANGED <<parts, call, stored, hurt, shaken>>

\* create_review_with_outbox commits.
Create(c, i) ==
    /\ job[c][i].stage = "allowed"
    /\ stored' = [stored EXCEPT ![c] = @ \cup {i}]
    /\ Stage(c, i, "ok")
    /\ UNCHANGED <<parts, call, hurt, shaken>>

\* It raises: nothing was stored, or the answer to COMMIT was lost.
CreateFails(c, i) ==
    /\ job[c][i].stage = "allowed"
    /\ stored' \in {stored, [stored EXCEPT ![c] = @ \cup {i}]}
    /\ Stage(c, i, "5xx")
    /\ Hurt(c, i)
    /\ UNCHANGED <<parts, call, shaken>>

----------------------------------------------------------------------------
(* The environment.                                                        *)

Crash(i) ==
    /\ i \in up /\ Fault
    /\ up' = up \ {i}
    /\ job' = [c \in Calls |->
                 IF i \in Reviews /\ job[c][i].stage # "none"
                 THEN [job[c] EXCEPT ![i] = [stage |-> "gone", left |-> {}]] ELSE job[c]]
    /\ hurt' = [c \in Calls |-> IF Active(c) THEN hurt[c] \cup {i} ELSE hurt[c]]
    /\ UNCHANGED <<config, listed, store, valid, call, stored, shaken>>

\* The changes of up, config and listed are those of Membership, which
\* ConfigRegistry implements.
Register(i) ==
    /\ config /\ i \notin listed
    /\ listed' = listed \cup {i}
    /\ UNCHANGED <<up, config, store, valid, faults, call, job, stored, hurt, shaken>>

\* Usually it is listed, unless the config server has ended since it registered.
Serve(i) ==
    /\ i \notin up
    /\ up' = up \cup {i}
    /\ UNCHANGED <<config, listed, store, valid, faults, call, job, stored, hurt, shaken>>

\* No heartbeat for 30 seconds.
Expire(i) ==
    /\ i \in listed \ up
    /\ listed' = listed \ {i}
    /\ UNCHANGED <<up, config, store, valid, faults, call, job, stored, hurt, shaken>>

Shake == shaken' = shaken \cup {c \in Calls : Active(c)}

\* The registry is in memory.
ConfigEnds ==
    /\ config /\ Fault
    /\ config' = FALSE /\ listed' = {}
    /\ Shake
    /\ hurt' = [c \in Calls |-> IF Active(c) THEN Instances ELSE hurt[c]]
    /\ UNCHANGED <<up, store, valid, call, job, stored>>

ConfigStarts ==
    /\ ~config
    /\ config' = TRUE
    /\ UNCHANGED <<up, listed, store, valid, faults, call, job, stored, hurt, shaken>>

RedisEnds ==
    /\ store /\ Fault
    /\ store' = FALSE
    /\ Shake
    /\ UNCHANGED <<up, config, listed, valid, call, job, stored, hurt>>

RedisStarts ==
    /\ ~store
    /\ store' = TRUE
    /\ UNCHANGED <<up, config, listed, valid, faults, call, job, stored, hurt, shaken>>

Logout ==
    /\ valid
    /\ valid' = FALSE
    /\ UNCHANGED <<up, config, listed, store, faults, call, job, stored, hurt, shaken>>

----------------------------------------------------------------------------
GatewayStep(c) ==
    \/ Resolve(c) \/ Exhausted(c)
    \/ \E a \in Auths : Verify(c, a)
    \/ \E i \in Reviews : Try(c, i) \/ TakeAnswer(c, i) \/ GiveUp(c, i)

JobStep(c, i) ==
    \/ ResolveAuth(c, i) \/ NoAuth(c, i) \/ Create(c, i) \/ CreateFails(c, i)
    \/ \E a \in Auths : AskAuth(c, i, a)

Environment ==
    \/ \E i \in Instances : Crash(i) \/ Register(i) \/ Serve(i) \/ Expire(i)
    \/ ConfigEnds \/ ConfigStarts \/ RedisEnds \/ RedisStarts \/ Logout

Next ==
    \/ \E c \in Calls : Receive(c) \/ GatewayStep(c)
    \/ \E c \in Calls, i \in Reviews : JobStep(c, i)
    \/ Environment

Spec == Init /\ [][Next]_vars

\* The loop of call_service runs on, and httpx ends every wait.  Nothing is
\* assumed of the instances.
FairSpec == Spec /\ \A c \in Calls : WF_vars(GatewayStep(c))

----------------------------------------------------------------------------
CallStates ==
    [state : {"idle", "resolve", "try", "wait", "done"}, phase : {"verify", "create"},
     left : SUBSET Instances, last : {"none", "5xx"},
     error : {"none", "refused", "timeout", "broken"}, at : Reviews \cup {NoOne},
     answer : {"none", "created", "401", "5xx", "502"}]

JobStates ==
    [stage : {"none", "asked", "lookup", "allowed", "ok", "401", "5xx", "gone"},
     left : SUBSET Auths]

TypeOK ==
    /\ up \subseteq Instances /\ listed \subseteq Instances
    /\ config \in BOOLEAN /\ store \in BOOLEAN /\ valid \in BOOLEAN
    /\ call \in [Calls -> CallStates]
    /\ job \in [Calls -> [Reviews -> JobStates]]
    /\ stored \in [Calls -> SUBSET Reviews]
    /\ hurt \in [Calls -> SUBSET Instances]
    /\ shaken \subseteq Calls
    /\ faults \in 0..MaxFaults

\* A call fails only if the config server or Redis was out during it, or every
\* instance of one of the two services failed or was away at some moment of it:
\* one healthy peer hides every other failure ("the user-facing API never returns
\* an error for an instance loss, as long as at least one peer is still alive",
\* architecture.md).
PeerHidesLoss ==
    \A c \in Calls :
        Ended(c) /\ call[c].answer \in {"5xx", "502"} =>
            c \in shaken \/ Auths \subseteq hurt[c] \/ Reviews \subseteq hurt[c]

\* Reviews beyond the answer come from failed instances only: when all instances
\* stayed healthy a call stores one review if it is answered so and none
\* otherwise, although POST is retried (call_service).
AnswerMatchesStore ==
    \A c \in Calls : Ended(c) =>
        /\ call[c].answer = "created" => stored[c] # {}
        /\ \A i, j \in stored[c] \ hurt[c] : i = j
        /\ call[c].answer # "created" => stored[c] \subseteq hurt[c]

\* Every call is answered, even if the instances accept it and never answer.
EveryCallIsAnswered == \A c \in Calls : call[c].state = "resolve" ~> Ended(c)
=============================================================================
