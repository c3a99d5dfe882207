------------------------ MODULE GatewayFailoverProofs ------------------------
(***************************************************************************)
(* Proofs about GatewayFailover, for any instances of the two services,    *)
(* any number of calls and of faults: which calls may fail, and which      *)
(* instances may have stored a review that the answer does not tell of.    *)
(*                                                                         *)
(* Calls share the instances but not their progress, so the invariant is   *)
(* a conjunction over the calls, and a step of one call keeps what holds   *)
(* of the others (OthersKept).                                             *)
(***************************************************************************)
EXTENDS GatewayFailover, TLAPS

\* Nothing that would excuse a failure has happened to the call, except that one
\* instance or the other of reviews-service failed.
Calm(c) == c \notin shaken /\ ~(Auths \subseteq hurt[c])

\* Instance i has accepted the call and may still store its review.
Open(c, i) == job[c][i].stage \in {"asked", "lookup", "allowed"}

Awaited(c, i) == call[c].state = "wait" /\ call[c].at = i

\* What did not fail during a call was there all the time.
HealthInv(c) ==
    Active(c) =>
        /\ c \notin shaken => config /\ store
        /\ \A i \in Instances \ hurt[c] : i \in up /\ i \in listed

IdleInv(c) ==
    /\ call[c].state = "idle" => hurt[c] = {} /\ call[c].phase = "verify"
    /\ call[c].state = "wait" => call[c].phase = "create"

\* The healthy instances have still to be tried: none of them has failed.
LeftInv(c) ==
    call[c].state \in {"try", "wait"} /\ Calm(c) =>
        /\ call[c].phase = "verify" => \A a \in Auths : a \in hurt[c] \/ a \in call[c].left
        /\ call[c].phase = "create" => \A i \in Reviews : i \in hurt[c] \/ i \in call[c].left

\* A healthy reviews instance that the gateway waits for does not answer 5xx, since
\* it has the healthy auth instances still to ask.
LookupInv(c) ==
    \A i \in Reviews : Awaited(c, i) /\ i \notin hurt[c] /\ Calm(c) =>
        /\ job[c][i].stage # "5xx"
        /\ job[c][i].stage = "lookup" =>
             \A a \in Auths : a \in hurt[c] \/ a \in job[c][i].left

\* A healthy instance works on a call only while the gateway waits for it, and
\* what it has stored is in the answer, or will be.
StoreInv(c) ==
    /\ \A i \in Reviews :
        /\ Open(c, i) => i \in hurt[c] \/ Awaited(c, i)
        /\ job[c][i].stage = "ok" => i \in stored[c]
        /\ i \in stored[c] =>
             \/ i \in hurt[c]
             \/ Awaited(c, i) /\ job[c][i].stage = "ok"
             \/ Ended(c) /\ call[c].at = i /\ call[c].answer = "created"
    /\ Ended(c) /\ call[c].answer = "created" => stored[c] # {}

FailureInv(c) ==
    Ended(c) /\ call[c].answer \in {"5xx", "502"} =>
        c \in shaken \/ Auths \subseteq hurt[c] \/ Reviews \subseteq hurt[c]

CallInv(c) ==
    /\ HealthInv(c) /\ IdleInv(c) /\ LeftInv(c) /\ LookupInv(c)
    /\ StoreInv(c) /\ FailureInv(c)

GatewayInv == TypeOK /\ \A c \in Calls : CallInv(c)

----------------------------------------------------------------------------
LEMMA StoresMatch ==
    ASSUME GatewayInv PROVE AnswerMatchesStore
<1> SUFFICES ASSUME NEW c \in Calls, Ended(c)
             PROVE  /\ call[c].answer = "created" => stored[c] # {}
                    /\ \A i, j \in stored[c] \ hurt[c] : i = j
                    /\ call[c].answer # "created" => stored[c] \subseteq hurt[c]
  BY DEF AnswerMatchesStore
<1>1. stored[c] \subseteq Reviews
  BY DEF GatewayInv, TypeOK
<1>2. \A i \in stored[c] \ hurt[c] : call[c].at = i /\ call[c].answer = "created"
  BY <1>1 DEF GatewayInv, CallInv, StoreInv, Ended, Awaited
<1>3. call[c].answer = "created" => stored[c] # {}
  BY DEF GatewayInv, CallInv, StoreInv
<1> QED
  BY <1>2, <1>3

LEMMA InitInv == Init => GatewayInv
<1> SUFFICES ASSUME Init PROVE GatewayInv
  OBVIOUS
<1>1. \A c \in Calls : call[c] = Idle /\ stored[c] = {} /\ hurt[c] = {}
  BY DEF Init
<1>2. \A c \in Calls, i \in Reviews : job[c][i] = NoJob
  BY DEF Init
<1>3. Idle \in CallStates /\ NoJob \in JobStates
  BY DEF Idle, CallStates, NoOne, NoJob, JobStates
<1>4. TypeOK
  BY <1>3, FaultsAssumption DEF Init, TypeOK
<1>5. ASSUME NEW c \in Calls PROVE CallInv(c)
  <2>1. call[c].state = "idle" /\ call[c].phase = "verify" /\ hurt[c] = {} /\ stored[c] = {}
    BY <1>1 DEF Idle
  <2>2. \A i \in Reviews : job[c][i].stage = "none"
    BY <1>2 DEF NoJob
  <2> QED
    BY <2>1, <2>2 DEF CallInv, HealthInv, IdleInv, LeftInv, LookupInv, StoreInv, FailureInv,
                      Active, Ended, Open, Awaited
<1> QED BY <1>4, <1>5 DEF GatewayInv

\* A call whose own state and whose instances stay as they are keeps its invariant.
LEMMA OthersKept ==
    ASSUME NEW d \in Calls, CallInv(d), UNCHANGED <<up, listed, config, store>>,
           call'[d] = call[d], job'[d] = job[d], stored'[d] = stored[d],
           hurt'[d] = hurt[d], d \in shaken' <=> d \in shaken
    PROVE  CallInv(d)'
<1>1. HealthInv(d)' /\ IdleInv(d)' /\ LeftInv(d)'
  BY DEF CallInv, HealthInv, IdleInv, LeftInv, Active, Calm
<1>2. LookupInv(d)'
  BY DEF CallInv, LookupInv, Calm, Awaited
<1>3. StoreInv(d)'
  BY DEF CallInv, StoreInv, Open, Awaited, Ended
<1>4. FailureInv(d)'
  BY DEF CallInv, FailureInv, Ended
<1> QED BY <1>1, <1>2, <1>3, <1>4 DEF CallInv

----------------------------------------------------------------------------
(* The steps of the gateway.                                               *)

\* A step that concerns one call keeps the invariant if it keeps that call's part.
LEMMA OneCall ==
    ASSUME GatewayInv, NEW c \in Calls, TypeOK', CallInv(c)',
           UNCHANGED <<up, listed, config, store, shaken>>,
           \A d \in Calls : d # c => /\ call'[d] = call[d] /\ job'[d] = job[d]
                                    /\ stored'[d] = stored[d] /\ hurt'[d] = hurt[d]
    PROVE  GatewayInv'
<1>1. ASSUME NEW d \in Calls, d # c PROVE CallInv(d)'
  <2>1. CallInv(d)
    BY DEF GatewayInv
  <2> QED BY <1>1, <2>1, OthersKept
<1> QED BY <1>1 DEF GatewayInv

LEMMA ReceiveStep ==
    ASSUME GatewayInv, NEW c \in Calls, Receive(c) PROVE GatewayInv'
<1> DEFINE s == [call[c] EXCEPT !.state = "resolve"]
<1>1. call[c] \in CallStates /\ hurt \in [Calls -> SUBSET Instances]
  BY DEF GatewayInv, TypeOK
<1>2. s \in CallStates
  BY <1>1 DEF CallStates
<1>3. call' = [call EXCEPT ![c] = s] /\ call'[c] = s
  BY DEF Receive, GatewayInv, TypeOK
<1>4. call[c].state = "idle" /\ call[c].phase = "verify"
  BY DEF Receive, GatewayInv, CallInv, IdleInv
<1>5. call'[c].state = "resolve" /\ call'[c].phase = "verify"
  BY <1>1, <1>3, <1>4 DEF CallStates
<1>6. hurt' \in [Calls -> SUBSET Instances] /\ hurt'[c] = Instances \ (up \cap listed)
  BY <1>1 DEF Receive
<1>7. /\ UNCHANGED <<up, listed, config, store, valid, faults, job, stored>>
      /\ shaken' \subseteq Calls
      /\ c \notin shaken' => config /\ store
      /\ \A d \in Calls : d # c => (d \in shaken' <=> d \in shaken)
  BY DEF Receive, parts, GatewayInv, TypeOK
<1>8. TypeOK'
  <2>1. call' \in [Calls -> CallStates]
    BY <1>2, <1>3 DEF GatewayInv, TypeOK
  <2> QED BY <2>1, <1>6, <1>7 DEF GatewayInv, TypeOK
<1>9. ASSUME NEW d \in Calls, d # c PROVE CallInv(d)'
  <2>1. call'[d] = call[d] /\ hurt'[d] = hurt[d]
    BY <1>9, <1>3, <1>1 DEF Receive, GatewayInv, TypeOK
  <2>2. CallInv(d)
    BY DEF GatewayInv
  <2> QED BY <1>9, <1>7, <2>1, <2>2, OthersKept
<1>10. CallInv(c)'
  <2>1. \A i \in Reviews : ~Open(c, i) /\ i \notin stored[c] /\ job[c][i].stage # "ok"
    BY <1>4 DEF GatewayInv, CallInv, StoreInv, IdleInv, Awaited, Ended
  <2>2. StoreInv(c)'
    BY <2>1, <1>5, <1>7 DEF StoreInv, Open, Ended, Awaited
  <2>3. HealthInv(c)'
    BY <1>5, <1>6, <1>7 DEF HealthInv, Active
  <2>4. IdleInv(c)' /\ LeftInv(c)' /\ LookupInv(c)' /\ FailureInv(c)'
    BY <1>5 DEF IdleInv, LeftInv, LookupInv, FailureInv, Ended, Awaited
  <2> QED BY <2>2, <2>3, <2>4 DEF CallInv
<1> QED BY <1>8, <1>9, <1>10 DEF GatewayInv

LEMMA AnswerFacts ==
    ASSUME TypeOK, NEW c \in Calls, NEW status \in {"created", "401", "5xx", "502"},
           Answer(c, status)
    PROVE  /\ call' \in [Calls -> CallStates]
           /\ call'[c].state = "done" /\ call'[c].answer = status /\ call'[c].at = call[c].at
           /\ \A d \in Calls : d # c => call'[d] = call[d]
<1> DEFINE s == [call[c] EXCEPT !.state = "done", !.answer = status]
<1>1. call \in [Calls -> CallStates] /\ call[c] \in CallStates
  BY DEF TypeOK
<1>2. s \in CallStates /\ s.state = "done" /\ s.answer = status /\ s.at = call[c].at
  BY <1>1 DEF CallStates
<1>3. call' = [call EXCEPT ![c] = s]
  BY <1>1 DEF Answer
<1> QED BY <1>1, <1>2, <1>3

LEMMA MoveFacts ==
    ASSUME TypeOK, NEW c \in Calls, NEW i,
           \/ Next5xx(c, i)
           \/ \E error \in {"refused", "timeout", "broken"} : NextError(c, i, error)
    PROVE  /\ call' \in [Calls -> CallStates]
           /\ call'[c].state = "try" /\ call'[c].phase = call[c].phase
           /\ call'[c].left = call[c].left \ {i}
           /\ \A d \in Calls : d # c => call'[d] = call[d]
<1> DEFINE s(l, e) == [call[c] EXCEPT !.state = "try", !.left = @ \ {i}, !.last = l, !.error = e]
<1>1. call \in [Calls -> CallStates] /\ call[c] \in CallStates
  BY DEF TypeOK
<1>2. ASSUME NEW l \in {"none", "5xx"}, NEW e \in {"none", "refused", "timeout", "broken"},
             call' = [call EXCEPT ![c] = s(l, e)]
      PROVE  /\ call' \in [Calls -> CallStates]
             /\ call'[c].state = "try" /\ call'[c].phase = call[c].phase
             /\ call'[c].left = call[c].left \ {i}
             /\ \A d \in Calls : d # c => call'[d] = call[d]
  <2>1. /\ s(l, e) \in CallStates /\ s(l, e).state = "try" /\ s(l, e).phase = call[c].phase
        /\ s(l, e).left = call[c].left \ {i}
    BY <1>1 DEF CallStates
  <2> QED BY <1>1, <1>2, <2>1
<1>3. CASE Next5xx(c, i)
  <2>1. call' = [call EXCEPT ![c] = s("5xx", call[c].error)]
    BY <1>1, <1>3 DEF Next5xx, CallStates
  <2>2. call[c].error \in {"none", "refused", "timeout", "broken"}
    BY <1>1 DEF CallStates
  <2> QED BY <1>2, <2>1, <2>2
<1>4. ASSUME NEW e \in {"refused", "timeout", "broken"}, NextError(c, i, e)
      PROVE  call' = [call EXCEPT ![c] = s(call[c].last, e)] /\ call[c].last \in {"none", "5xx"}
  <2>1. [call[c] EXCEPT !.state = "try", !.left = @ \ {i}, !.error = e] = s(call[c].last, e)
    BY <1>1 DEF CallStates
  <2>2. call' = [call EXCEPT ![c] = [call[c] EXCEPT !.state = "try", !.left = @ \ {i}, !.error = e]]
    BY <1>1, <1>4 DEF NextError
  <2>3. call[c].last \in {"none", "5xx"}
    BY <1>1 DEF CallStates
  <2> QED BY <2>1, <2>2, <2>3
<1> QED BY <1>2, <1>3, <1>4

\* While the gateway waits for nobody, only failed instances know of the call.
LEMMA NobodyAwaited ==
    ASSUME GatewayInv, NEW c \in Calls, call[c].state \in {"resolve", "try"}, NEW i \in Reviews,
           Open(c, i) \/ i \in stored[c] \/ job[c][i].stage = "ok"
    PROVE  i \in hurt[c]
BY DEF GatewayInv, CallInv, StoreInv, Awaited, Ended

\* The gateway goes on to the next instance: the one it leaves has failed, or
\* something excuses the failure of the call.
LEMMA MoveStep ==
    ASSUME GatewayInv, NEW c \in Calls, NEW i,
           call[c].state \in {"try", "wait"},
           \/ Next5xx(c, i)
           \/ \E error \in {"refused", "timeout", "broken"} : NextError(c, i, error),
           UNCHANGED <<parts, job, stored, shaken>>,
           hurt' \in [Calls -> SUBSET Instances], hurt[c] \subseteq hurt'[c],
           \A d \in Calls : d # c => hurt'[d] = hurt[d],
           Calm(c)' => i \in hurt'[c],
           \A j \in Reviews : Open(c, j) \/ j \in stored[c] => j \in hurt'[c]
    PROVE  GatewayInv'
<1>1. TypeOK
  BY DEF GatewayInv
<1>2. /\ call' \in [Calls -> CallStates]
      /\ call'[c].state = "try" /\ call'[c].phase = call[c].phase
      /\ call'[c].left = call[c].left \ {i}
      /\ \A d \in Calls : d # c => call'[d] = call[d]
  BY <1>1, MoveFacts
<1>3. /\ UNCHANGED <<up, listed, config, store, shaken>> /\ job' = job /\ stored' = stored
  BY DEF parts
<1>4. TypeOK'
  BY <1>1, <1>2 DEF TypeOK, parts
<1>5. CallInv(c)
  BY DEF GatewayInv
<1>6. HealthInv(c)'
  BY <1>2, <1>3, <1>5 DEF CallInv, HealthInv, Active
<1>7. IdleInv(c)' /\ LookupInv(c)' /\ FailureInv(c)'
  BY <1>2 DEF IdleInv, LookupInv, FailureInv, Awaited, Ended
<1>8. LeftInv(c)'
  <2>1. Calm(c)' => Calm(c)
    BY <1>3 DEF Calm
  <2> QED BY <2>1, <1>2, <1>5 DEF CallInv, LeftInv
<1>9. StoreInv(c)'
  BY <1>2, <1>3, <1>5 DEF CallInv, StoreInv, Open, Awaited, Ended
<1>10. CallInv(c)'
  BY <1>6, <1>7, <1>8, <1>9 DEF CallInv
<1> QED BY <1>2, <1>3, <1>4, <1>10, OneCall

\* The gateway answers the call.
LEMMA AnswerStep ==
    ASSUME GatewayInv, NEW c \in Calls, NEW status \in {"created", "401", "5xx", "502"},
           Answer(c, status), UNCHANGED <<parts, job, stored, hurt, shaken>>,
           status \in {"5xx", "502"} =>
               c \in shaken \/ Auths \subseteq hurt[c] \/ Reviews \subseteq hurt[c],
           \A i \in Reviews : Open(c, i) => i \in hurt[c],
           \A i \in Reviews : i \in stored[c] =>
               i \in hurt[c] \/ (status = "created" /\ call[c].at = i),
           status = "created" => stored[c] # {}
    PROVE  GatewayInv'
<1>1. TypeOK
  BY DEF GatewayInv
<1>2. /\ call' \in [Calls -> CallStates]
      /\ call'[c].state = "done" /\ call'[c].answer = status /\ call'[c].at = call[c].at
      /\ \A d \in Calls : d # c => call'[d] = call[d]
  BY <1>1, AnswerFacts
<1>3. UNCHANGED <<up, listed, config, store, shaken>> /\ job' = job /\ stored' = stored /\ hurt' = hurt
  BY DEF parts
<1>4. TypeOK'
  BY <1>1, <1>2 DEF TypeOK, parts
<1>5. CallInv(c)
  BY DEF GatewayInv
<1>6. HealthInv(c)' /\ IdleInv(c)' /\ LeftInv(c)' /\ LookupInv(c)'
  BY <1>2 DEF HealthInv, IdleInv, LeftInv, LookupInv, Active, Awaited
<1>7. FailureInv(c)'
  BY <1>2, <1>3 DEF FailureInv
<1>8. StoreInv(c)'
  BY <1>2, <1>3, <1>5 DEF CallInv, StoreInv, Open, Awaited, Ended
<1>9. CallInv(c)'
  BY <1>6, <1>7, <1>8 DEF CallInv
<1> QED BY <1>2, <1>3, <1>4, <1>9, OneCall

LEMMA ResolveStep ==
    ASSUME GatewayInv, NEW c \in Calls, Resolve(c) PROVE GatewayInv'
<1>1. /\ call[c].state = "resolve" /\ Active(c)
      /\ UNCHANGED <<parts, job, stored, hurt, shaken>>
  BY DEF Resolve, Active
<1>2. CallInv(c) /\ TypeOK
  BY DEF GatewayInv
<1>3. call \in [Calls -> CallStates] /\ call[c] \in CallStates /\ listed \subseteq Instances
  BY <1>2 DEF TypeOK
<1>4. CASE ~config \/ Candidates(c) = {}
  <2>1. Answer(c, "502")
    BY <1>4 DEF Resolve
  <2>2. c \in shaken \/ Auths \subseteq hurt[c] \/ Reviews \subseteq hurt[c]
    BY <1>1, <1>2, <1>4 DEF CallInv, HealthInv, Candidates, Instances
  <2> QED BY <1>1, <2>1, <2>2, NobodyAwaited, AnswerStep
<1>5. CASE ~(~config \/ Candidates(c) = {})
  <2> DEFINE s == [call[c] EXCEPT !.state = "try", !.left = Candidates(c),
                                  !.last = "none", !.error = "none"]
  <2>1. Candidates(c) \subseteq Instances
    BY <1>3 DEF Candidates
  <2>2. s \in CallStates /\ s.state = "try" /\ s.phase = call[c].phase /\ s.left = Candidates(c)
    BY <1>3, <2>1 DEF CallStates
  <2>3. call' = [call EXCEPT ![c] = s]
    BY <1>3, <1>5 DEF Resolve
  <2>4. /\ call' \in [Calls -> CallStates] /\ call'[c].state = "try"
        /\ call'[c].phase = call[c].phase /\ call'[c].left = Candidates(c)
        /\ \A d \in Calls : d # c => call'[d] = call[d]
    BY <1>3, <2>2, <2>3
  <2>5. UNCHANGED <<up, listed, config, store, shaken>> /\ job' = job /\ stored' = stored /\ hurt' = hurt
    BY <1>1 DEF parts
  <2>6. TypeOK'
    BY <1>1, <1>2, <2>4 DEF TypeOK, parts
  <2>7. HealthInv(c)'
    BY <1>1, <1>2, <2>5 DEF CallInv, HealthInv
  <2>8. IdleInv(c)' /\ LookupInv(c)' /\ FailureInv(c)'
    BY <2>4 DEF IdleInv, LookupInv, FailureInv, Awaited, Ended
  <2>9. LeftInv(c)'
    BY <1>1, <1>2, <2>4, <2>5 DEF CallInv, HealthInv, LeftInv, Candidates, Instances
  <2>10. StoreInv(c)'
    <3>1. \A i \in Reviews : Open(c, i) \/ i \in stored[c] \/ job[c][i].stage = "ok" => i \in hurt[c]
      BY <1>1, NobodyAwaited
    <3> QED BY <3>1, <1>2, <2>4, <2>5 DEF CallInv, StoreInv, Open, Awaited, Ended
  <2>11. CallInv(c)'
    BY <2>7, <2>8, <2>9, <2>10 DEF CallInv
  <2> QED BY <2>4, <2>5, <2>6, <2>11, OneCall
<1> QED BY <1>4, <1>5

LEMMA VerifyStep ==
    ASSUME GatewayInv, NEW c \in Calls, NEW a \in Auths, Verify(c, a) PROVE GatewayInv'
<1>1. PICK answer \in AuthAnswers(a) :
        /\ \/ answer \in {"refused", "timeout"} /\ NextError(c, a, answer)
           \/ answer \in {"failed", "5xx"} /\ Next5xx(c, a)
           \/ answer = "401" /\ Answer(c, "401")
           \/ answer = "ok" /\ call' = [call EXCEPT ![c].state = "resolve", ![c].phase = "create"]
        /\ HurtBy(c, a, answer)
  BY DEF Verify
<1>2. /\ call[c].state = "try" /\ call[c].phase = "verify" /\ Active(c)
      /\ UNCHANGED <<parts, job, stored, shaken>>
  BY DEF Verify, Active
<1>3. CallInv(c) /\ TypeOK /\ a \in Instances
  BY DEF GatewayInv, Instances
<1>4. hurt \in [Calls -> SUBSET Instances] /\ call \in [Calls -> CallStates] /\ call[c] \in CallStates
  BY <1>3 DEF TypeOK
<1>5. \A i \in Reviews : Open(c, i) \/ i \in stored[c] \/ job[c][i].stage = "ok" => i \in hurt[c]
  BY <1>2, NobodyAwaited
<1>6. CASE answer \in {"timeout", "failed"}
  <2>1. /\ NextError(c, a, "timeout") \/ Next5xx(c, a)
        /\ hurt' = [hurt EXCEPT ![c] = @ \cup {a}]
    BY <1>1, <1>6 DEF Hurt, HurtBy
  <2>2. /\ hurt' \in [Calls -> SUBSET Instances] /\ hurt'[c] = hurt[c] \cup {a}
        /\ \A d \in Calls : d # c => hurt'[d] = hurt[d]
    BY <2>1, <1>3, <1>4
  <2> QED BY <1>2, <1>5, <2>1, <2>2, MoveStep
<1>7. CASE answer = "refused"
  <2>1. NextError(c, a, "refused") /\ hurt' = hurt /\ a \notin up
    BY <1>1, <1>7 DEF AuthAnswers, Verdict, HurtBy
  <2>2. a \in hurt'[c]
    BY <2>1, <1>2, <1>3 DEF CallInv, HealthInv
  <2> QED BY <1>2, <1>4, <1>5, <2>1, <2>2, MoveStep
<1>8. CASE answer = "5xx"
  <2>1. Next5xx(c, a) /\ hurt' = hurt /\ ~store
    BY <1>1, <1>8 DEF AuthAnswers, Verdict, HurtBy
  <2>2. ~Calm(c)'
    BY <2>1, <1>2, <1>3 DEF CallInv, HealthInv, Calm
  <2> QED BY <1>2, <1>4, <1>5, <2>1, <2>2, MoveStep
<1>9. CASE answer = "401"
  <2>1. Answer(c, "401") /\ hurt' = hurt
    BY <1>1, <1>9 DEF HurtBy
  <2> QED BY <1>2, <1>5, <2>1, AnswerStep
<1>10. CASE answer = "ok"
  <2> DEFINE s == [call[c] EXCEPT !.state = "resolve", !.phase = "create"]
  <2>1. s \in CallStates /\ s.state = "resolve" /\ s.phase = "create"
    BY <1>4 DEF CallStates
  <2>2. call' = [call EXCEPT ![c] = s] /\ hurt' = hurt
    BY <1>1, <1>4, <1>10 DEF HurtBy
  <2>3. /\ call' \in [Calls -> CallStates] /\ call'[c].state = "resolve"
        /\ \A d \in Calls : d # c => call'[d] = call[d]
    BY <1>4, <2>1, <2>2
  <2>4. UNCHANGED <<up, listed, config, store, shaken>> /\ job' = job /\ stored' = stored
    BY <1>2 DEF parts
  <2>5. TypeOK'
    BY <1>2, <1>3, <2>2, <2>3 DEF TypeOK, parts
  <2>6. HealthInv(c)'
    BY <1>2, <1>3, <2>2, <2>4 DEF CallInv, HealthInv
  <2>7. IdleInv(c)' /\ LeftInv(c)' /\ LookupInv(c)' /\ FailureInv(c)'
    BY <2>3 DEF IdleInv, LeftInv, LookupInv, FailureInv, Awaited, Ended
  <2>8. StoreInv(c)'
    BY <1>3, <1>5, <2>2, <2>3, <2>4 DEF CallInv, StoreInv, Open, Awaited, Ended
  <2>9. CallInv(c)'
    BY <2>6, <2>7, <2>8 DEF CallInv
  <2> QED BY <2>2, <2>3, <2>4, <2>5, <2>9, OneCall
<1> QED BY <1>1, <1>6, <1>7, <1>8, <1>9, <1>10

LEMMA TryStep ==
    ASSUME GatewayInv, NEW c \in Calls, NEW i \in Reviews, Try(c, i) PROVE GatewayInv'
<1>1. /\ call[c].state = "try" /\ call[c].phase = "create" /\ Active(c)
      /\ UNCHANGED <<parts, stored, hurt, shaken>>
  BY DEF Try, Active
<1>2. CallInv(c) /\ TypeOK /\ i \in Instances
  BY DEF GatewayInv, Instances
<1>3. /\ hurt \in [Calls -> SUBSET Instances] /\ call \in [Calls -> CallStates] /\ call[c] \in CallStates
      /\ job \in [Calls -> [Reviews -> JobStates]] /\ job[c][i] \in JobStates
  BY <1>2 DEF TypeOK
<1>4. \A j \in Reviews : Open(c, j) \/ j \in stored[c] \/ job[c][j].stage = "ok" => j \in hurt[c]
  BY <1>1, NobodyAwaited
<1>5. CASE i \notin up
  <2>1. NextError(c, i, "refused") /\ job' = job
    BY <1>5 DEF Try
  <2>2. i \in hurt[c]
    BY <1>1, <1>2, <1>5 DEF CallInv, HealthInv
  <2> QED BY <1>1, <1>3, <1>4, <2>1, <2>2, MoveStep
<1>6. CASE i \in up
  <2> DEFINE s == [call[c] EXCEPT !.state = "wait", !.at = i]
             w == [job[c][i] EXCEPT !.stage = "asked"]
  <2>1. s \in CallStates /\ s.state = "wait" /\ s.phase = "create" /\ s.at = i /\ s.left = call[c].left
    BY <1>1, <1>3 DEF CallStates
  <2>2. w \in JobStates /\ w.stage = "asked"
    BY <1>3 DEF JobStates
  <2>3. call' = [call EXCEPT ![c] = s]
    BY <1>3, <1>6 DEF Try
  <2>4. job' = [job EXCEPT ![c][i] = w]
    BY <1>3, <1>6 DEF Try
  <2>5. /\ call' \in [Calls -> CallStates] /\ call'[c].state = "wait" /\ call'[c].phase = "create"
        /\ call'[c].at = i /\ call'[c].left = call[c].left
        /\ \A d \in Calls : d # c => call'[d] = call[d]
    BY <1>3, <2>1, <2>3
  <2>6. /\ job' \in [Calls -> [Reviews -> JobStates]] /\ job'[c][i].stage = "asked"
        /\ \A j \in Reviews : j # i => job'[c][j] = job[c][j]
        /\ \A d \in Calls : d # c => job'[d] = job[d]
    BY <1>3, <2>2, <2>4
  <2>7. UNCHANGED <<up, listed, config, store, shaken>> /\ stored' = stored /\ hurt' = hurt
    BY <1>1 DEF parts
  <2>8. TypeOK'
    BY <1>1, <1>2, <2>5, <2>6 DEF TypeOK, parts
  <2>9. HealthInv(c)'
    BY <1>1, <1>2, <2>7 DEF CallInv, HealthInv
  <2>10. IdleInv(c)' /\ FailureInv(c)'
    BY <2>5 DEF IdleInv, FailureInv, Ended
  <2>11. LeftInv(c)'
    BY <1>1, <1>2, <2>5, <2>7 DEF CallInv, LeftInv, Calm
  <2>12. LookupInv(c)'
    BY <2>5, <2>6 DEF LookupInv, Awaited
  <2>13. StoreInv(c)'
    BY <1>2, <1>4, <2>5, <2>6, <2>7 DEF CallInv, StoreInv, Open, Awaited, Ended
  <2>14. CallInv(c)'
    BY <2>9, <2>10, <2>11, <2>12, <2>13 DEF CallInv
  <2> QED BY <2>5, <2>6, <2>7, <2>8, <2>14, OneCall
<1> QED BY <1>5, <1>6

LEMMA TakeAnswerStep ==
    ASSUME GatewayInv, NEW c \in Calls, NEW i \in Reviews, TakeAnswer(c, i) PROVE GatewayInv'
<1>1. call[c].state = "wait" /\ Awaited(c, i) /\ UNCHANGED <<parts, job, stored, hurt, shaken>>
  BY DEF TakeAnswer, Awaited
<1>2. CallInv(c) /\ hurt \in [Calls -> SUBSET Instances]
  BY DEF GatewayInv, TypeOK
<1>3. \A j \in Reviews : Awaited(c, j) => j = i
  BY <1>1 DEF Awaited
<1>4. CASE job[c][i].stage = "5xx" /\ Next5xx(c, i)
  <2>1. Calm(c)' => i \in hurt'[c]
    BY <1>1, <1>2, <1>4 DEF CallInv, LookupInv, Calm
  <2>2. \A j \in Reviews : Open(c, j) \/ j \in stored[c] => j \in hurt'[c]
    BY <1>1, <1>2, <1>3, <1>4 DEF CallInv, StoreInv, Open, Ended
  <2> QED BY <1>1, <1>2, <1>4, <2>1, <2>2, MoveStep
<1>5. CASE job[c][i].stage = "ok" /\ Answer(c, "created")
  <2>1. i \in stored[c] /\ call[c].at = i
    BY <1>1, <1>2, <1>5 DEF CallInv, StoreInv, Awaited
  <2>2. \A j \in Reviews : Open(c, j) => j \in hurt[c]
    BY <1>2, <1>3, <1>5 DEF CallInv, StoreInv, Open
  <2>3. \A j \in Reviews : j \in stored[c] => j \in hurt[c] \/ call[c].at = j
    BY <1>2, <1>1 DEF CallInv, StoreInv, Awaited, Ended
  <2> QED BY <1>1, <1>5, <2>1, <2>2, <2>3, AnswerStep
<1>6. CASE job[c][i].stage = "401" /\ Answer(c, "401")
  <2>1. \A j \in Reviews : Open(c, j) \/ j \in stored[c] => j \in hurt[c]
    BY <1>1, <1>2, <1>3, <1>6 DEF CallInv, StoreInv, Open, Ended
  <2> QED BY <1>1, <1>6, <2>1, AnswerStep
<1> QED BY <1>4, <1>5, <1>6 DEF TakeAnswer

LEMMA GiveUpStep ==
    ASSUME GatewayInv, NEW c \in Calls, NEW i \in Reviews, GiveUp(c, i) PROVE GatewayInv'
<1>1. /\ call[c].state = "wait" /\ call[c].at = i
      /\ UNCHANGED <<parts, job, stored, shaken>>
      /\ hurt' = [hurt EXCEPT ![c] = @ \cup {i}]
      /\ \E error \in {"refused", "timeout", "broken"} : NextError(c, i, error)
  BY DEF GiveUp, Hurt
<1>2. CallInv(c) /\ hurt \in [Calls -> SUBSET Instances] /\ i \in Instances
  BY DEF GatewayInv, TypeOK, Instances
<1>3. /\ hurt' \in [Calls -> SUBSET Instances] /\ hurt'[c] = hurt[c] \cup {i}
      /\ \A d \in Calls : d # c => hurt'[d] = hurt[d]
  BY <1>1, <1>2
<1>4. \A j \in Reviews : Open(c, j) \/ j \in stored[c] => j \in hurt'[c]
  BY <1>1, <1>2, <1>3 DEF CallInv, StoreInv, Awaited, Ended
<1> QED BY <1>1, <1>3, <1>4, MoveStep

LEMMA ExhaustedStep ==
    ASSUME GatewayInv, NEW c \in Calls, Exhausted(c) PROVE GatewayInv'
<1>1. /\ call[c].state = "try" /\ call[c].left = {}
      /\ UNCHANGED <<parts, job, stored, hurt, shaken>>
  BY DEF Exhausted
<1>2. PICK status \in {"5xx", "502"} : Answer(c, status)
  BY DEF Exhausted
<1>3. CallInv(c) /\ call[c].phase \in {"verify", "create"}
  BY DEF GatewayInv, TypeOK, CallStates
<1>4. c \in shaken \/ Auths \subseteq hurt[c] \/ Reviews \subseteq hurt[c]
  BY <1>1, <1>3 DEF CallInv, LeftInv, Calm
<1>5. \A j \in Reviews : Open(c, j) \/ j \in stored[c] => j \in hurt[c]
  BY <1>1, NobodyAwaited
<1> QED BY <1>1, <1>2, <1>4, <1>5, AnswerStep

----------------------------------------------------------------------------
(* The steps of the reviews instances.                                     *)

\* Instance i goes on with the call; it may fail, and make others fail, in hurt'.
LEMMA JobMove ==
    ASSUME GatewayInv, NEW c \in Calls, NEW i \in Reviews, NEW w \in JobStates,
           Open(c, i), w.stage # "asked",
           job' = [job EXCEPT ![c][i] = w],
           UNCHANGED <<parts, call, shaken>>,
           \/ stored' = stored
           \/ stored' = [stored EXCEPT ![c] = @ \cup {i}] /\ (w.stage = "ok" \/ i \in hurt'[c]),
           w.stage = "ok" => i \in stored'[c],
           \/ hurt' = hurt
           \/ \E j \in Instances : hurt' = [hurt EXCEPT ![c] = @ \cup {j}],
           i \notin hurt'[c] /\ Calm(c)' /\ Awaited(c, i) =>
               /\ w.stage # "5xx"
               /\ w.stage = "lookup" => \A a \in Auths : a \in hurt'[c] \/ a \in w.left
    PROVE  GatewayInv'
<1>1. TypeOK /\ CallInv(c)
  BY DEF GatewayInv
<1>2. /\ job \in [Calls -> [Reviews -> JobStates]] /\ stored \in [Calls -> SUBSET Reviews]
      /\ hurt \in [Calls -> SUBSET Instances]
  BY <1>1 DEF TypeOK
<1>3. UNCHANGED <<up, listed, config, store, shaken>> /\ call' = call
  BY DEF parts
<1>4. /\ job' \in [Calls -> [Reviews -> JobStates]] /\ job'[c][i] = w
      /\ \A j \in Reviews : j # i => job'[c][j] = job[c][j]
      /\ \A d \in Calls : d # c => job'[d] = job[d]
  BY <1>2
<1>5. /\ stored' \in [Calls -> SUBSET Reviews]
      /\ \A d \in Calls : d # c => stored'[d] = stored[d]
      /\ stored[c] \subseteq stored'[c] /\ stored'[c] \subseteq stored[c] \cup {i}
  BY <1>2
<1>6. /\ hurt' \in [Calls -> SUBSET Instances]
      /\ \A d \in Calls : d # c => hurt'[d] = hurt[d]
      /\ hurt[c] \subseteq hurt'[c]
  BY <1>2
<1>7. TypeOK'
  BY <1>1, <1>3, <1>4, <1>5, <1>6 DEF TypeOK, parts
<1>8. i \in hurt[c] \/ Awaited(c, i)
  BY <1>1 DEF CallInv, StoreInv
<1>9. HealthInv(c)'
  BY <1>1, <1>3, <1>6 DEF CallInv, HealthInv, Active
<1>10. IdleInv(c)'
  BY <1>1, <1>3, <1>8 DEF CallInv, IdleInv, Awaited
<1>11. Calm(c)' => Calm(c)
  BY <1>3, <1>6 DEF Calm
<1>12. LeftInv(c)'
  BY <1>1, <1>3, <1>6, <1>11 DEF CallInv, LeftInv
<1>13. LookupInv(c)'
  <2> SUFFICES ASSUME NEW j \in Reviews, Awaited(c, j), j \notin hurt'[c], Calm(c)'
               PROVE  /\ job'[c][j].stage # "5xx"
                      /\ job'[c][j].stage = "lookup" =>
                           \A a \in Auths : a \in hurt'[c] \/ a \in job'[c][j].left
    BY <1>3 DEF LookupInv, Awaited
  <2>1. CASE j = i
    BY <2>1, <1>4
  <2>2. CASE j # i
    BY <2>2, <1>1, <1>4, <1>6, <1>11 DEF CallInv, LookupInv
  <2> QED BY <2>1, <2>2
<1>14. StoreInv(c)'
  <2>1. ASSUME NEW j \in Reviews
        PROVE  /\ job'[c][j].stage \in {"asked", "lookup", "allowed"} => j \in hurt'[c] \/ Awaited(c, j)
               /\ job'[c][j].stage = "ok" => j \in stored'[c]
               /\ j \in stored'[c] =>
                    \/ j \in hurt'[c]
                    \/ Awaited(c, j) /\ job'[c][j].stage = "ok"
                    \/ Ended(c) /\ call[c].at = j /\ call[c].answer = "created"
    <3>1. CASE j # i
      BY <3>1, <1>1, <1>4, <1>5, <1>6 DEF CallInv, StoreInv, Open
    <3>2. CASE j = i
      <4>1. i \in stored[c] => i \in hurt[c]
        BY <1>1, <1>8 DEF CallInv, StoreInv, Open, Awaited, Ended
      <4>2. i \in stored'[c] => w.stage = "ok" \/ i \in hurt'[c]
        BY <4>1, <1>6
      <4> QED BY <3>2, <4>2, <1>4, <1>6, <1>8
    <3> QED BY <3>1, <3>2
  <2>2. Ended(c) /\ call[c].answer = "created" => stored'[c] # {}
    BY <1>1, <1>5 DEF CallInv, StoreInv
  <2> QED BY <2>1, <2>2, <1>3 DEF StoreInv, Open, Awaited, Ended
<1>15. FailureInv(c)'
  BY <1>1, <1>3, <1>6 DEF CallInv, FailureInv, Ended
<1>16. CallInv(c)'
  BY <1>9, <1>10, <1>12, <1>13, <1>14, <1>15 DEF CallInv
<1> QED BY <1>3, <1>4, <1>5, <1>6, <1>7, <1>16, OneCall

\* A job that goes on to another stage, with nobody left to ask.
LEMMA StageMove ==
    ASSUME TypeOK, NEW c \in Calls, NEW i \in Reviews,
           NEW s \in {"lookup", "allowed", "ok", "401", "5xx"}, Stage(c, i, s)
    PROVE  \E w \in JobStates : /\ job' = [job EXCEPT ![c][i] = w] /\ w.stage = s /\ w.left = {}
<1> DEFINE w == [stage |-> s, left |-> {}]
<1>1. w \in JobStates /\ w.stage = s /\ w.left = {}
  BY DEF JobStates
<1> QED BY <1>1 DEF Stage

LEMMA ResolveAuthStep ==
    ASSUME GatewayInv, NEW c \in Calls, NEW i \in Reviews, ResolveAuth(c, i) PROVE GatewayInv'
<1>1. /\ Open(c, i) /\ UNCHANGED <<parts, call, shaken>> /\ stored' = stored /\ hurt' = hurt
      /\ shaken' = shaken
  BY DEF ResolveAuth, Open
<1>2. TypeOK /\ CallInv(c)
  BY DEF GatewayInv
<1>3. CASE ~config \/ listed \cap Auths = {}
  <2>1. PICK w \in JobStates : job' = [job EXCEPT ![c][i] = w] /\ w.stage = "5xx"
    BY <1>2, <1>3, StageMove DEF ResolveAuth
  <2>2. Awaited(c, i) => ~Calm(c)'
    BY <1>1, <1>2, <1>3 DEF CallInv, HealthInv, Awaited, Active, Calm, Instances
  <2> QED BY <1>1, <2>1, <2>2, JobMove
<1>4. CASE ~(~config \/ listed \cap Auths = {})
  <2> DEFINE w == [stage |-> "lookup", left |-> listed \cap Auths]
  <2>1. w \in JobStates /\ w.stage = "lookup" /\ w.left = listed \cap Auths
    BY DEF JobStates
  <2>2. job' = [job EXCEPT ![c][i] = w]
    BY <1>4 DEF ResolveAuth
  <2>3. Awaited(c, i) => \A a \in Auths : a \in hurt'[c] \/ a \in w.left
    BY <1>1, <1>2, <2>1 DEF CallInv, HealthInv, Awaited, Active, Instances
  <2> HIDE DEF w
  <2> QED BY <1>1, <2>1, <2>2, <2>3, JobMove
<1> QED BY <1>3, <1>4

LEMMA AskAuthStep ==
    ASSUME GatewayInv, NEW c \in Calls, NEW i \in Reviews, NEW a \in Auths, AskAuth(c, i, a)
    PROVE  GatewayInv'
<1>1. PICK answer \in AuthAnswers(a) :
        /\ \/ answer \in {"refused", "timeout", "failed", "5xx"}
              /\ job' = [job EXCEPT ![c][i].left = @ \ {a}]
           \/ answer = "401" /\ Stage(c, i, "401")
           \/ answer = "ok" /\ Stage(c, i, "allowed")
        /\ HurtBy(c, a, answer)
  BY DEF AskAuth
<1>2. /\ job[c][i].stage = "lookup" /\ Open(c, i)
      /\ UNCHANGED <<parts, call, shaken>> /\ stored' = stored /\ shaken' = shaken
  BY DEF AskAuth, Open
<1>3. TypeOK /\ CallInv(c) /\ a \in Instances
  BY DEF GatewayInv, Instances
<1>4. /\ hurt \in [Calls -> SUBSET Instances]
      /\ job \in [Calls -> [Reviews -> JobStates]] /\ job[c][i] \in JobStates
  BY <1>3 DEF TypeOK
<1>5. \/ hurt' = hurt
      \/ hurt' = [hurt EXCEPT ![c] = @ \cup {a}]
  BY <1>1 DEF Hurt, HurtBy
<1>6. \/ hurt' = hurt
      \/ \E j \in Instances : hurt' = [hurt EXCEPT ![c] = @ \cup {j}]
  BY <1>3, <1>5
<1>7. ASSUME NEW s \in {"401", "allowed"}, Stage(c, i, s) PROVE GatewayInv'
  <2>1. PICK w \in JobStates : job' = [job EXCEPT ![c][i] = w] /\ w.stage = s
    BY <1>3, <1>7, StageMove
  <2> QED BY <1>2, <1>6, <2>1, JobMove
<1>8. CASE /\ answer \in {"refused", "timeout", "failed", "5xx"}
           /\ job' = [job EXCEPT ![c][i].left = @ \ {a}]
  <2> DEFINE w == [job[c][i] EXCEPT !.left = @ \ {a}]
  <2>1. w \in JobStates /\ w.stage = "lookup" /\ w.left = job[c][i].left \ {a}
    BY <1>2, <1>4 DEF JobStates
  <2>2. job' = [job EXCEPT ![c][i] = w]
    BY <1>4, <1>8
  <2>3. Awaited(c, i) /\ Calm(c)' => a \in hurt'[c]
    <3>1. CASE answer \in {"timeout", "failed"}
      BY <3>1, <1>1, <1>4 DEF Hurt, HurtBy
    <3>2. CASE answer = "refused"
      BY <3>2, <1>1, <1>3 DEF AuthAnswers, Verdict, HurtBy, CallInv, HealthInv, Awaited, Active
    <3>3. CASE answer = "5xx"
      BY <3>3, <1>1, <1>2, <1>3 DEF AuthAnswers, Verdict, HurtBy, CallInv, HealthInv, Awaited, Active, Calm
    <3> QED BY <1>8, <3>1, <3>2, <3>3
  <2>4. hurt[c] \subseteq hurt'[c]
    BY <1>4, <1>5
  <2>5. Calm(c)' => Calm(c)
    BY <1>2, <2>4 DEF Calm
  <2>6. i \notin hurt'[c] /\ Calm(c)' /\ Awaited(c, i) =>
          \A b \in Auths : b \in hurt'[c] \/ b \in w.left
    BY <1>2, <1>3, <2>1, <2>3, <2>4, <2>5 DEF CallInv, LookupInv
  <2> HIDE DEF w
  <2> QED BY <1>2, <1>6, <2>1, <2>2, <2>6, JobMove
<1> QED BY <1>1, <1>7, <1>8

LEMMA NoAuthStep ==
    ASSUME GatewayInv, NEW c \in Calls, NEW i \in Reviews, NoAuth(c, i) PROVE GatewayInv'
<1>1. /\ job[c][i].stage = "lookup" /\ job[c][i].left = {} /\ Open(c, i)
      /\ UNCHANGED <<parts, call, shaken>> /\ stored' = stored /\ hurt' = hurt /\ shaken' = shaken
  BY DEF NoAuth, Open
<1>2. TypeOK /\ CallInv(c)
  BY DEF GatewayInv
<1>3. PICK w \in JobStates : job' = [job EXCEPT ![c][i] = w] /\ w.stage = "5xx"
  BY <1>2, StageMove DEF NoAuth
<1>4. ~(i \notin hurt'[c] /\ Calm(c)' /\ Awaited(c, i))
  BY <1>1, <1>2 DEF CallInv, LookupInv, Calm
<1> QED BY <1>1, <1>3, <1>4, JobMove

LEMMA CreateStep ==
    ASSUME GatewayInv, NEW c \in Calls, NEW i \in Reviews, Create(c, i) PROVE GatewayInv'
<1>1. /\ Open(c, i) /\ UNCHANGED <<parts, call, shaken>> /\ hurt' = hurt
      /\ stored' = [stored EXCEPT ![c] = @ \cup {i}]
  BY DEF Create, Open
<1>2. TypeOK /\ stored \in [Calls -> SUBSET Reviews]
  BY DEF GatewayInv, TypeOK
<1>3. PICK w \in JobStates : job' = [job EXCEPT ![c][i] = w] /\ w.stage = "ok"
  BY <1>2, StageMove DEF Create
<1>4. i \in stored'[c]
  BY <1>1, <1>2
<1> QED BY <1>1, <1>3, <1>4, JobMove

LEMMA CreateFailsStep ==
    ASSUME GatewayInv, NEW c \in Calls, NEW i \in Reviews, CreateFails(c, i) PROVE GatewayInv'
<1>1. /\ Open(c, i) /\ UNCHANGED <<parts, call, shaken>>
      /\ stored' = stored \/ stored' = [stored EXCEPT ![c] = @ \cup {i}]
      /\ hurt' = [hurt EXCEPT ![c] = @ \cup {i}]
  BY DEF CreateFails, Open, Hurt
<1>2. TypeOK /\ hurt \in [Calls -> SUBSET Instances] /\ i \in Instances
  BY DEF GatewayInv, TypeOK, Instances
<1>3. PICK w \in JobStates : job' = [job EXCEPT ![c][i] = w] /\ w.stage = "5xx"
  BY <1>2, StageMove DEF CreateFails
<1>4. i \in hurt'[c]
  BY <1>1, <1>2
<1> QED BY <1>1, <1>2, <1>3, <1>4, JobMove

----------------------------------------------------------------------------
(* The environment.                                                        *)

\* A step of the environment keeps the invariant if the calls in progress know
\* that what it stops has failed.
LEMMA WorldStep ==
    ASSUME GatewayInv, TypeOK', UNCHANGED <<call, stored>>,
           shaken \subseteq shaken',
           \A c \in Calls : HealthInv(c)' /\ hurt[c] \subseteq hurt'[c],
           \A c \in Calls : ~Active(c) => hurt'[c] = hurt[c],
           \A c \in Calls, i \in Reviews :
               \/ job'[c][i] = job[c][i]
               \/ job'[c][i].stage = "gone" /\ (Active(c) => i \in hurt'[c])
    PROVE  GatewayInv'
<1> SUFFICES ASSUME NEW c \in Calls PROVE CallInv(c)'
  BY DEF GatewayInv
<1>1. CallInv(c)
  BY DEF GatewayInv
<1>2. /\ call' = call /\ stored' = stored /\ hurt[c] \subseteq hurt'[c] /\ shaken \subseteq shaken'
      /\ Calm(c)' => Calm(c)
  BY DEF Calm
<1>3. IdleInv(c)'
  BY <1>1, <1>2 DEF CallInv, IdleInv, Active
<1>4. LeftInv(c)'
  BY <1>1, <1>2 DEF CallInv, LeftInv
<1>5. LookupInv(c)'
  BY <1>1, <1>2 DEF CallInv, LookupInv, Awaited, Active
<1>6. StoreInv(c)'
  BY <1>1, <1>2 DEF CallInv, StoreInv, Open, Awaited, Ended, Active
<1>7. FailureInv(c)'
  BY <1>1, <1>2 DEF CallInv, FailureInv, Ended
<1> QED BY <1>3, <1>4, <1>5, <1>6, <1>7 DEF CallInv

LEMMA CrashStep ==
    ASSUME GatewayInv, NEW i \in Instances, Crash(i) PROVE GatewayInv'
<1>1. TypeOK /\ \A c \in Calls : CallInv(c)
  BY DEF GatewayInv
<1>2. /\ hurt \in [Calls -> SUBSET Instances] /\ job \in [Calls -> [Reviews -> JobStates]]
      /\ call' = call /\ stored' = stored /\ shaken' = shaken
      /\ UNCHANGED <<listed, config, store, valid>> /\ up' = up \ {i}
  BY <1>1 DEF TypeOK, Crash
<1>3. hurt' = [c \in Calls |-> IF Active(c) THEN hurt[c] \cup {i} ELSE hurt[c]]
  BY DEF Crash
<1>4. hurt' \in [Calls -> SUBSET Instances]
  BY <1>2, <1>3
<1>5. \A c \in Calls : /\ hurt[c] \subseteq hurt'[c]
                       /\ Active(c) => i \in hurt'[c]
                       /\ ~Active(c) => hurt'[c] = hurt[c]
  BY <1>3
<1>6. job' = [c \in Calls |->
                 IF i \in Reviews /\ job[c][i].stage # "none"
                 THEN [job[c] EXCEPT ![i] = [stage |-> "gone", left |-> {}]] ELSE job[c]]
  BY DEF Crash
<1>7. [stage |-> "gone", left |-> {}] \in JobStates
  BY DEF JobStates
<1>8. job' \in [Calls -> [Reviews -> JobStates]]
  BY <1>2, <1>6, <1>7
<1>9. ASSUME NEW c \in Calls, NEW j \in Reviews
      PROVE  \/ job'[c][j] = job[c][j]
             \/ job'[c][j].stage = "gone" /\ (Active(c) => j \in hurt'[c])
  <2>1. job[c] \in [Reviews -> JobStates]
    BY <1>2
  <2>2. CASE j = i
    BY <2>1, <2>2, <1>5, <1>6
  <2>3. CASE j # i
    BY <2>1, <2>3, <1>6
  <2> QED BY <2>2, <2>3
<1>10. faults' \in 0..MaxFaults
  BY <1>1, FaultsAssumption DEF TypeOK, Crash, Fault
<1>11. TypeOK'
  BY <1>1, <1>2, <1>4, <1>8, <1>10 DEF TypeOK
<1>12. \A c \in Calls : HealthInv(c)'
  BY <1>1, <1>2, <1>5 DEF CallInv, HealthInv, Active
<1> QED BY <1>2, <1>5, <1>9, <1>11, <1>12, WorldStep

LEMMA OutageStep ==
    ASSUME GatewayInv, ConfigEnds \/ RedisEnds PROVE GatewayInv'
<1>1. TypeOK /\ \A c \in Calls : CallInv(c)
  BY DEF GatewayInv
<1>2. /\ UNCHANGED <<up, valid, call, job, stored>>
      /\ shaken' = shaken \cup {c \in Calls : Active(c)}
  BY DEF ConfigEnds, RedisEnds, Shake
<1>3. config' \in BOOLEAN /\ store' \in BOOLEAN /\ listed' \subseteq Instances
  BY <1>1 DEF TypeOK, ConfigEnds, RedisEnds
<1>4. faults' \in 0..MaxFaults
  BY <1>1, FaultsAssumption DEF TypeOK, ConfigEnds, RedisEnds, Fault
<1>5. hurt \in [Calls -> SUBSET Instances]
  BY <1>1 DEF TypeOK
<1>6. hurt' \in [Calls -> SUBSET Instances]
  BY <1>5 DEF ConfigEnds, RedisEnds
<1>7. \A c \in Calls : Active(c) => hurt'[c] = Instances \/ (hurt'[c] = hurt[c] /\ listed' = listed)
  BY <1>5 DEF ConfigEnds, RedisEnds
<1>8. \A c \in Calls : hurt[c] \subseteq hurt'[c] /\ (~Active(c) => hurt'[c] = hurt[c])
  BY <1>5 DEF ConfigEnds, RedisEnds
<1>9. TypeOK'
  BY <1>1, <1>2, <1>3, <1>4, <1>6 DEF TypeOK
<1>10. ASSUME NEW c \in Calls PROVE HealthInv(c)'
  <2>1. Active(c) => c \in shaken'
    BY <1>2
  <2>2. Active(c)' <=> Active(c)
    BY <1>2 DEF Active
  <2>3. HealthInv(c) /\ up' = up
    BY <1>1, <1>2 DEF CallInv
  <2>4. CASE Active(c) /\ hurt'[c] = Instances
    BY <2>1, <2>2, <2>4 DEF HealthInv
  <2>5. CASE Active(c) /\ hurt'[c] = hurt[c] /\ listed' = listed
    BY <2>1, <2>2, <2>3, <2>5 DEF HealthInv
  <2>6. CASE ~Active(c)
    BY <2>2, <2>6 DEF HealthInv
  <2> QED BY <1>7, <2>4, <2>5, <2>6
<1>11. \A c \in Calls, i \in Reviews : job'[c][i] = job[c][i]
  BY <1>2
<1>12. UNCHANGED <<call, stored>> /\ shaken \subseteq shaken'
  BY <1>2
<1> QED BY <1>9, <1>10, <1>11, <1>12, <1>8, WorldStep

LEMMA RepairStep ==
    ASSUME GatewayInv,
           \/ \E i \in Instances : Register(i) \/ Serve(i) \/ Expire(i)
           \/ ConfigStarts \/ RedisStarts \/ Logout
    PROVE  GatewayInv'
<1>1. TypeOK /\ \A c \in Calls : CallInv(c)
  BY DEF GatewayInv
<1>2. UNCHANGED <<faults, call, job, stored, hurt, shaken>>
  BY DEF Register, Serve, Expire, ConfigStarts, RedisStarts, Logout
<1>3. config' \in BOOLEAN /\ store' \in BOOLEAN /\ valid' \in BOOLEAN
  BY <1>1 DEF TypeOK, Register, Serve, Expire, ConfigStarts, RedisStarts, Logout
<1>4. /\ up' \subseteq Instances /\ listed' \subseteq Instances
      /\ \A i \in Instances : i \in up /\ i \in listed => i \in up' /\ i \in listed'
  BY <1>1 DEF TypeOK, Register, Serve, Expire, ConfigStarts, RedisStarts, Logout
<1>5. config /\ store => config' /\ store'
  BY Zenon DEF Register, Serve, Expire, ConfigStarts, RedisStarts, Logout
<1>6. TypeOK'
  BY <1>1, <1>2, <1>3, <1>4 DEF TypeOK
<1>7. ASSUME NEW c \in Calls PROVE HealthInv(c)'
  <2>1. Active(c)' <=> Active(c)
    BY <1>2 DEF Active
  <2>2. HealthInv(c) /\ hurt' = hurt /\ shaken' = shaken
    BY <1>1, <1>2 DEF CallInv
  <2>3. Active(c) => \A i \in Instances \ hurt'[c] : i \in up' /\ i \in listed'
    BY <2>2, <1>4 DEF HealthInv
  <2>4. Active(c) /\ c \notin shaken' => config' /\ store'
    BY <2>2, <1>5, Zenon DEF HealthInv
  <2> QED BY <2>1, <2>3, <2>4 DEF HealthInv
<1>8. /\ UNCHANGED <<call, stored>> /\ shaken \subseteq shaken'
      /\ \A c \in Calls : hurt[c] \subseteq hurt'[c] /\ hurt'[c] = hurt[c]
      /\ \A c \in Calls, i \in Reviews : job'[c][i] = job[c][i]
  BY <1>2
<1> QED BY <1>6, <1>7, <1>8, WorldStep

----------------------------------------------------------------------------
LEMMA NextInv == GatewayInv /\ [Next]_vars => GatewayInv'
<1> SUFFICES ASSUME GatewayInv, [Next]_vars PROVE GatewayInv'
  OBVIOUS
<1>1. ASSUME NEW c \in Calls, Receive(c) PROVE GatewayInv'
  BY <1>1, ReceiveStep
<1>2. ASSUME NEW c \in Calls, GatewayStep(c) PROVE GatewayInv'
  BY <1>2, ResolveStep, VerifyStep, TryStep, TakeAnswerStep, GiveUpStep, ExhaustedStep
     DEF GatewayStep
<1>3. ASSUME NEW c \in Calls, NEW i \in Reviews, JobStep(c, i) PROVE GatewayInv'
  BY <1>3, ResolveAuthStep, AskAuthStep, NoAuthStep, CreateStep, CreateFailsStep DEF JobStep
<1>4. CASE Environment
  BY <1>4, CrashStep, OutageStep, RepairStep DEF Environment
<1>5. CASE UNCHANGED vars
  <2>1. \A c \in Calls : CallInv(c)
    BY DEF GatewayInv
  <2>2. \A c \in Calls : CallInv(c)'
    BY <2>1, <1>5, OthersKept DEF vars, parts
  <2> QED BY <1>5, <2>2 DEF GatewayInv, TypeOK, vars, parts
<1> QED BY <1>1, <1>2, <1>3, <1>4, <1>5 DEF Next

\* The inductive invariant of calls, jobs and instances holds of every behaviour
\* (call_service, verify_authorization_header).
THEOREM Invariance == Spec => []GatewayInv
BY InitInv, NextInv, PTL DEF Spec

\* Every variable of the gateway, the instances and their jobs keeps its type.
THEOREM TypeSafety == Spec => []TypeOK
<1>1. GatewayInv => TypeOK
  BY DEF GatewayInv
<1> QED BY <1>1, Invariance, PTL

\* A call that verify_authorization or call_service answers with an error had no
\* healthy instance of one of the services, or an outage of config server or Redis.
THEOREM PeersHide == Spec => []PeerHidesLoss
<1>1. GatewayInv => PeerHidesLoss
  BY DEF GatewayInv, CallInv, FailureInv, PeerHidesLoss
<1> QED BY <1>1, Invariance, PTL

\* What create_review stored beyond the gateway's answer was stored by instances
\* that failed, or that the gateway had given up on.
THEOREM AnswersMatch == Spec => []AnswerMatchesStore
<1>1. GatewayInv => AnswerMatchesStore
  BY StoresMatch
<1> QED BY <1>1, Invariance, PTL
=============================================================================
