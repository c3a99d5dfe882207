------------------------- MODULE AuthSessionsProofs -------------------------
(***************************************************************************)
(* Proofs about AuthSessions, for any number of Redis nodes, tokens,       *)
(* requests and faults: which answers verify and logout can give.          *)
(*                                                                         *)
(* The log changes in two ways only: it grows by one command, or it is cut *)
(* off.  ExecuteFacts and CutOffFacts say what each of them keeps; the     *)
(* steps of the requests follow from these.                                *)
(***************************************************************************)
EXTENDS AuthSessions, TLAPS

Written(c) == \E i \in 1..Len(log) : log[i] = c

\* A node that is down has to start over.
SeenInv == \A n \in Nodes \ up : seen[n] = 0

\* The log has no command twice, deletes only what was stored before, and only
\* mentions token ids that were handed out.
LogInv ==
    /\ \A i, j \in 1..Len(log) : log[i] = log[j] => i = j
    /\ \A t \in Tokens : \A j \in 1..Len(log) :
          log[j] = <<"del", t>> => \E i \in 1..Len(log) : i < j /\ log[i] = <<"set", t>>
    /\ \A t \in Tokens, c \in {"set", "del"} : Written(<<c, t>>) => t \in used

\* A login in progress has a token of its own that nobody has seen yet; every
\* other request has an issued one.
ReqInv ==
    /\ \A r \in Requests : req[r].op = "login" =>
          /\ req[r].token \in used \ issued
          /\ ~Written(<<"set", req[r].token>>) /\ ~Written(<<"del", req[r].token>>)
    /\ \A r, s \in Requests :
          req[r].op = "login" /\ req[s].op = "login" /\ req[r].token = req[s].token => r = s
    /\ \A r \in Requests :
          req[r].op \in {"verify", "logout", "accepted", "rejected"} => req[r].token \in issued
    /\ \A r \in Requests : req[r].late => req[r].token \in revoked

\* An issued token was stored, and a revoked one is stored no more, unless the
\* command that did it was undone.
TokenInv ==
    /\ \A t \in issued : Written(<<"set", t>>) \/ <<"set", t>> \in lost
    /\ \A t \in revoked : Stored(t) => <<"del", t>> \in lost

\* A node that serves has the whole log.  It takes a fault to lose redis-master,
\* and another to lose the replica that was promoted in its place.
MasterInv ==
    /\ Serving => seen[master] = Len(log)
    /\ demoted => master \in up /\ master # FirstMaster
    /\ master \notin up \/ master # FirstMaster => faults >= 1
    /\ ~Serving /\ master # FirstMaster => faults >= 2
    /\ \A r \in Requests : req[r].stale => TwiceLost(r)

SessionInv ==
    /\ TypeOK /\ SeenInv /\ LogInv /\ ReqInv /\ TokenInv /\ MasterInv
    /\ LoggedOutIsRejected /\ LoggedInIsAccepted

\* No command is forgotten: it is in the log, or it is known to be lost.
Remembered ==
    /\ lost \subseteq lost'
    /\ \A c \in Commands : Written(c) => Written(c)' \/ c \in lost'

----------------------------------------------------------------------------
\* What one command of the master does to the log.
LEMMA ExecuteFacts ==
    ASSUME SessionInv, NEW c \in {"set", "del"}, NEW t \in Tokens, Execute(c, t),
           t \in used, used' = used, lost' = lost,
           c = "set" => ~Written(<<"set", t>>) /\ ~Written(<<"del", t>>)
    PROVE  /\ log' \in Seq(Commands)
           /\ seen' \in [Nodes -> Nat] /\ \A n \in Nodes : seen'[n] <= Len(log')
           /\ master' = master /\ up' = up /\ demoted' = demoted
           /\ SeenInv' /\ seen'[master] = Len(log')
           /\ LogInv' /\ Remembered
           /\ \A d \in Commands : Written(d)' => Written(d) \/ d = <<c, t>>
           /\ c = "set" => Written(<<"set", t>>)'
           /\ c = "del" => ~Stored(t)'
           /\ \A u \in Tokens : Stored(u)' => Stored(u) \/ (c = "set" /\ u = t)
<1>1. /\ log \in Seq(Commands) /\ Len(log) \in Nat
      /\ seen \in [Nodes -> Nat] /\ \A n \in Nodes : seen[n] <= Len(log)
      /\ master \in up /\ up \subseteq Nodes /\ seen[master] = Len(log)
  BY DEF SessionInv, TypeOK, MasterInv, Execute, Serving
<1>2. CASE c = "del" /\ ~Stored(t)
  <2>1. /\ log' = log /\ seen' = seen /\ master' = master /\ up' = up /\ demoted' = demoted
    BY <1>2 DEF Execute, redisVars
  <2>2. \A d : Written(d)' <=> Written(d)
    BY <2>1 DEF Written
  <2>3. \A u : Stored(u)' <=> Stored(u)
    BY <2>1 DEF Stored, Holds
  <2>4. SeenInv' /\ LogInv'
    BY <2>1, <2>2 DEF SessionInv, SeenInv, LogInv
  <2> QED BY <1>1, <1>2, <2>1, <2>2, <2>3, <2>4 DEF Remembered
<1>3. CASE ~(c = "del" /\ ~Stored(t))
  <2> DEFINE e == <<c, t>>
             L == Len(log)
  <2>1. e \in Commands
    BY DEF Commands
  <2>2. /\ log' = Append(log, e)
        /\ seen' = [seen EXCEPT ![master] = L + 1]
        /\ master' = master /\ up' = up /\ demoted' = demoted
    BY <1>3 DEF Execute
  <2>3. /\ log' \in Seq(Commands) /\ Len(log') = L + 1
        /\ \A i \in 1..L : log'[i] = log[i]
        /\ log'[L + 1] = e
    BY <2>1, <2>2, <1>1
  <2>4. /\ seen' \in [Nodes -> Nat]
        /\ \A n \in Nodes : seen'[n] <= Len(log')
        /\ seen'[master] = Len(log')
    BY <2>2, <2>3, <1>1
  <2>5. SeenInv'
    BY <2>2, <1>1 DEF SessionInv, SeenInv
  <2>6. \A d : Written(d) => Written(d)'
    BY <2>3, <1>1 DEF Written
  <2>7. Written(e)'
    BY <2>3, <1>1 DEF Written
  <2>8. ASSUME NEW d, Written(d)' PROVE Written(d) \/ d = e
    <3>1. PICK i \in 1..(L + 1) : log'[i] = d
      BY <2>8, <2>3 DEF Written
    <3>2. CASE i \in 1..L
      BY <3>1, <3>2, <2>3 DEF Written
    <3>3. CASE i = L + 1
      BY <3>1, <3>3, <2>3
    <3> QED BY <3>1, <3>2, <3>3, <1>1
  <2>9. ~Written(e)
    <3>1. CASE c = "set"
      BY <3>1
    <3>2. CASE c = "del"
      <4>1. PICK i \in 1..L : /\ log[i] = <<"set", t>>
                              /\ \A j \in (i + 1)..L : log[j] # <<"del", t>>
        BY <1>3, <3>2 DEF Stored, Holds
      <4>2. ASSUME NEW j \in 1..L, log[j] = <<"del", t>> PROVE FALSE
        <5>1. PICK k \in 1..L : k < j /\ log[k] = <<"set", t>>
          BY <4>2 DEF SessionInv, LogInv
        <5>2. k = i
          BY <4>1, <5>1 DEF SessionInv, LogInv
        <5>3. j \in (i + 1)..L
          BY <5>1, <5>2, <1>1
        <5> QED BY <5>3, <4>1, <4>2
      <4> QED BY <3>2, <4>2 DEF Written
    <3> QED BY <3>1, <3>2
  <2>10. LogInv'
    <3>1. ASSUME NEW i \in 1..Len(log'), NEW j \in 1..Len(log'), log'[i] = log'[j]
          PROVE  i = j
      <4>1. \A k \in 1..L : log[k] # e
        BY <2>9 DEF Written
      <4>2. \A k \in 1..(L + 1) : k \in 1..L \/ k = L + 1
        BY <1>1
      <4>3. CASE i \in 1..L /\ j \in 1..L
        BY <3>1, <4>3, <2>3 DEF SessionInv, LogInv
      <4>4. CASE i = L + 1 \/ j = L + 1
        <5>1. log'[i] = e /\ log'[j] = e
          BY <3>1, <4>4, <2>3
        <5> QED BY <5>1, <4>1, <4>2, <2>3
      <4> QED BY <4>2, <4>3, <4>4, <2>3
    <3>2. ASSUME NEW u \in Tokens, NEW j \in 1..Len(log'), log'[j] = <<"del", u>>
          PROVE  \E i \in 1..Len(log') : i < j /\ log'[i] = <<"set", u>>
      <4>1. CASE j \in 1..L
        <5>1. PICK i \in 1..L : i < j /\ log[i] = <<"set", u>>
          BY <4>1, <3>2, <2>3 DEF SessionInv, LogInv
        <5>2. i \in 1..Len(log') /\ log'[i] = <<"set", u>>
          BY <5>1, <2>3, <1>1
        <5> QED BY <5>1, <5>2
      <4>2. CASE j = L + 1
        <5>1. c = "del" /\ u = t
          BY <4>2, <3>2, <2>3
        <5>2. PICK i \in 1..L : log[i] = <<"set", t>>
          BY <5>1, <1>3 DEF Stored, Holds
        <5>3. i \in 1..Len(log') /\ log'[i] = <<"set", u>> /\ i < j
          BY <4>2, <5>1, <5>2, <2>3, <1>1
        <5> QED BY <5>3
      <4> QED BY <4>1, <4>2, <2>3, <1>1
    <3>3. ASSUME NEW u \in Tokens, NEW d \in {"set", "del"}, Written(<<d, u>>)'
          PROVE  u \in used'
      BY <3>3, <2>8 DEF SessionInv, LogInv
    <3> QED BY <3>1, <3>2, <3>3 DEF LogInv
  <2>11. Remembered
    BY <2>6 DEF Remembered
  <2>12. c = "del" => ~Stored(t)'
    <3>1. ASSUME c = "del", NEW i \in 1..Len(log'), log'[i] = <<"set", t>>
          PROVE  \E j \in (i + 1)..Len(log') : log'[j] = <<"del", t>>
      <4>1. i # L + 1
        BY <3>1, <2>3
      <4>2. L + 1 \in (i + 1)..Len(log')
        BY <4>1, <3>1, <2>3, <1>1
      <4> QED BY <3>1, <4>2, <2>3
    <3> QED BY <3>1 DEF Stored, Holds
  <2>13. ASSUME NEW u \in Tokens, Stored(u)', ~(c = "set" /\ u = t)
         PROVE  Stored(u)
    <3>1. PICK i \in 1..Len(log') : /\ log'[i] = <<"set", u>>
                                    /\ \A j \in (i + 1)..Len(log') : log'[j] # <<"del", u>>
      BY <2>13 DEF Stored, Holds
    <3>2. i \in 1..L
      BY <3>1, <2>3, <2>13, <1>1
    <3>3. \A j \in (i + 1)..L : log[j] # <<"del", u>>
      BY <3>1, <3>2, <2>3, <1>1
    <3>4. log[i] = <<"set", u>>
      BY <3>1, <3>2, <2>3
    <3> QED BY <3>2, <3>3, <3>4 DEF Stored, Holds
  <2> QED BY <2>2, <2>3, <2>4, <2>5, <2>7, <2>8, <2>10, <2>11, <2>12, <2>13
<1> QED BY <1>2, <1>3

\* What a loss of everything after the first k commands does to the log.
LEMMA CutOffFacts ==
    ASSUME SessionInv, NEW k \in 0..Len(log), CutOff(k), used' = used
    PROVE  /\ log' \in Seq(Commands) /\ Len(log') = k
           /\ \A i \in 1..k : log'[i] = log[i]
           /\ lost' \subseteq Commands
           /\ LogInv' /\ Remembered
           /\ \A d : Written(d)' => Written(d)
           /\ \A u \in Tokens : Stored(u)' => Stored(u) \/ <<"del", u>> \in lost'
<1>1. log \in Seq(Commands) /\ Len(log) \in Nat /\ lost \subseteq Commands
  BY DEF SessionInv, TypeOK
<1>2. /\ log' \in Seq(Commands) /\ Len(log') = k
      /\ \A i \in 1..k : log'[i] = log[i]
  BY <1>1 DEF CutOff
<1>3. /\ lost' \subseteq Commands /\ lost \subseteq lost'
      /\ \A i \in (k + 1)..Len(log) : log[i] \in lost'
  BY <1>1 DEF CutOff
<1>4. \A d : Written(d)' => Written(d)
  BY <1>1, <1>2 DEF Written
<1>5. Remembered
  <2>1. ASSUME NEW c \in Commands, Written(c) PROVE Written(c)' \/ c \in lost'
    <3>1. PICK i \in 1..Len(log) : log[i] = c
      BY <2>1 DEF Written
    <3>2. CASE i <= k
      BY <3>1, <3>2, <1>1, <1>2 DEF Written
    <3>3. CASE i > k
      BY <3>1, <3>3, <1>1, <1>3
    <3> QED BY <3>2, <3>3, <1>1
  <2> QED BY <2>1, <1>3 DEF Remembered
<1>6. LogInv'
  <2>1. ASSUME NEW i \in 1..Len(log'), NEW j \in 1..Len(log'), log'[i] = log'[j]
        PROVE  i = j
    BY <2>1, <1>1, <1>2 DEF SessionInv, LogInv
  <2>2. ASSUME NEW u \in Tokens, NEW j \in 1..Len(log'), log'[j] = <<"del", u>>
        PROVE  \E i \in 1..Len(log') : i < j /\ log'[i] = <<"set", u>>
    <3>1. j \in 1..Len(log) /\ log[j] = <<"del", u>>
      BY <2>2, <1>1, <1>2
    <3>2. PICK i \in 1..Len(log) : i < j /\ log[i] = <<"set", u>>
      BY <3>1 DEF SessionInv, LogInv
    <3>3. i \in 1..Len(log')
      BY <3>2, <2>2, <1>1, <1>2
    <3> QED BY <3>2, <3>3, <1>2
  <2>3. ASSUME NEW u \in Tokens, NEW d \in {"set", "del"}, Written(<<d, u>>)'
        PROVE  u \in used'
    BY <2>3, <1>4 DEF SessionInv, LogInv
  <2> QED BY <2>1, <2>2, <2>3 DEF LogInv
<1>7. ASSUME NEW u \in Tokens, Stored(u)', <<"del", u>> \notin lost'
      PROVE  Stored(u)
  <2>1. PICK i \in 1..k : /\ log'[i] = <<"set", u>>
                          /\ \A j \in (i + 1)..k : log'[j] # <<"del", u>>
    BY <1>7, <1>2 DEF Stored, Holds
  <2>2. \A j \in (i + 1)..k : log[j] # <<"del", u>>
    BY <2>1, <1>2
  <2>3. \A j \in (k + 1)..Len(log) : log[j] # <<"del", u>>
    BY <1>7, <1>3
  <2>4. \A j \in (i + 1)..Len(log) : log[j] # <<"del", u>>
    BY <2>1, <2>2, <2>3, <1>1
  <2>5. i \in 1..Len(log) /\ log[i] = <<"set", u>>
    BY <2>1, <1>1, <1>2
  <2> QED BY <2>4, <2>5 DEF Stored, Holds
<1> QED BY <1>2, <1>3, <1>4, <1>5, <1>6, <1>7

----------------------------------------------------------------------------
LEMMA InitInv == Init => SessionInv
<1> SUFFICES ASSUME Init PROVE SessionInv
  OBVIOUS
<1>1. Idle \in [op : {"idle", "login", "verify", "logout", "accepted", "rejected"},
                token : Tokens \cup {NoToken}, late : BOOLEAN, stale : BOOLEAN]
  BY DEF Idle
<1>2. TypeOK
  <2>1. log = << >> /\ seen = [n \in Nodes |-> 0] /\ up = Nodes /\ faults = 0
    BY DEF Init
  <2>2. log \in Seq(Commands) /\ seen \in [Nodes -> Nat] /\ faults \in 0..MaxFaults
        /\ \A n \in Nodes : seen[n] <= Len(log)
    BY <2>1, FaultsAssumption
  <2>3. demoted \in BOOLEAN
    BY DEF Init
  <2>4. req \in [Requests ->
                  [op : {"idle", "login", "verify", "logout", "accepted", "rejected"},
                   token : Tokens \cup {NoToken}, late : BOOLEAN, stale : BOOLEAN]]
    BY <1>1 DEF Init
  <2> QED BY <2>1, <2>2, <2>3, <2>4, NodesAssumption DEF Init, TypeOK
<1>3. \A r \in Requests : req[r].op = "idle" /\ ~req[r].late /\ ~req[r].stale
  BY DEF Init, Idle
<1>4. Len(log) = 0
  BY DEF Init
<1>5. SeenInv /\ LogInv /\ MasterInv
  BY <1>3, <1>4, NodesAssumption DEF Init, SeenInv, LogInv, MasterInv, Serving, Written
<1>6. ReqInv /\ TokenInv /\ LoggedOutIsRejected /\ LoggedInIsAccepted
  BY <1>3 DEF Init, ReqInv, TokenInv, LoggedOutIsRejected, LoggedInIsAccepted
<1> QED BY <1>2, <1>5, <1>6 DEF SessionInv

\* Redis may do what it likes as long as it remembers what it undoes.
LEMMA RequestsKept ==
    ASSUME SessionInv, UNCHANGED <<req, tokenVars>>, Remembered,
           faults' \in Nat, faults <= faults',
           \A d : Written(d)' => Written(d),
           \A u \in Tokens : Stored(u)' => Stored(u) \/ <<"del", u>> \in lost'
    PROVE  /\ ReqInv' /\ TokenInv' /\ LoggedOutIsRejected' /\ LoggedInIsAccepted'
           /\ \A r \in Requests : req'[r].stale => TwiceLost(r)'
<1>1. req' = req /\ used' = used /\ issued' = issued /\ revoked' = revoked
  BY DEF tokenVars
<1>2. issued \subseteq Tokens /\ revoked \subseteq Tokens
  BY DEF SessionInv, TypeOK
<1>3. \A u \in Tokens : <<"set", u>> \in Commands /\ <<"del", u>> \in Commands
  BY DEF Commands
<1>4. ReqInv'
  BY <1>1 DEF SessionInv, ReqInv
<1>5. TokenInv'
  BY <1>1, <1>2, <1>3 DEF SessionInv, TokenInv, Remembered
<1>late. /\ \A r \in Requests : TwiceLost(r) => TwiceLost(r)'
         /\ \A r \in Requests : req'[r].stale => TwiceLost(r)'
  BY <1>1 DEF SessionInv, TypeOK, MasterInv, TwiceLost
<1>6. LoggedOutIsRejected'
  BY <1>1, <1>late DEF SessionInv, LoggedOutIsRejected, Remembered
<1>7. LoggedInIsAccepted'
  <2>1. ASSUME NEW r \in Requests, req[r].op = "rejected", ~TwiceLost(r)
        PROVE  \/ <<"set", req[r].token>> \in lost'
               \/ <<"del", req[r].token>> \in lost'
               \/ \E i \in 1..Len(log') : log'[i] = <<"del", req[r].token>>
    <3>1. req[r].token \in Tokens
      BY <2>1, <1>2 DEF SessionInv, ReqInv
    <3>2. \/ <<"set", req[r].token>> \in lost
          \/ <<"del", req[r].token>> \in lost
          \/ Written(<<"del", req[r].token>>)
      BY <2>1 DEF SessionInv, LoggedInIsAccepted, Written
    <3> QED BY <3>1, <3>2, <1>3 DEF Remembered, Written
  <2> QED BY <2>1, <1>1, <1>late DEF LoggedInIsAccepted
<1> QED BY <1>late, <1>4, <1>5, <1>6, <1>7

LEMMA RedisKeepsInv == ASSUME SessionInv, RedisStep PROVE SessionInv'
<1>1. /\ log \in Seq(Commands) /\ Len(log) \in Nat /\ lost \subseteq Commands
      /\ master \in Nodes /\ up \subseteq Nodes /\ seen \in [Nodes -> Nat]
      /\ \A n \in Nodes : seen[n] <= Len(log)
      /\ faults \in 0..MaxFaults /\ MaxFaults \in Nat /\ demoted \in BOOLEAN
      /\ \A r \in Requests : req[r].stale => TwiceLost(r)
  BY FaultsAssumption DEF SessionInv, TypeOK, MasterInv
<1>2. ASSUME log' = log, lost' = lost, UNCHANGED <<req, tokenVars>>,
             faults' \in Nat, faults <= faults'
      PROVE  /\ LogInv' /\ ReqInv' /\ TokenInv' /\ LoggedOutIsRejected' /\ LoggedInIsAccepted'
             /\ \A r \in Requests : req'[r].stale => TwiceLost(r)'
  <2>1. \A d : Written(d)' <=> Written(d)
    BY <1>2 DEF Written
  <2>2. \A u : Stored(u)' <=> Stored(u)
    BY <1>2 DEF Stored, Holds
  <2>3. Remembered
    BY <1>2, <2>1 DEF Remembered
  <2>4. LogInv'
    BY <1>2, <2>1 DEF SessionInv, LogInv, tokenVars
  <2> QED BY <1>2, <2>1, <2>2, <2>3, <2>4, RequestsKept
<1>3. ASSUME NEW n \in Nodes, Replicate(n) PROVE SessionInv'
  <2>1. seen[n] + 1 \in Nat /\ seen[n] + 1 <= Len(log)
    BY <1>1, <1>3 DEF Replicate
  <2>2. TypeOK'
    BY <1>1, <1>3, <2>1 DEF SessionInv, TypeOK, Replicate, tokenVars
  <2>3. SeenInv'
    BY <1>1, <1>3 DEF SessionInv, SeenInv, Replicate
  <2>4. MasterInv'
    BY <1>1, <1>2, <1>3 DEF SessionInv, MasterInv, Serving, Replicate, tokenVars
  <2> QED BY <1>1, <1>2, <1>3, <2>2, <2>3, <2>4 DEF Replicate, SessionInv
<1>4. ASSUME NEW n \in Nodes, Crash(n) PROVE SessionInv'
  <2>1. TypeOK'
    BY <1>1, <1>4 DEF SessionInv, TypeOK, Crash, Fault, tokenVars
  <2>2. SeenInv'
    BY <1>1, <1>4 DEF SessionInv, SeenInv, Crash
  <2>3. faults' = faults + 1 /\ faults \in Nat
    BY <1>1, <1>4 DEF Crash, Fault
  <2>4. /\ LogInv' /\ ReqInv' /\ TokenInv' /\ LoggedOutIsRejected' /\ LoggedInIsAccepted'
        /\ \A r \in Requests : req'[r].stale => TwiceLost(r)'
    BY <1>2, <1>4, <2>3 DEF Crash
  <2>5. MasterInv'
    <3>1. /\ master' = master /\ log' = log /\ up' = up \ {n}
          /\ seen' = [seen EXCEPT ![n] = 0] /\ demoted' = (demoted /\ n # master)
      BY <1>4 DEF Crash
    <3>2. Serving' => seen'[master] = Len(log)
      BY <3>1, <1>1 DEF SessionInv, MasterInv, Serving
    <3>3. demoted' => master \in up' /\ master # FirstMaster
      BY <3>1 DEF SessionInv, MasterInv
    <3>4. master # FirstMaster => faults' >= 2
      BY <2>3, <1>1 DEF SessionInv, MasterInv
    <3> QED BY <2>3, <2>4, <3>1, <3>2, <3>3, <3>4 DEF MasterInv
  <2> QED BY <2>1, <2>2, <2>4, <2>5 DEF SessionInv
<1>5. ASSUME NEW n \in Nodes, RestartReplica(n) PROVE SessionInv'
  <2>1. TypeOK'
    BY <1>1, <1>5 DEF SessionInv, TypeOK, RestartReplica, tokenVars
  <2>2. SeenInv'
    BY <1>1, <1>5 DEF SessionInv, SeenInv, RestartReplica
  <2>3. MasterInv'
    BY <1>1, <1>2, <1>5 DEF SessionInv, MasterInv, Serving, RestartReplica, tokenVars
  <2> QED BY <1>1, <1>2, <1>5, <2>1, <2>2, <2>3 DEF RestartReplica, SessionInv
<1>6. CASE RestartMaster
  <2>1. /\ seen' = [n \in Nodes |-> IF n \in up' THEN Len(log) ELSE 0]
        /\ up' = up \cup {master} /\ master' = master /\ demoted' = demoted
        /\ log' = log /\ lost' = lost /\ faults' = faults /\ UNCHANGED <<req, tokenVars>>
    BY <1>6 DEF RestartMaster
  <2>2. TypeOK'
    BY <1>1, <2>1 DEF SessionInv, TypeOK, tokenVars
  <2>3. SeenInv'
    BY <2>1 DEF SeenInv
  <2>4. MasterInv'
    BY <1>1, <1>2, <2>1 DEF SessionInv, MasterInv, Serving
  <2> QED BY <1>1, <1>2, <2>1, <2>2, <2>3, <2>4 DEF SessionInv
<1>7. ASSUME NEW k \in 0..Len(log), RestartDemoted(k) PROVE SessionInv'
  <2>1. /\ master \notin up /\ master # FirstMaster
        /\ seen' = [seen EXCEPT ![master] = k] /\ demoted' = TRUE
        /\ up' = up \cup {master} /\ master' = master
        /\ log' = log /\ lost' = lost /\ faults' = faults /\ UNCHANGED <<req, tokenVars>>
    BY <1>7 DEF RestartDemoted
  <2>2. TypeOK'
    BY <1>1, <2>1 DEF SessionInv, TypeOK, tokenVars
  <2>3. SeenInv'
    BY <1>1, <2>1 DEF SessionInv, SeenInv
  <2>4. MasterInv'
    BY <1>1, <1>2, <2>1 DEF SessionInv, MasterInv, Serving
  <2> QED BY <1>1, <1>2, <2>1, <2>2, <2>3, <2>4 DEF SessionInv
<1>8. ASSUME NEW n \in Nodes, Failover(n) PROVE SessionInv'
  <2> DEFINE k == seen[n]
             rejoined == IF master \in up THEN k ELSE 0
  <2>1. CutOff(k) /\ UNCHANGED <<req, tokenVars>> /\ k \in 0..Len(log)
    BY <1>1, <1>8 DEF Failover
  <2>2. /\ ~Serving /\ n \in up /\ n # master /\ master' = n /\ up' = up
        /\ demoted' = FALSE /\ faults' = faults
        /\ seen' = [seen EXCEPT ![master] = rejoined]
    BY <1>8 DEF Failover
  <2>3. /\ log' \in Seq(Commands) /\ Len(log') = k /\ lost' \subseteq Commands
        /\ LogInv' /\ ReqInv' /\ TokenInv' /\ LoggedOutIsRejected' /\ LoggedInIsAccepted'
        /\ \A r \in Requests : req'[r].stale => TwiceLost(r)'
    <3>1. used' = used /\ faults' \in Nat /\ faults <= faults'
      BY <1>1, <2>1, <2>2 DEF tokenVars
    <3> QED BY <2>1, <3>1, CutOffFacts, RequestsKept
  <2>4. \A m \in Nodes : seen'[m] \in Nat /\ seen'[m] <= k
    <3>1. \A m \in up \ {master} : seen[m] <= k
      BY <1>8 DEF Failover
    <3>2. \A m \in Nodes \ up : seen[m] = 0
      BY DEF SessionInv, SeenInv
    <3>3. rejoined \in Nat /\ rejoined <= k
      BY <2>1
    <3> QED BY <2>1, <2>2, <3>1, <3>2, <3>3, <1>1
  <2>5. TypeOK'
    BY <1>1, <2>1, <2>2, <2>3, <2>4 DEF SessionInv, TypeOK, tokenVars
  <2>6. SeenInv'
    BY <1>1, <2>2 DEF SessionInv, SeenInv
  <2>7. MasterInv'
    <3>1. seen'[n] = k
      BY <1>1, <2>2
    <3>2. faults >= 1
      BY <2>2, <1>1 DEF SessionInv, MasterInv, Serving
    <3> QED BY <2>2, <2>3, <3>1, <3>2 DEF MasterInv, Serving
  <2> QED BY <2>3, <2>5, <2>6, <2>7 DEF SessionInv
<1> QED BY <1>3, <1>4, <1>5, <1>6, <1>7, <1>8 DEF RedisStep

----------------------------------------------------------------------------
\* A request that executes a command and ends, with or without telling the user.
LEMMA WriteKeepsInv ==
    ASSUME SessionInv, NEW r \in Requests, NEW c \in {"set", "del"},
           NEW t \in Tokens, req[r].token = t,
           req[r].op = (IF c = "set" THEN "login" ELSE "logout"),
           Execute(c, t), End(r),
           used' = used, lost' = lost, faults' \in faults..MaxFaults,
           issued' = issued \/ (c = "set" /\ issued' = issued \cup {t}),
           revoked' = revoked \/ (c = "del" /\ revoked' = revoked \cup {t})
    PROVE  SessionInv'
<1>1. /\ issued \subseteq used /\ used \subseteq Tokens /\ revoked \subseteq issued
      /\ master \in Nodes /\ up \subseteq Nodes /\ lost \subseteq Commands
      /\ demoted \in BOOLEAN /\ faults \in Nat /\ faults' \in 0..MaxFaults /\ faults <= faults'
  BY FaultsAssumption DEF SessionInv, TypeOK
<1>2. /\ t \in used
      /\ c = "set" => t \notin issued /\ ~Written(<<"set", t>>) /\ ~Written(<<"del", t>>)
      /\ c = "del" => t \in issued
  BY <1>1 DEF SessionInv, ReqInv
<1>4. /\ log' \in Seq(Commands)
      /\ seen' \in [Nodes -> Nat] /\ \A n \in Nodes : seen'[n] <= Len(log')
      /\ master' = master /\ up' = up /\ demoted' = demoted
      /\ SeenInv' /\ seen'[master] = Len(log')
      /\ LogInv' /\ Remembered
      /\ \A d \in Commands : Written(d)' => Written(d) \/ d = <<c, t>>
      /\ c = "set" => Written(<<"set", t>>)'
      /\ c = "del" => ~Stored(t)'
      /\ \A u \in Tokens : Stored(u)' => Stored(u) \/ (c = "set" /\ u = t)
  BY <1>2, ExecuteFacts
<1>5. /\ req' = [req EXCEPT ![r] = Idle]
      /\ Idle.op = "idle" /\ ~Idle.late /\ ~Idle.stale /\ Idle.token = NoToken
  BY DEF End, Idle
<1>6. TypeOK'
  <2>1. req' \in [Requests ->
                   [op : {"idle", "login", "verify", "logout", "accepted", "rejected"},
                    token : Tokens \cup {NoToken}, late : BOOLEAN, stale : BOOLEAN]]
    BY <1>5 DEF SessionInv, TypeOK, Idle
  <2>2. issued' \subseteq used' /\ used' \subseteq Tokens /\ revoked' \subseteq issued'
    BY <1>1, <1>2
  <2> QED BY <1>1, <1>4, <2>1, <2>2 DEF TypeOK
<1>7. \A s \in Requests : s # r => req'[s] = req[s]
  BY <1>5 DEF SessionInv, TypeOK
<1>8. req'[r] = Idle
  BY <1>5 DEF SessionInv, TypeOK
<1>9. \A u \in Tokens : <<"set", u>> \in Commands /\ <<"del", u>> \in Commands
  BY DEF Commands
<1>10. ReqInv'
  <2>1. ASSUME NEW s \in Requests, req'[s].op = "login"
        PROVE  /\ req'[s].token \in used' \ issued'
               /\ \A i \in 1..Len(log') : log'[i] \notin {<<"set", req'[s].token>>, <<"del", req'[s].token>>}
    <3>1. s # r /\ req'[s] = req[s]
      BY <2>1, <1>5, <1>7, <1>8
    <3>2. /\ req[s].token \in used \ issued
          /\ ~Written(<<"set", req[s].token>>) /\ ~Written(<<"del", req[s].token>>)
      BY <2>1, <3>1 DEF SessionInv, ReqInv
    <3>3. req[s].token # t
      <4>1. CASE c = "set"
        BY <4>1, <2>1, <3>1 DEF SessionInv, ReqInv
      <4>2. CASE c = "del"
        BY <4>2, <3>2, <1>2
      <4> QED BY <4>1, <4>2
    <3>4. /\ <<"set", req[s].token>> \in Commands /\ <<"del", req[s].token>> \in Commands
          /\ <<"set", req[s].token>> # <<c, t>> /\ <<"del", req[s].token>> # <<c, t>>
      BY <3>2, <3>3, <1>1, <1>9
    <3>5. \A d \in {<<"set", req[s].token>>, <<"del", req[s].token>>} :
             \A i \in 1..Len(log') : log'[i] # d
      <4>1. \A d \in {<<"set", req[s].token>>, <<"del", req[s].token>>} : ~Written(d)'
        BY <3>2, <3>4, <1>4
      <4> QED BY <4>1 DEF Written
    <3>6. req'[s].token \in used' \ issued'
      BY <3>1, <3>2, <3>3
    <3> QED BY <3>1, <3>5, <3>6
  <2>2. ASSUME NEW s \in Requests, NEW q \in Requests,
               req'[s].op = "login", req'[q].op = "login", req'[s].token = req'[q].token
        PROVE  s = q
    BY <2>2, <1>5, <1>7, <1>8 DEF SessionInv, ReqInv
  <2>3. ASSUME NEW s \in Requests,
               req'[s].op \in {"verify", "logout", "accepted", "rejected"}
        PROVE  req'[s].token \in issued'
    BY <2>3, <1>5, <1>7, <1>8 DEF SessionInv, ReqInv
  <2>4. ASSUME NEW s \in Requests, req'[s].late PROVE req'[s].token \in revoked'
    BY <2>4, <1>5, <1>7, <1>8 DEF SessionInv, ReqInv
  <2> QED BY <2>1, <2>2, <2>3, <2>4 DEF ReqInv, Written
<1>11. TokenInv'
  <2>1. ASSUME NEW u \in issued' PROVE Written(<<"set", u>>)' \/ <<"set", u>> \in lost'
    <3>1. CASE u \in issued
      BY <3>1, <1>1, <1>4, <1>9 DEF SessionInv, TokenInv, Remembered
    <3>2. CASE u \notin issued
      BY <3>2, <2>1, <1>4
    <3> QED BY <3>1, <3>2
  <2>2. ASSUME NEW u \in revoked', Stored(u)' PROVE <<"del", u>> \in lost'
    <3>1. CASE u \in revoked
      <4>1. u \in issued /\ u \in Tokens
        BY <3>1, <1>1
      <4>2. Stored(u)
        BY <4>1, <2>2, <1>2, <1>4
      <4> QED BY <3>1, <4>2 DEF SessionInv, TokenInv
    <3>2. CASE u \notin revoked
      BY <3>2, <2>2, <1>4
    <3> QED BY <3>1, <3>2
  <2> QED BY <2>1, <2>2 DEF TokenInv
<1>stale. /\ \A s \in Requests : s # r /\ TwiceLost(s) => TwiceLost(s)'
          /\ MasterInv'
  <2>1. \A s \in Requests : s # r /\ TwiceLost(s) => TwiceLost(s)'
    BY <1>1, <1>7 DEF TwiceLost
  <2>2. \A s \in Requests : req'[s].stale => s # r /\ req[s].stale
    BY <1>5, <1>7, <1>8
  <2> QED BY <2>1, <2>2, <1>1, <1>4 DEF SessionInv, MasterInv, Serving
<1>12. LoggedOutIsRejected'
  BY <1>5, <1>7, <1>8, <1>stale DEF SessionInv, LoggedOutIsRejected
<1>13. LoggedInIsAccepted'
  <2>1. ASSUME NEW s \in Requests, req'[s].op = "rejected", ~TwiceLost(s)'
        PROVE  \/ <<"set", req'[s].token>> \in lost'
               \/ <<"del", req'[s].token>> \in lost'
               \/ \E i \in 1..Len(log') : log'[i] = <<"del", req'[s].token>>
    <3>1. s # r /\ req'[s] = req[s]
      BY <2>1, <1>5, <1>7, <1>8
    <3>2. \/ <<"set", req[s].token>> \in lost
          \/ <<"del", req[s].token>> \in lost
          \/ Written(<<"del", req[s].token>>)
      BY <2>1, <3>1, <1>stale DEF SessionInv, LoggedInIsAccepted, Written
    <3>3. req[s].token \in Tokens
      BY <2>1, <3>1, <1>1 DEF SessionInv, ReqInv
    <3>4. <<"set", req[s].token>> \in Commands /\ <<"del", req[s].token>> \in Commands
      BY <3>3, <1>9
    <3>5. CASE <<"set", req[s].token>> \in lost \/ <<"del", req[s].token>> \in lost
      BY <3>1, <3>5
    <3>6. CASE Written(<<"del", req[s].token>>)
      <4>1. \A d \in Commands : Written(d) => d \in lost' \/ \E i \in 1..Len(log') : log'[i] = d
        BY <1>4 DEF Remembered, Written
      <4> QED BY <3>1, <3>4, <3>6, <4>1
    <3> QED BY <3>2, <3>5, <3>6
  <2> QED BY <2>1 DEF LoggedInIsAccepted
<1> QED BY <1>4, <1>6, <1>stale, <1>10, <1>11, <1>12, <1>13 DEF SessionInv

\* A request that comes in, gets an answer from Redis, or ends without a command.
LEMMA OtherKeepsInv ==
    ASSUME SessionInv, UNCHANGED <<log, redisVars, issued, revoked, lost, faults>>,
           used \subseteq used', used' \subseteq Tokens, TypeOK', ReqInv',
           \A s \in Requests : req'[s].stale => TwiceLost(s)',
           LoggedOutIsRejected', LoggedInIsAccepted'
    PROVE  SessionInv'
<1>1. /\ log' = log /\ lost' = lost /\ seen' = seen /\ up' = up
      /\ master' = master /\ demoted' = demoted /\ faults' = faults
      /\ issued' = issued /\ revoked' = revoked
  BY DEF redisVars
<1>2. \A d : Written(d)' <=> Written(d)
  BY <1>1 DEF Written
<1>3. \A u : Stored(u)' <=> Stored(u)
  BY <1>1 DEF Stored, Holds
<1>4. SeenInv' /\ LogInv' /\ TokenInv' /\ MasterInv'
  BY <1>1, <1>2, <1>3 DEF SessionInv, SeenInv, LogInv, TokenInv, MasterInv, Serving
<1> QED BY <1>4 DEF SessionInv

LEMMA RequestKeepsInv ==
    ASSUME SessionInv, NEW r \in Requests, RequestStep(r) PROVE SessionInv'
<1> DEFINE t == req[r].token
           ReqType == [Requests ->
                        [op : {"idle", "login", "verify", "logout", "accepted", "rejected"},
                         token : Tokens \cup {NoToken}, late : BOOLEAN, stale : BOOLEAN]]
<1>1. /\ issued \subseteq used /\ used \subseteq Tokens /\ revoked \subseteq issued
      /\ req \in ReqType /\ faults \in 0..MaxFaults /\ MaxFaults \in Nat
      /\ \A s \in Requests : req[s].stale => TwiceLost(s)
  BY FaultsAssumption DEF SessionInv, TypeOK, MasterInv
<1>2. Idle.op = "idle" /\ Idle.late = FALSE /\ Idle.stale = FALSE
  BY DEF Idle
<1>tok. req[r].op \in {"login", "logout"} => \E q \in Tokens : q = t
  BY <1>1 DEF SessionInv, ReqInv
<1>3. CASE StoreToken(r)
  <2>1. PICK q \in Tokens : q = t
    BY <1>3, <1>tok DEF StoreToken
  <2> QED BY <1>1, <1>3, <2>1, WriteKeepsInv DEF StoreToken
<1>4. CASE DeleteToken(r)
  <2>1. PICK q \in Tokens : q = t
    BY <1>4, <1>tok DEF DeleteToken
  <2> QED BY <1>1, <1>4, <2>1, WriteKeepsInv DEF DeleteToken
<1>5. CASE RedisAnswerLost(r)
  <2>1. faults' \in faults..MaxFaults
    BY <1>1, <1>5 DEF RedisAnswerLost, Fault
  <2>2. used' = used /\ issued' = issued /\ revoked' = revoked /\ lost' = lost /\ End(r)
    BY <1>5 DEF RedisAnswerLost, tokenVars
  <2>tok. PICK q \in Tokens : q = t
    BY <1>5, <1>tok DEF RedisAnswerLost
  <2>3. CASE req[r].op = "login" /\ Execute("set", t)
    BY <2>1, <2>2, <2>3, <2>tok, WriteKeepsInv
  <2>4. CASE req[r].op = "logout" /\ Execute("del", t)
    BY <2>1, <2>2, <2>4, <2>tok, WriteKeepsInv
  <2> QED BY <1>5, <2>3, <2>4 DEF RedisAnswerLost
<1>6. ASSUME NEW q \in Tokens, NEW op \in {"login", "verify", "logout"}, Begin(r, op, q),
             UNCHANGED <<log, redisVars, issued, revoked, lost, faults>>,
             used' = IF op = "login" THEN used \cup {q} ELSE used,
             op = "login" => q \notin used,
             op # "login" => q \in issued
      PROVE  SessionInv'
  <2>1. /\ req' = [req EXCEPT ![r] = [op |-> op, token |-> q, late |-> q \in revoked,
                              stale |-> FALSE]]
        /\ req[r] = Idle /\ lost' = lost /\ log' = log /\ issued' = issued
        /\ revoked' = revoked
    BY <1>6 DEF Begin
  <2>2. /\ req'[r] = [op |-> op, token |-> q, late |-> q \in revoked,
                              stale |-> FALSE]
        /\ \A s \in Requests : s # r => req'[s] = req[s]
        /\ req' \in ReqType
    BY <2>1, <1>1
  <2>stale. /\ \A s \in Requests : s # r /\ TwiceLost(s) => TwiceLost(s)'
            /\ \A s \in Requests : req'[s].stale => TwiceLost(s)'
    BY <1>1, <1>6, <2>2 DEF TwiceLost
  <2>3. TypeOK'
    BY <1>1, <1>6, <2>2 DEF SessionInv, TypeOK, redisVars
  <2>4. \A d : Written(d)' <=> Written(d)
    BY <2>1 DEF Written
  <2>5. ReqInv'
    <3>1. ASSUME NEW s \in Requests, req'[s].op = "login"
          PROVE  /\ req'[s].token \in used' \ issued'
                 /\ ~Written(<<"set", req'[s].token>>) /\ ~Written(<<"del", req'[s].token>>)
      <4>1. CASE s = r
        BY <4>1, <3>1, <1>1, <1>6, <2>1, <2>2 DEF SessionInv, LogInv
      <4>2. CASE s # r
        BY <4>2, <3>1, <1>6, <2>1, <2>2 DEF SessionInv, ReqInv
      <4> QED BY <4>1, <4>2
    <3>2. ASSUME NEW s \in Requests, NEW p \in Requests,
                 req'[s].op = "login", req'[p].op = "login", req'[s].token = req'[p].token
          PROVE  s = p
      <4>1. ASSUME NEW x \in Requests, x # r, req'[x].op = "login"
            PROVE  req'[x] = req[x] /\ req[x].token \in used
        BY <4>1, <2>2 DEF SessionInv, ReqInv
      <4>2. CASE s # r /\ p # r
        BY <4>1, <4>2, <3>2 DEF SessionInv, ReqInv
      <4>3. CASE s = r /\ p # r
        <5>1. op = "login" /\ req'[s].token = q
          BY <4>3, <3>2, <2>2
        <5> QED BY <4>1, <4>3, <5>1, <3>2, <1>6
      <4>4. CASE s # r /\ p = r
        <5>1. op = "login" /\ req'[p].token = q
          BY <4>4, <3>2, <2>2
        <5> QED BY <4>1, <4>4, <5>1, <3>2, <1>6
      <4> QED BY <4>2, <4>3, <4>4
    <3>3. ASSUME NEW s \in Requests,
                 req'[s].op \in {"verify", "logout", "accepted", "rejected"}
          PROVE  req'[s].token \in issued'
      BY <3>3, <1>6, <2>1, <2>2 DEF SessionInv, ReqInv
    <3>4. ASSUME NEW s \in Requests, req'[s].late PROVE req'[s].token \in revoked'
      BY <3>4, <2>1, <2>2 DEF SessionInv, ReqInv
    <3> QED BY <3>1, <3>2, <3>3, <3>4, <2>4 DEF ReqInv, Written
  <2>6. LoggedOutIsRejected'
    BY <1>6, <2>1, <2>2, <2>stale DEF SessionInv, LoggedOutIsRejected
  <2>7. LoggedInIsAccepted'
    <3>1. ASSUME NEW s \in Requests, req'[s].op = "rejected"
          PROVE  s # r /\ req'[s] = req[s] /\ req[s].op = "rejected"
      BY <3>1, <1>6, <2>2
    <3>2. ASSUME NEW s \in Requests, req'[s].op = "rejected"
          PROVE  \/ <<"set", req[s].token>> \in lost
                 \/ <<"del", req[s].token>> \in lost
                 \/ \E i \in 1..Len(log) : log[i] = <<"del", req[s].token>>
                 \/ TwiceLost(s)
      <4>1. req[s].op = "rejected"
        BY <3>1, <3>2
      <4> QED BY <4>1 DEF SessionInv, LoggedInIsAccepted
    <3>3. ASSUME NEW s \in Requests, req'[s].op = "rejected"
          PROVE  \/ <<"set", req'[s].token>> \in lost'
                 \/ <<"del", req'[s].token>> \in lost'
                 \/ \E i \in 1..Len(log') : log'[i] = <<"del", req'[s].token>>
                 \/ TwiceLost(s)'
      <4>1. s # r /\ req'[s] = req[s] /\ req[s].op = "rejected"
        BY <3>1, <3>3
      <4>2. log' = log /\ lost' = lost
        BY <2>1
      <4>3. TwiceLost(s) => TwiceLost(s)'
        BY <2>stale, <4>1
      <4>4. \/ <<"set", req[s].token>> \in lost
            \/ <<"del", req[s].token>> \in lost
            \/ \E i \in 1..Len(log) : log[i] = <<"del", req[s].token>>
            \/ TwiceLost(s)
        BY <3>2, <4>1
      <4> QED BY <4>1, <4>2, <4>3, <4>4
    <3> QED BY <3>3 DEF LoggedInIsAccepted
  <2> QED BY <1>1, <1>6, <2>stale, <2>3, <2>5, <2>6, <2>7, OtherKeepsInv
<1>7. CASE Login(r)
  <2>1. PICK q \in Tokens \ used :
           /\ Begin(r, "login", q) /\ used' = used \cup {q}
           /\ UNCHANGED <<log, redisVars, issued, revoked, lost, faults>>
    BY <1>7 DEF Login
  <2> QED BY <2>1, <1>6
<1>8. ASSUME NEW q \in Tokens, Verify(r, q) \/ Logout(r, q) PROVE SessionInv'
  <2>1. CASE Verify(r, q)
    BY <2>1, <1>6 DEF Verify, tokenVars
  <2>2. CASE Logout(r, q)
    BY <2>2, <1>6 DEF Logout, tokenVars
  <2> QED BY <1>8, <2>1, <2>2
<1>9. ASSUME End(r), UNCHANGED <<log, redisVars, tokenVars, lost, faults>>
      PROVE  SessionInv'
  <2>1. /\ req'[r] = Idle
        /\ \A s \in Requests : s # r => req'[s] = req[s]
        /\ req' \in ReqType
        /\ lost' = lost /\ log' = log /\ used' = used /\ issued' = issued /\ revoked' = revoked
    BY <1>1, <1>9 DEF End, Idle, tokenVars
  <2>2. TypeOK'
    BY <1>9, <2>1 DEF SessionInv, TypeOK, redisVars, tokenVars
  <2>3. \A d : Written(d)' <=> Written(d)
    BY <2>1 DEF Written
  <2>4. /\ \A s \in Requests :
              req'[s].op # "idle" \/ req'[s].late \/ req'[s].stale => req'[s] = req[s]
        /\ faults' = faults
    BY <1>2, <1>9, <2>1
  <2>stale. \A s \in Requests : req'[s].stale => TwiceLost(s)'
    BY <1>1, <2>4 DEF TwiceLost
  <2>5. ReqInv'
    <3>1. \A s \in Requests : req'[s].op = "login" => s # r
      BY <1>2, <2>1
    <3> QED BY <2>1, <2>3, <2>4, <3>1 DEF SessionInv, ReqInv
  <2>6. LoggedOutIsRejected' /\ LoggedInIsAccepted'
    BY <2>1, <2>4 DEF SessionInv, LoggedOutIsRejected, LoggedInIsAccepted, TwiceLost
  <2> QED BY <1>1, <1>9, <2>1, <2>2, <2>stale, <2>5, <2>6, OtherKeepsInv DEF tokenVars
<1>10. CASE Answer(r) \/ RedisUnreachable(r)
  BY <1>10, <1>9 DEF Answer, RedisUnreachable
<1>11. CASE CheckToken(r)
  <2>1. /\ req[r].op = "verify" /\ master \in up
        /\ req' = [req EXCEPT ![r].op = Verdict(t), ![r].stale = demoted]
        /\ lost' = lost /\ log' = log /\ used' = used /\ issued' = issued /\ revoked' = revoked
        /\ UNCHANGED <<redisVars, faults>>
    BY <1>11 DEF CheckToken, tokenVars
  <2>2. /\ req'[r].op = Verdict(t) /\ req'[r].token = t /\ req'[r].late = req[r].late
        /\ req'[r].stale = demoted
        /\ \A s \in Requests : s # r => req'[s] = req[s]
        /\ req' \in ReqType
    <3>1. Verdict(t) \in {"accepted", "rejected"} /\ demoted \in BOOLEAN
      BY DEF Verdict, SessionInv, TypeOK
    <3> QED BY <2>1, <1>1, <3>1
  <2>3. TypeOK'
    BY <2>1, <2>2 DEF SessionInv, TypeOK, redisVars
  <2>4. \A d : Written(d)' <=> Written(d)
    BY <2>1 DEF Written
  <2>5. t \in issued /\ t \in Tokens
    BY <2>1, <1>1 DEF SessionInv, ReqInv
  <2>stale. /\ \A s \in Requests : req'[s].stale => TwiceLost(s)'
            /\ \A s \in Requests : s # r /\ TwiceLost(s) => TwiceLost(s)'
            /\ demoted => TwiceLost(r)'
    <3>1. demoted => faults >= 2
      BY DEF SessionInv, MasterInv, Serving
    <3> QED BY <1>1, <2>1, <2>2, <3>1 DEF TwiceLost
  <2>whole. ~demoted => Verdict(t) = IF Stored(t) THEN "accepted" ELSE "rejected"
    BY <2>1 DEF SessionInv, MasterInv, Serving, Verdict, Stored
  <2>6. ReqInv'
    <3>1. \A s \in Requests : req'[s].token = req[s].token /\ req'[s].late = req[s].late
      BY <2>2
    <3>2. \A s \in Requests : req'[s].op = "login" => req[s].op = "login"
      BY <2>2 DEF Verdict
    <3>3. \A s \in Requests : req'[s].op \in {"verify", "logout", "accepted", "rejected"}
                                 => req[s].op \in {"verify", "logout", "accepted", "rejected"}
      BY <2>1, <2>2
    <3>4. ASSUME NEW s \in Requests, NEW q \in Requests,
                 req'[s].op = "login", req'[q].op = "login", req'[s].token = req'[q].token
          PROVE  s = q
      <4>1. req[s].op = "login" /\ req[q].op = "login" /\ req[s].token = req[q].token
        BY <3>1, <3>2, <3>4
      <4> QED BY <4>1 DEF SessionInv, ReqInv
    <3>5. ASSUME NEW s \in Requests, req'[s].op = "login"
          PROVE  /\ req'[s].token \in used' \ issued'
                 /\ ~Written(<<"set", req[s].token>>)' /\ ~Written(<<"del", req[s].token>>)'
      <4>1. req[s].op = "login" /\ req'[s].token = req[s].token
        BY <3>1, <3>2, <3>5
      <4>2. /\ req[s].token \in used \ issued
            /\ ~Written(<<"set", req[s].token>>) /\ ~Written(<<"del", req[s].token>>)
        BY <4>1 DEF SessionInv, ReqInv
      <4> QED BY <2>1, <2>4, <4>1, <4>2
    <3>6. ASSUME NEW s \in Requests, req'[s].late PROVE req'[s].token \in revoked'
      <4>1. req[s].late /\ req'[s].token = req[s].token
        BY <3>1, <3>6
      <4> QED BY <2>1, <4>1 DEF SessionInv, ReqInv
    <3>7. ASSUME NEW s \in Requests, req'[s].op \in {"verify", "logout", "accepted", "rejected"}
          PROVE  req'[s].token \in issued'
      <4>1. /\ req[s].op \in {"verify", "logout", "accepted", "rejected"}
            /\ req'[s].token = req[s].token
        BY <3>1, <3>3, <3>7
      <4> QED BY <2>1, <4>1 DEF SessionInv, ReqInv
    <3> QED BY <3>4, <3>5, <3>6, <3>7 DEF ReqInv, Written
  <2>7. LoggedOutIsRejected'
    <3>1. ASSUME req[r].late, Stored(t) PROVE <<"del", t>> \in lost
      BY <3>1, <2>1 DEF SessionInv, ReqInv, TokenInv
    <3> QED BY <3>1, <2>1, <2>2, <2>stale, <2>whole DEF SessionInv, LoggedOutIsRejected
  <2>8. LoggedInIsAccepted'
    <3>1. ASSUME ~Stored(t) PROVE <<"set", t>> \in lost \/ Written(<<"del", t>>)
      <4>1. SUFFICES ASSUME Written(<<"set", t>>) PROVE Written(<<"del", t>>)
        BY <2>5 DEF SessionInv, TokenInv
      <4>2. PICK i \in 1..Len(log) : log[i] = <<"set", t>>
        BY <4>1 DEF Written
      <4>3. PICK j \in (i + 1)..Len(log) : log[j] = <<"del", t>>
        BY <3>1, <4>2 DEF Stored, Holds
      <4>4. j \in 1..Len(log)
        BY <4>2, <4>3 DEF SessionInv, TypeOK
      <4> QED BY <4>3, <4>4 DEF Written
    <3>2. ASSUME NEW s \in Requests, req'[s].op = "rejected", ~TwiceLost(s)'
          PROVE  \/ <<"set", req'[s].token>> \in lost
                 \/ <<"del", req'[s].token>> \in lost
                 \/ Written(<<"del", req'[s].token>>)
      <4>1. CASE s = r
        BY <4>1, <3>1, <3>2, <2>2, <2>stale, <2>whole
      <4>2. CASE s # r
        BY <4>2, <3>2, <2>2, <2>stale DEF SessionInv, LoggedInIsAccepted, Written
      <4> QED BY <4>1, <4>2
    <3> QED BY <3>2, <2>1 DEF LoggedInIsAccepted, Written
  <2> QED BY <1>1, <1>11, <2>3, <2>stale, <2>6, <2>7, <2>8, OtherKeepsInv DEF CheckToken, tokenVars
<1> QED BY <1>3, <1>4, <1>5, <1>7, <1>8, <1>10, <1>11 DEF RequestStep

----------------------------------------------------------------------------
\* The invariant holds in every reachable state.
THEOREM Invariance == Spec => []SessionInv
<1>1. SessionInv /\ [Next]_vars => SessionInv'
  <2> SUFFICES ASSUME SessionInv, [Next]_vars PROVE SessionInv'
    OBVIOUS
  <2>1. CASE RedisStep
    BY <2>1, RedisKeepsInv
  <2>2. CASE \E r \in Requests : RequestStep(r)
    BY <2>2, RequestKeepsInv
  <2>3. CASE UNCHANGED vars
    <3>1. /\ log' = log /\ master' = master /\ up' = up /\ seen' = seen /\ req' = req
          /\ used' = used /\ issued' = issued /\ revoked' = revoked
          /\ lost' = lost /\ faults' = faults /\ demoted' = demoted
      BY <2>3 DEF vars, redisVars, tokenVars
    <3>2. TypeOK' /\ SeenInv' /\ LogInv' /\ ReqInv' /\ TokenInv'
      BY <3>1 DEF SessionInv, TypeOK, SeenInv, LogInv, ReqInv, TokenInv, Written, Stored, Holds
    <3>3. MasterInv' /\ LoggedOutIsRejected' /\ LoggedInIsAccepted'
      BY <3>1 DEF SessionInv, MasterInv, Serving, TwiceLost, LoggedOutIsRejected,
                  LoggedInIsAccepted
    <3> QED BY <3>2, <3>3 DEF SessionInv
  <2> QED BY <2>1, <2>2, <2>3 DEF Next
<1> QED BY <1>1, InitInv, PTL DEF Spec

\* Type correctness; no replica is ahead of the log.
THEOREM TypeSafety == Spec => []TypeOK
<1>1. SessionInv => TypeOK
  BY DEF SessionInv
<1> QED BY <1>1, Invariance, PTL

\* verify_token accepts a logged-out token only if its deletion was undone or two
\* masters were lost.
THEOREM LogoutHolds == Spec => []LoggedOutIsRejected
<1>1. SessionInv => LoggedOutIsRejected
  BY DEF SessionInv
<1> QED BY <1>1, Invariance, PTL

\* verify_token rejects an issued token only if it was deleted, its login undone,
\* or two masters were lost.
THEOREM LoginHolds == Spec => []LoggedInIsAccepted
<1>1. SessionInv => LoggedInIsAccepted
  BY DEF SessionInv
<1> QED BY <1>1, Invariance, PTL
============================================================================
