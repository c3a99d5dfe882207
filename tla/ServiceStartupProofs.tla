------------------------ MODULE ServiceStartupProofs ------------------------
(***************************************************************************)
(* Proofs about the start of a service, for any number of instances and    *)
(* processes and any times that satisfy SlackAssumption.                   *)
(*                                                                         *)
(* ConfigRegistry: its type invariant, the time in which an instance is    *)
(* listed again, and that it implements Membership.  Both timing results   *)
(* have one argument.  For each phase of an instance there is a latest age *)
(* of its entry, or if it has none a latest uptime of the server, at which *)
(* the phase ends.  Tick moves a second from left to the age, and each     *)
(* other step starts a phase with a later limit or sets the age back.      *)
(*                                                                         *)
(* ServiceStartup: at most one start ever fails because of another, and    *)
(* what registers has its tables.  Who is between lock and unlock holds    *)
(* the lock, so one process at most has missed the tables that are there   *)
(* by now; and once a creation has failed the tables are there and nobody  *)
(* misses them.  As a step of ServiceStartup is one of ConfigRegistry or   *)
(* none, what is proved of the registry carries over.                      *)
(***************************************************************************)
EXTENDS ServiceStartup, TLAPS

----------------------------------------------------------------------------
(* The registry.                                                           *)

\* The order of the steps of the thread, and how long each takes at most.
Course(i) ==
    /\ phase[i] = "down" => i \notin serving
    /\ phase[i] \in {"heartbeat", "sleep"} => i \in serving
    /\ reply[i] # NoReply => Calling(i)
    /\ reply[i] = "404" => phase[i] = "heartbeat" /\ ~Known(i)
    /\ Calling(i) => left[i] <= CallTime
    /\ phase[i] = "sleep" => left[i] <= Interval
    /\ phase[i] = "delay" => left[i] <= RetryDelay
    /\ phase[i] = "delay" => attempt[i] < Attempts
    /\ ~config => ~Known(i)

\* The latest age of an entry at which a phase ends: a refreshed entry, the
\* sleep, the heartbeat, and the registrations after a lost call.
FreshReply(i) == Known(i) /\ reply[i] = "ok" => age[i] + left[i] <= CallTime
Fresh(i) ==
    i \in serving /\ Known(i) =>
        /\ phase[i] = "sleep" => age[i] + left[i] <= CallTime + Interval
        /\ phase[i] = "heartbeat" => age[i] + left[i] <= 2 * CallTime + Interval
        /\ phase[i] = "delay" => i \in lost /\ age[i] + left[i] <= CallTime + RetryDelay
        /\ phase[i] = "register" /\ reply[i] = NoReply =>
               i \in lost /\ age[i] + left[i] <= 3 * CallTime + Interval

\* The same for the uptime of a server that does not know the instance.
Penalty(i) == IF i \in lost THEN CallTime + RetryDelay ELSE 0
DueReply(i) == config /\ ~Known(i) /\ reply[i] = "ok" => uptime + left[i] <= CallTime
Due(i) ==
    i \in serving /\ config /\ ~Known(i) =>
        /\ phase[i] = "sleep" => uptime + left[i] <= CallTime + Interval + (IF i \in lost THEN RetryDelay ELSE 0)
        /\ phase[i] = "heartbeat" =>
               uptime + left[i] <= 2 * CallTime + Interval + (IF i \in lost THEN RetryDelay ELSE 0)
        /\ phase[i] = "delay" =>
               uptime + left[i] <= (IF i \in lost THEN 3 * CallTime + Interval ELSE 0) + RetryDelay
        /\ phase[i] = "register" /\ reply[i] = NoReply =>
               /\ uptime + left[i] <= 3 * CallTime + Interval + Penalty(i)
               /\ i \notin lost /\ attempt[i] > 1 => uptime + left[i] <= CallTime + RetryDelay

Clock == config \/ uptime = 0
Inv(i) == Course(i) /\ FreshReply(i) /\ Fresh(i) /\ DueReply(i) /\ Due(i)
IInv == TypeOK /\ Clock /\ \A i \in Instances : Inv(i)

USE DEF NoReply, Absent

----------------------------------------------------------------------------
\* The type invariant is kept by every step.
LEMMA TypeStep == ASSUME TypeOK, \A i \in Instances : Course(i), [Next]_vars PROVE TypeOK'
<1> USE TimesAssumption
<1> USE DEF TypeOK
<1>1. CASE UNCHANGED vars
  BY <1>1 DEF vars, server, client
<1>2. CASE ConfigEnds
  <2>1. uptime' \in 0..MaxUptime /\ age' \in [Instances -> -1..(StaleAfter + 1)]
    BY <1>2 DEF ConfigEnds
  <2> QED BY <1>2, <2>1 DEF ConfigEnds, client
<1>3. CASE ConfigStarts
  BY <1>3 DEF ConfigStarts, client
<1>4. CASE Tick
  <2>1. age' \in [Instances -> -1..(StaleAfter + 1)]
    BY <1>4 DEF Tick, Older, Active, Known
  <2>2. left' \in [Instances -> Nat]
    BY <1>4 DEF Tick
  <2> QED BY <1>4, <2>1, <2>2 DEF Tick
<1>5. ASSUME NEW i \in Instances, InstanceStep(i) PROVE TypeOK'
  <2>1. CASE HandleRegister(i)
    BY <2>1 DEF HandleRegister
  <2>2. CASE HandleHeartbeat(i)
    BY <2>2 DEF HandleHeartbeat
  <2>3. CASE Start(i)
    BY <2>3 DEF Start, Register, Do, server
  <2>4. CASE Registered(i)
    BY <2>4 DEF Registered, Sleep, Heartbeat, Do, server
  <2>5. CASE Accepted(i)
    BY <2>5 DEF Accepted, Sleep, Do, server
  <2>6. ASSUME Raises(i), UNCHANGED <<server, serving>>, lost' \subseteq Instances PROVE TypeOK'
    <3>1. CASE HeartbeatRaises(i)
      BY <2>6, <3>1 DEF HeartbeatRaises, Register, Do, server
    <3>2. CASE Retry(i)
      BY <2>6, <3>2 DEF Retry, Do, server
    <3>3. CASE GiveUp(i)
      BY <2>6, <3>3 DEF GiveUp, Sleep, Down, Do, server
    <3> QED BY <2>6, <3>1, <3>2, <3>3 DEF Raises
  <2>7. CASE Rejected(i)
    BY <2>6, <2>7 DEF Rejected
  <2>8. CASE CallLost(i)
    BY <2>6, <2>8 DEF CallLost
  <2>9. CASE Wake(i)
    <3>1. CASE phase[i] = "sleep" /\ Heartbeat(i)
      BY <2>9, <3>1 DEF Wake, Heartbeat, Do, server
    <3>2. CASE phase[i] = "delay" /\ Register(i, attempt[i] + 1)
      BY <2>9, <3>2 DEF Wake, Register, Do, server, Course
    <3> QED BY <2>9, <3>1, <3>2 DEF Wake
  <2>10. CASE Crash(i)
    BY <2>10 DEF Crash, Down, Do, server
  <2> QED
    BY <1>5, <2>1, <2>2, <2>3, <2>4, <2>5, <2>7, <2>8, <2>9, <2>10 DEF InstanceStep
<1> QED BY <1>1, <1>2, <1>3, <1>4, <1>5 DEF Next

----------------------------------------------------------------------------
\* What a step of one instance leaves alone of another.
Untouched(j) ==
    /\ UNCHANGED <<config, uptime>>
    /\ UNCHANGED <<age[j], phase[j], attempt[j], left[j], reply[j]>>
    /\ (j \in serving)' = (j \in serving)
    /\ (j \in lost)' = (j \in lost)

LEMMA OthersUntouched ==
    ASSUME TypeOK, NEW i \in Instances, NEW j \in Instances \ {i}, InstanceStep(i)
    PROVE  Untouched(j)
<1> USE DEF TypeOK, Untouched, server
<1>1. CASE HandleRegister(i)
  BY <1>1 DEF HandleRegister
<1>2. CASE HandleHeartbeat(i)
  BY <1>2 DEF HandleHeartbeat
<1>3. CASE Start(i)
  BY <1>3 DEF Start, Register, Do
<1>4. CASE Registered(i)
  BY <1>4 DEF Registered, Sleep, Heartbeat, Do
<1>5. CASE Accepted(i)
  BY <1>5 DEF Accepted, Sleep, Do
<1>6. CASE Rejected(i)
  BY <1>6 DEF Rejected, Raises, HeartbeatRaises, Retry, GiveUp, Register, Sleep, Down, Do
<1>7. CASE CallLost(i)
  BY <1>7 DEF CallLost, Raises, HeartbeatRaises, Retry, GiveUp, Register, Sleep, Down, Do
<1>8. CASE Wake(i)
  BY <1>8 DEF Wake, Heartbeat, Register, Do
<1>9. CASE Crash(i)
  BY <1>9 DEF Crash, Down, Do
<1> QED BY <1>1, <1>2, <1>3, <1>4, <1>5, <1>6, <1>7, <1>8, <1>9 DEF InstanceStep

LEMMA UntouchedKept ==
    ASSUME NEW j \in Instances, Inv(j), Untouched(j) PROVE Inv(j)'
BY DEF Inv, Course, FreshReply, Fresh, DueReply, Due, Penalty, Known, Calling, Untouched

----------------------------------------------------------------------------
\* The steps of an instance keep its own limits.  A call that the server handles
\* sets the age back, or leaves it absent.
LEMMA HandledStep ==
    ASSUME TypeOK, NEW i \in Instances, Inv(i), HandleRegister(i) \/ HandleHeartbeat(i)
    PROVE  Inv(i)'
<1> USE TimesAssumption DEF TypeOK, Inv, Course, FreshReply, Fresh, DueReply, Due, Penalty, Known, Calling
<1>1. CASE HandleRegister(i)
  BY <1>1 DEF HandleRegister
<1>2. CASE HandleHeartbeat(i)
  BY <1>2 DEF HandleHeartbeat
<1> QED BY <1>1, <1>2

LEMMA AnsweredStep ==
    ASSUME TypeOK, NEW i \in Instances, Inv(i), Registered(i) \/ Accepted(i) \/ Start(i)
    PROVE  Inv(i)'
<1> USE TimesAssumption DEF TypeOK, Inv, Course, FreshReply, Fresh, DueReply, Due, Penalty, Known, Calling
<1>1. CASE Registered(i)
  BY <1>1 DEF Registered, Sleep, Heartbeat, Do, server
<1>2. CASE Accepted(i)
  BY <1>2 DEF Accepted, Sleep, Do, server
<1>3. CASE Start(i)
  BY <1>3 DEF Start, Register, Do, server
<1> QED BY <1>1, <1>2, <1>3

\* A heartbeat that fails leads to a registration, which a second loss cannot hit.
LEMMA FailedStep ==
    ASSUME TypeOK, NEW i \in Instances, Inv(i), Rejected(i) \/ CallLost(i)
    PROVE  Inv(i)'
<1> USE TimesAssumption, SlackAssumption
        DEF TypeOK, Inv, Course, FreshReply, Fresh, DueReply, Due, Penalty, Known, Calling
<1>1. CASE Rejected(i)
  BY <1>1 DEF Rejected, Raises, HeartbeatRaises, Retry, GiveUp, Register, Do, server
<1>2. CASE CallLost(i) /\ HeartbeatRaises(i)
  BY <1>2 DEF CallLost, HeartbeatRaises, Register, Do, server
<1>3. CASE CallLost(i) /\ Retry(i)
  BY <1>3 DEF CallLost, Retry, Do, server
<1>4. CASE CallLost(i) /\ GiveUp(i)
  BY <1>4 DEF CallLost, GiveUp, Sleep, Down, Do, server
<1> QED BY <1>1, <1>2, <1>3, <1>4 DEF CallLost, Raises

LEMMA WakeStep ==
    ASSUME TypeOK, NEW i \in Instances, Inv(i), Wake(i)
    PROVE  Inv(i)'
<1> USE TimesAssumption, SlackAssumption
        DEF TypeOK, Inv, Course, FreshReply, Fresh, DueReply, Due, Penalty, Known, Calling
<1>1. CASE phase[i] = "sleep" /\ Heartbeat(i)
  BY <1>1 DEF Wake, Heartbeat, Do, server
<1>2. CASE phase[i] = "delay" /\ Register(i, attempt[i] + 1)
  BY <1>2 DEF Wake, Register, Do, server
<1> QED BY <1>1, <1>2 DEF Wake

LEMMA CrashStep ==
    ASSUME TypeOK, NEW i \in Instances, Inv(i), Crash(i)
    PROVE  Inv(i)'
BY DEF TypeOK, Inv, Course, FreshReply, Fresh, DueReply, Due, Penalty, Known, Calling,
       Crash, Down, Do, server

LEMMA InstanceKept ==
    ASSUME TypeOK, NEW i \in Instances, Inv(i), InstanceStep(i)
    PROVE  Inv(i)'
BY HandledStep, AnsweredStep, FailedStep, WakeStep, CrashStep DEF InstanceStep

----------------------------------------------------------------------------
\* The server ends and starts.
LEMMA ConfigStep ==
    ASSUME TypeOK, Clock, NEW i \in Instances, Inv(i), ConfigEnds \/ ConfigStarts
    PROVE  Inv(i)'
<1> USE TimesAssumption, SlackAssumption
        DEF TypeOK, Inv, Course, FreshReply, Fresh, DueReply, Due, Penalty, Known, Calling
<1>1. CASE ConfigEnds
  BY <1>1 DEF ConfigEnds, client
<1>2. CASE ConfigStarts
  BY <1>2 DEF ConfigStarts, client, Clock
<1> QED BY <1>1, <1>2

\* A second passes: an entry whose limit is not reached stays active.
LEMMA FreshIsActive ==
    ASSUME TypeOK, NEW i \in Instances, Inv(i), i \in serving, Known(i)
    PROVE  Active(i)
BY TimesAssumption, SlackAssumption
   DEF TypeOK, Inv, Course, FreshReply, Fresh, Known, Active, Calling

LEMMA TickStep ==
    ASSUME TypeOK, NEW i \in Instances, Inv(i), Tick
    PROVE  Inv(i)'
<1> USE TimesAssumption, SlackAssumption DEF TypeOK
<1>1. /\ left'[i] = IF phase[i] = "down" THEN left[i] ELSE left[i] - 1
      /\ phase[i] # "down" => left[i] > 0
      /\ age'[i] = Older(i)
      /\ uptime' <= uptime + 1
      /\ UNCHANGED <<config, phase, attempt, reply, serving, lost>>
  BY DEF Tick
<1>2. Known(i)' = Known(i)
  BY <1>1 DEF Older, Active, Known
<1>3. age'[i] <= age[i] + 1 /\ age'[i] \in Int
  BY <1>1 DEF Older
<1>4. Course(i)'
  BY <1>1, <1>2 DEF Inv, Course, Calling
<1>5. FreshReply(i)' /\ Fresh(i)'
  <2>1. FreshReply(i)'
    BY <1>1, <1>2, <1>3 DEF Inv, Course, FreshReply, Calling
  <2>2. Fresh(i)'
    BY <1>1, <1>2, <1>3 DEF Inv, Fresh
  <2> QED BY <2>1, <2>2
<1>6. uptime' \in Nat
  BY DEF Tick
<1>7. DueReply(i)' /\ Due(i)'
  BY <1>1, <1>2, <1>6 DEF Inv, Course, DueReply, Due, Penalty, Calling
<1> QED BY <1>4, <1>5, <1>7 DEF Inv

----------------------------------------------------------------------------
LEMMA Initially == Init => IInv
BY TimesAssumption
   DEF Init, IInv, TypeOK, Clock, Inv, Course, FreshReply, Fresh, DueReply, Due, Known, Calling

LEMMA Step == IInv /\ [Next]_vars => IInv'
<1> SUFFICES ASSUME IInv, [Next]_vars PROVE IInv'
  OBVIOUS
<1>1. TypeOK'
  BY TypeStep DEF IInv, Inv
<1>2. Clock'
  <2>1. CASE \E i \in Instances : InstanceStep(i)
    BY <2>1 DEF IInv, Clock, InstanceStep, HandleRegister, HandleHeartbeat, Start, Registered, Accepted,
                Rejected, CallLost, Wake, Crash, server
  <2>2. CASE ConfigEnds \/ ConfigStarts \/ Tick \/ UNCHANGED vars
    BY <2>2 DEF IInv, Clock, ConfigEnds, ConfigStarts, Tick, vars, server
  <2> QED BY <2>1, <2>2 DEF Next
<1>3. ASSUME NEW j \in Instances PROVE Inv(j)'
  <2>1. TypeOK /\ Clock /\ Inv(j)
    BY DEF IInv
  <2>2. CASE UNCHANGED vars
    BY <2>1, <2>2, UntouchedKept DEF Untouched, vars, server, client
  <2>3. CASE ConfigEnds \/ ConfigStarts
    BY <2>1, <2>3, ConfigStep
  <2>4. CASE Tick
    BY <2>1, <2>4, TickStep
  <2>5. ASSUME NEW i \in Instances, InstanceStep(i) PROVE Inv(j)'
    <3>1. CASE i = j
      BY <2>1, <2>5, <3>1, InstanceKept
    <3>2. CASE i # j
      BY <2>1, <2>5, <3>2, OthersUntouched, UntouchedKept
    <3> QED BY <3>1, <3>2
  <2> QED BY <2>2, <2>3, <2>4, <2>5 DEF Next
<1> QED BY <1>1, <1>2, <1>3 DEF IInv

\* The types, and for each phase of an instance the latest age of its entry and the
\* latest uptime of a server without one.
THEOREM Invariance == Spec => []IInv
<1>1. Init => IInv
  BY Initially
<1>2. IInv /\ [Next]_vars => IInv'
  BY Step
<1> QED BY <1>1, <1>2, PTL DEF Spec

\* Every variable keeps its type; that retry makes no more attempts than it may is
\* part of it.
THEOREM TypeSafety == Spec => []TypeOK
<1>1. IInv => TypeOK
  BY DEF IInv
<1> QED BY <1>1, Invariance, PTL

\* Whenever the config server starts, an instance that serves is listed again
\* within the time the loop of start_registration_heartbeat needs.
THEOREM RelistedInTime == Spec => []ListedAgainInTime
<1>1. IInv => ListedAgainInTime
  <2> SUFFICES ASSUME IInv, config, NEW i \in serving \ Listed PROVE uptime <= RelistTime(i)
    BY DEF ListedAgainInTime
  <2>1. i \in Instances /\ TypeOK /\ Inv(i)
    BY DEF IInv, TypeOK
  <2>2. ~Known(i)
    BY <2>1, FreshIsActive DEF Listed
  <2> QED
    BY <2>1, <2>2, TimesAssumption, SlackAssumption
       DEF TypeOK, Inv, Course, DueReply, Due, Penalty, RelistTime, Calling
<1> QED BY <1>1, Invariance, PTL

----------------------------------------------------------------------------
\* Each step, seen by the clients: Tick takes those off the list that have become
\* stale, none of which serves.
LEMMA StepPromised == IInv /\ IInv' /\ [Next]_vars => [Promise!Next]_(Promise!vars)
<1> SUFFICES ASSUME IInv, IInv', [Next]_vars PROVE [Promise!Next]_(Promise!vars)
  OBVIOUS
<1> USE DEF Promise!Next, Promise!vars
<1>1. CASE UNCHANGED vars
  BY <1>1 DEF vars, server, client, Listed, Active, Known
<1>2. CASE ConfigEnds
  BY <1>2 DEF ConfigEnds, client, Promise!ConfigEnds, Listed, Active, Known
<1>3. CASE ConfigStarts
  BY <1>3 DEF ConfigStarts, client, Promise!ConfigStarts, Listed, Active, Known
<1>4. CASE Tick
  <2>1. Listed' \subseteq Listed
    BY <1>4 DEF Tick, Older, IInv, TypeOK, Listed, Active, Known
  <2>2. ASSUME NEW i \in serving \cap Listed PROVE i \in Listed'
    <3>1. i \in Instances /\ i \in serving' /\ TypeOK' /\ Inv(i)'
      BY <1>4 DEF Tick, IInv, TypeOK
    <3>2. Known(i)'
      BY <1>4, <2>2, <3>1 DEF Tick, Older, IInv, TypeOK, Listed, Active, Known
    <3>3. Active(i)'
      BY <3>1, <3>2, TimesAssumption, SlackAssumption
         DEF TypeOK, Inv, Course, FreshReply, Fresh, Known, Active, Calling
    <3> QED BY <3>1, <3>3 DEF Listed
  <2>3. Promise!Expire(Listed \ Listed')
    BY <1>4, <2>1, <2>2 DEF Promise!Expire, Tick
  <2> QED BY <2>3 DEF Listed
<1>5. ASSUME NEW i \in Instances, InstanceStep(i) PROVE [Promise!Next]_(Promise!vars)
  <2>1. ASSUME age' = [age EXCEPT ![i] = 0], config, UNCHANGED <<config, serving>>
        PROVE  Promise!Register(i)
    BY <2>1, TimesAssumption DEF Promise!Register, IInv, TypeOK, Listed, Active, Known
  <2>2. ASSUME UNCHANGED age PROVE UNCHANGED Listed
    BY <2>2 DEF Listed, Active, Known
  <2>3. CASE HandleRegister(i)
    BY <2>1, <2>3 DEF HandleRegister
  <2>4. CASE HandleHeartbeat(i)
    BY <2>1, <2>2, <2>4 DEF HandleHeartbeat
  <2>5. CASE Registered(i)
    BY <2>2, <2>5 DEF Registered, server, Promise!Serve
  <2>6. CASE Crash(i)
    BY <2>2, <2>6 DEF Crash, server, Promise!End
  <2>7. CASE Start(i) \/ Accepted(i) \/ Rejected(i) \/ CallLost(i) \/ Wake(i)
    BY <2>2, <2>7 DEF Start, Accepted, Rejected, CallLost, Wake, server
  <2> QED BY <1>5, <2>3, <2>4, <2>5, <2>6, <2>7 DEF InstanceStep
<1> QED BY <1>1, <1>2, <1>3, <1>4, <1>5 DEF Next

\* The registry with its timeouts implements what the gateway relies on: no instance
\* that serves is taken off the list of a config server that runs.
THEOREM Refinement == Spec => ImplementsMembership
<1>1. Init => Promise!Init
  BY DEF Init, Promise!Init, Listed, Active, Known
<1>2. IInv /\ IInv' /\ [Next]_vars => [Promise!Next]_(Promise!vars)
  BY StepPromised
<1> QED BY <1>1, <1>2, Invariance, PTL DEF Spec, ImplementsMembership, Promise!Spec

----------------------------------------------------------------------------
(* The start of a service.                                                 *)

\* What is known at each point of init_db.
Point(p) ==
    /\ init[p] \in {"check", "create", "unlock", "failed"} => holder = p
    /\ init[p] \in {"unlock", "commit"} => tables \/ writer = p
    /\ init[p] = "ready" => tables
    /\ init[p] = "create" => failures = 0

SchemaInv ==
    /\ Schema!SchemaTypeOK
    /\ \A p \in Processes : Point(p)
    /\ failures <= 1 /\ (failures > 0 => tables)

\* An instance that is up has been through init_db.
Linked == \A i \in Instances : phase[i] # "down" => Ready(i)

StartInv == SchemaInv /\ Linked

USE ProcessesAssumption

LEMMA SchemaInitially == Schema!Init => SchemaInv
<1> SUFFICES ASSUME Schema!Init PROVE SchemaInv
  OBVIOUS
<1>1. Schema!SchemaTypeOK
  <2>1. tables \in BOOLEAN
    <3>1. tables = FALSE
      BY DEF Schema!Init
    <3> QED BY <3>1, Zenon
  <2>2. init \in [Processes -> {"off"}] /\ holder = NoProcess /\ writer = NoProcess /\ failures = 0
    BY DEF Schema!Init
  <2> QED BY <2>1, <2>2 DEF Schema!SchemaTypeOK
<1>2. \A p \in Processes : Point(p)
  BY DEF Schema!Init, Point
<1>3. failures <= 1 /\ (failures > 0 => tables)
  BY DEF Schema!Init
<1> QED BY <1>1, <1>2, <1>3 DEF SchemaInv

\* A step of one process keeps what is known of the others.
LEMMA SchemaKept ==
    ASSUME SchemaInv, NEW p \in Processes, Schema!Work(p) \/ Schema!Ends(p)
    PROVE  SchemaInv' /\ \A q \in Processes \ {p} : init'[q] = init[q]
<1> USE DEF SchemaInv, Schema!SchemaTypeOK, Schema!Go, Schema!Without, Schema!Disconnected
<1> DEFINE Kept == SchemaInv' /\ \A q \in Processes \ {p} : init'[q] = init[q]
<1>0. Point(p)
  OBVIOUS
<1>1. CASE Schema!Begin(p)
  BY <1>0, <1>1 DEF Schema!Begin, Point
<1>2. CASE Schema!Lock(p)
  BY <1>0, <1>2 DEF Schema!Lock, Schema!MayLock, Point
<1>3. CASE Schema!Check(p)
  BY <1>0, <1>3 DEF Schema!Check, Schema!Seen, Point
<1>4. CASE Schema!Create(p)
  BY <1>0, <1>4 DEF Schema!Create, Point
<1>5. CASE Schema!Unlock(p)
  BY <1>0, <1>5 DEF Schema!Unlock, Point
<1>6. CASE Schema!Commit(p)
  BY <1>0, <1>6 DEF Schema!Commit, Point
<1>7. CASE Schema!DbLost(p)
  <2>1. init' = [init EXCEPT ![p] = "lock"] \/ init' = [init EXCEPT ![p] = "off"]
    BY <1>7 DEF Schema!DbLost
  <2>2. tables => tables'
    BY <1>7 DEF Schema!DbLost
  <2>3. Schema!SchemaTypeOK' /\ failures' <= 1 /\ (failures' > 0 => tables')
    <3>1. tables' \in BOOLEAN
      BY <1>7 DEF Schema!DbLost
    <3> QED BY <1>7, <2>1, <2>2, <3>1 DEF Schema!DbLost
  <2>4. ASSUME NEW q \in Processes PROVE Point(q)'
    <3>1. Point(q)
      OBVIOUS
    <3> QED BY <1>7, <2>1, <2>2, <3>1 DEF Schema!DbLost, Point
  <2> QED BY <2>1, <2>3, <2>4
<1>8. CASE Schema!Ends(p)
  BY <1>0, <1>8 DEF Schema!Ends, Point
<1> QED BY <1>1, <1>2, <1>3, <1>4, <1>5, <1>6, <1>7, <1>8 DEF Schema!Work

\* A step of the registry changes the phase of one instance at most.
LEMMA OnePhase ==
    ASSUME TypeOK, Next
    PROVE  \/ UNCHANGED phase
           \/ \E i \in Instances : \A j \in Instances \ {i} : phase'[j] = phase[j]
<1>1. CASE ConfigEnds \/ ConfigStarts \/ Tick
  BY <1>1 DEF ConfigEnds, ConfigStarts, Tick, client
<1>2. ASSUME NEW i \in Instances, InstanceStep(i)
      PROVE  \A j \in Instances \ {i} : phase'[j] = phase[j]
  BY <1>2, OthersUntouched DEF Untouched
<1> QED BY <1>1, <1>2 DEF Next

LEMMA StartStep == TypeOK /\ StartInv /\ [StartupNext]_<<vars, schema>> => StartInv'
<1> SUFFICES ASSUME TypeOK, StartInv, [StartupNext]_<<vars, schema>> PROVE StartInv'
  OBVIOUS
<1> USE DEF StartInv
<1>1. ASSUME UNCHANGED schema PROVE SchemaInv'
  BY <1>1 DEF schema, SchemaInv, Schema!SchemaTypeOK, Point
<1>2. CASE UNCHANGED <<vars, schema>>
  BY <1>1, <1>2 DEF Linked, Ready, vars, client, schema
<1>3. CASE RegistryStep
  <2>1. CASE Ending = {}
    BY <1>1, <1>3, <2>1 DEF RegistryStep, Linked, Ready, schema
  <2>2. ASSUME NEW i \in Ending, Schema!Ends(i) PROVE StartInv'
    <3>1. i \in Instances /\ i \in Processes /\ phase[i] # "down" /\ phase'[i] = "down"
      BY <2>2 DEF Ending
    <3>2. SchemaInv' /\ \A q \in Processes \ {i} : init'[q] = init[q]
      BY <2>2, <3>1, SchemaKept
    <3>3. \A j \in Instances \ {i} : phase'[j] = phase[j]
      BY <1>3, <3>1, OnePhase DEF RegistryStep
    <3> QED BY <3>1, <3>2, <3>3 DEF Linked, Ready
  <2> QED BY <1>3, <2>1, <2>2 DEF RegistryStep
<1>4. ASSUME NEW p \in Processes, SchemaStep(p) PROVE StartInv'
  <2>1. SchemaInv' /\ \A q \in Processes \ {p} : init'[q] = init[q]
    BY <1>4, SchemaKept DEF SchemaStep
  <2>2. Linked'
    BY <1>4, <2>1 DEF SchemaStep, Linked, Ready, vars, client
  <2> QED BY <2>1, <2>2
<1> QED BY <1>2, <1>3, <1>4 DEF StartupNext

\* A start is, for the registry, one of its behaviours.
THEOREM StartupIsRegistry == StartupSpec => Spec
<1>1. StartupInit => Init
  BY DEF StartupInit
<1>2. [StartupNext]_<<vars, schema>> => [Next]_vars
  BY DEF StartupNext, RegistryStep, SchemaStep
<1> QED BY <1>1, <1>2, PTL DEF StartupSpec, Spec

\* ConfigRegistry's results, for a service that initialises its tables first.
THEOREM StartupTypes == StartupSpec => []TypeOK
BY StartupIsRegistry, TypeSafety, PTL

THEOREM StartupRelists == StartupSpec => []ListedAgainInTime
BY StartupIsRegistry, RelistedInTime, PTL

THEOREM StartupRefinement == StartupSpec => ImplementsMembership
BY StartupIsRegistry, Refinement, PTL

LEMMA StartInvariance == StartupSpec => []StartInv
<1>1. StartupInit => StartInv
  BY SchemaInitially DEF StartupInit, StartInv, Linked, Init
<1> QED BY <1>1, StartStep, StartupTypes, PTL DEF StartupSpec

\* No instance registers or serves while a table it needs may be missing.
THEOREM TablesFirst == StartupSpec => []RegisteredHasTables
<1>1. StartInv => RegisteredHasTables
  BY DEF StartInv, Linked, Ready, SchemaInv, Point, RegisteredHasTables
<1> QED BY <1>1, StartInvariance, PTL

\* The early unlock makes one start fail at most, whatever ends and starts again.
THEOREM OneStartFails == StartupSpec => []AtMostOneStartFails
<1>1. StartInv => AtMostOneStartFails
  BY DEF StartInv, SchemaInv, AtMostOneStartFails, Schema!AtMostOneFails
<1> QED BY <1>1, StartInvariance, PTL
=============================================================================
