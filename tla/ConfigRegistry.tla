--------------------------- MODULE ConfigRegistry ---------------------------
(***************************************************************************)
(* The config server's registry of one service (config-server/app/main.py) *)
(* and the registration and heartbeat thread of each instance of it        *)
(* (start_registration_heartbeat of common/service_discovery.py, with      *)
(* common/retry.py), in seconds.                                           *)
(*                                                                         *)
(* An instance registers, serves, and then sends a heartbeat again and     *)
(* again; when one fails, for whatever reason, it registers anew.  The     *)
(* server lists an instance whose last_seen is recent; it never deletes an *)
(* entry, but all of them are in memory and end with the process.          *)
(*                                                                         *)
(* Time.  Each instance has the seconds that are left of what it does: a   *)
(* call ends within CallTime, a sleep ends when it is over.  Tick lets one *)
(* second pass unless something is due.  last_seen is kept as its age.     *)
(*                                                                         *)
(* Abstractions.  A call takes CallTime in all: inside one Docker network  *)
(* a connection is made at once or fails.  A request is not handled after  *)
(* its call ended.  A network that loses calls loses no two between two    *)
(* moments that last_seen of an instance is set, while the server runs;    *)
(* what happens otherwise is outside the promise.  The name and URL of an  *)
(* instance are fixed (docker-compose.yml).                                *)
(***************************************************************************)
EXTENDS Integers, FiniteSets

CONSTANTS
    Instances,      \* instances of the service
    CallTime,       \* timeout of a call to the config server
    Interval,       \* interval_seconds between two heartbeats
    RetryDelay,     \* delay_seconds of retry
    Attempts,       \* attempts of retry
    StaleAfter,     \* STALE_AFTER_SECONDS
    MaxUptime       \* bound: seconds of the server's life that are counted

ASSUME TimesAssumption ==
    /\ CallTime \in Nat /\ Interval \in Nat /\ RetryDelay \in Nat
    /\ StaleAfter \in Nat /\ MaxUptime \in Nat /\ Attempts \in Nat \ {0, 1}

\* The code has 5, 10, 2 and 30 seconds.
ASSUME SlackAssumption == RetryDelay <= Interval /\ Interval + 3 * CallTime <= StaleAfter

VARIABLES
    config,         \* the config server runs
    uptime,         \* seconds since it started
    age,            \* seconds since last_seen of each instance it knows
    phase,          \* what each instance does
    attempt,        \* the attempt of retry it is at
    left,           \* seconds left for it
    reply,          \* the answer to its call that is under way
    serving,        \* instances that serve requests
    lost            \* instances that lost a call since their last_seen was set

server == <<config, uptime, age>>
client == <<phase, attempt, left, reply, serving>>
vars == <<server, client, lost>>

Absent == -1
Known(i) == age[i] # Absent
NoReply == "none"
Calling(i) == phase[i] \in {"register", "heartbeat"}

Init ==
    /\ config = TRUE /\ uptime = 0
    /\ age = [i \in Instances |-> Absent]
    /\ phase = [i \in Instances |-> "down"]
    /\ attempt = [i \in Instances |-> 1]
    /\ left = [i \in Instances |-> 0]
    /\ reply = [i \in Instances |-> NoReply]
    /\ serving = {} /\ lost = {}

\* get_service_instances: the active instances.
Active(i) == Known(i) /\ age[i] <= StaleAfter
Listed == {i \in Instances : Active(i)}

----------------------------------------------------------------------------
(* The config server.                                                      *)

\* register_service: overwrites what was known.
HandleRegister(i) ==
    /\ config /\ phase[i] = "register" /\ reply[i] = NoReply
    /\ age' = [age EXCEPT ![i] = 0]
    /\ lost' = lost \ {i}
    /\ reply' = [reply EXCEPT ![i] = "ok"]
    /\ UNCHANGED <<config, uptime, phase, attempt, left, serving>>

\* Mistake: last_seen is not refreshed.
HandleHeartbeatOnly(i) ==
    /\ config /\ phase[i] = "heartbeat" /\ reply[i] = NoReply
    /\ reply' = [reply EXCEPT ![i] = IF Known(i) THEN "ok" ELSE "404"]
    /\ UNCHANGED <<server, phase, attempt, left, serving, lost>>

\* heartbeat: 404 for an instance it does not know.
HandleHeartbeat(i) ==
    /\ config /\ phase[i] = "heartbeat" /\ reply[i] = NoReply
    /\ IF Known(i)
       THEN /\ age' = [age EXCEPT ![i] = 0]
            /\ lost' = lost \ {i}
            /\ reply' = [reply EXCEPT ![i] = "ok"]
       ELSE /\ reply' = [reply EXCEPT ![i] = "404"]
            /\ UNCHANGED <<age, lost>>
    /\ UNCHANGED <<config, uptime, phase, attempt, left, serving>>

\* The process ends, and Docker starts it again, with an empty registry.
ConfigEnds ==
    /\ config
    /\ config' = FALSE /\ uptime' = 0
    /\ age' = [i \in Instances |-> Absent]
    /\ UNCHANGED <<client, lost>>

ConfigStarts ==
    /\ ~config
    /\ config' = TRUE
    /\ UNCHANGED <<uptime, age, client, lost>>

----------------------------------------------------------------------------
(* An instance.                                                            *)

\* What it does next, and for how long at most.
Do(i, what, seconds) ==
    /\ phase' = [phase EXCEPT ![i] = what]
    /\ left' = [left EXCEPT ![i] = seconds]
    /\ reply' = [reply EXCEPT ![i] = NoReply]

Register(i, n) == Do(i, "register", CallTime) /\ attempt' = [attempt EXCEPT ![i] = n]
Heartbeat(i) == Do(i, "heartbeat", CallTime) /\ UNCHANGED attempt
Sleep(i) == Do(i, "sleep", Interval) /\ UNCHANGED attempt
Down(i) == Do(i, "down", 0) /\ attempt' = [attempt EXCEPT ![i] = 1]

\* Docker starts the container; startup initialises the database and then calls
\* start_registration_heartbeat.
Start(i) ==
    /\ phase[i] = "down"
    /\ Register(i, 1)
    /\ UNCHANGED <<server, serving, lost>>

\* register_service returns: the first time the thread is started and startup
\* is complete.
Registered(i) ==
    /\ phase[i] = "register" /\ reply[i] = "ok"
    /\ IF i \in serving THEN Sleep(i) ELSE Heartbeat(i)
    /\ serving' = serving \cup {i}
    /\ UNCHANGED <<server, lost>>

Accepted(i) ==
    /\ phase[i] = "heartbeat" /\ reply[i] = "ok"
    /\ Sleep(i)
    /\ UNCHANGED <<server, serving, lost>>

\* Mistake: the loop only logs a failed heartbeat.
HeartbeatOnlyLogged(i) == phase[i] = "heartbeat" /\ Sleep(i)

\* heartbeat_service raises, whatever the reason: the thread registers.
HeartbeatRaises(i) == phase[i] = "heartbeat" /\ Register(i, 1)

\* The operation of register_service raises: retry sleeps, or raises itself, which
\* the thread passes over and which ends the process during startup.
Retry(i) ==
    /\ phase[i] = "register" /\ attempt[i] < Attempts
    /\ Do(i, "delay", RetryDelay) /\ UNCHANGED attempt
GiveUp(i) ==
    /\ phase[i] = "register" /\ attempt[i] = Attempts
    /\ IF i \in serving THEN Sleep(i) ELSE Down(i)

Raises(i) == HeartbeatRaises(i) \/ Retry(i) \/ GiveUp(i)

Rejected(i) ==
    /\ reply[i] = "404"
    /\ Raises(i)
    /\ UNCHANGED <<server, serving, lost>>

\* No connection, no answer in time, or an answer that does not arrive.  While
\* the server runs only the network can do that.
CallLost(i) ==
    /\ Calling(i)
    /\ config => i \notin lost
    /\ lost' = IF config THEN lost \cup {i} ELSE lost
    /\ Raises(i)
    /\ UNCHANGED <<server, serving>>

\* time.sleep is over.
Wake(i) ==
    /\ left[i] = 0
    /\ \/ phase[i] = "sleep" /\ Heartbeat(i)
       \/ phase[i] = "delay" /\ Register(i, attempt[i] + 1)
    /\ UNCHANGED <<server, serving, lost>>

\* The process ends, at any point.
Crash(i) ==
    /\ phase[i] # "down"
    /\ Down(i)
    /\ serving' = serving \ {i}
    /\ lost' = lost \ {i}
    /\ UNCHANGED server

----------------------------------------------------------------------------
\* A second passes.
Older(i) == IF Active(i) THEN age[i] + 1 ELSE age[i]
Tick ==
    /\ \A i \in Instances : phase[i] # "down" => left[i] > 0
    /\ uptime' = IF config /\ uptime < MaxUptime THEN uptime + 1 ELSE uptime
    /\ age' = [i \in Instances |-> Older(i)]
    /\ left' = [i \in Instances |-> IF phase[i] = "down" THEN left[i] ELSE left[i] - 1]
    /\ UNCHANGED <<config, phase, attempt, reply, serving, lost>>

InstanceStep(i) ==
    \/ HandleRegister(i) \/ HandleHeartbeat(i)
    \/ Start(i) \/ Registered(i) \/ Accepted(i) \/ Rejected(i) \/ CallLost(i) \/ Wake(i) \/ Crash(i)

Next == ConfigEnds \/ ConfigStarts \/ Tick \/ \E i \in Instances : InstanceStep(i)

Spec == Init /\ [][Next]_vars

----------------------------------------------------------------------------
TypeOK ==
    /\ config \in BOOLEAN /\ uptime \in 0..MaxUptime
    /\ age \in [Instances -> -1..(StaleAfter + 1)]
    /\ phase \in [Instances -> {"down", "register", "delay", "heartbeat", "sleep"}]
    /\ attempt \in [Instances -> 1..Attempts]
    /\ left \in [Instances -> Nat]
    /\ reply \in [Instances -> {NoReply, "ok", "404"}]
    /\ serving \subseteq Instances /\ lost \subseteq Instances

\* The clients' view of the registry is that of Membership: above all no instance
\* that serves ever goes stale, although a call may be lost at any time: a failed
\* heartbeat is followed by a registration at once (heartbeat_loop).
Promise == INSTANCE Membership WITH listed <- Listed
ImplementsMembership == Promise!Spec

\* After a start of the config server with its empty registry every instance that
\* serves is listed again in time: the call that was under way, a sleep, a heartbeat
\* answered 404 and a registration, and one more call and delay if one was lost.
RelistTime(i) == Interval + 3 * CallTime + IF i \in lost THEN CallTime + RetryDelay ELSE 0
ListedAgainInTime ==
    config => \A i \in serving \ Listed : uptime <= RelistTime(i)
=============================================================================
