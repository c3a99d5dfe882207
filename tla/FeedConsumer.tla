---------------------------- MODULE FeedConsumer ----------------------------
(***************************************************************************)
(* The feed consumers: processes of one Kafka consumer group that apply    *)
(* review.created events to the Neo4j graph and commit offsets by hand     *)
(* (feed-service/app/kafka_consumer.py, save_review_event).                *)
(*                                                                         *)
(* A consumer loops: take the next message of a partition it owns, write   *)
(* it to the graph if it is a review.created event, commit the offsets of  *)
(* all its partitions.  Any exception ends the process, which is restarted *)
(* and joins the group again.  The group coordinator and the client's      *)
(* bookkeeping are Kafka's; they are modelled from how the loop uses them. *)
(*                                                                         *)
(* Abstractions.  The graph is the set of reviews merged into it (what the *)
(* MERGE statements build is the subject of another module); assignment is *)
(* any split of the partitions over the members.                           *)
(***************************************************************************)
EXTENDS Integers, Sequences, FiniteSets

CONSTANTS
    Consumers,      \* feed consumer processes (two in docker-compose.yml)
    Partitions,     \* partitions of the topic review.created
    Events,         \* messages the topic may hold
    CreatedEvents,  \* those whose event_type is review.created
    MaxLog,         \* bound: messages ever written to one partition
    MaxFaults,      \* bound: how often the environment may misbehave
    SilentFailures  \* may Neo4j refuse a write after it accepted the query?

ASSUME ConsumersAssumption == IsFiniteSet(Consumers)
ASSUME EventsAssumption == CreatedEvents \subseteq Events
ASSUME LimitsAssumption == MaxLog \in Nat /\ MaxFaults \in Nat
ASSUME SilentAssumption == SilentFailures \in BOOLEAN

VARIABLES
    topic,          \* the log of each partition
    committed,      \* the group's committed offset of each partition
    members,        \* consumers that belong to the current group generation
    state,          \* where each consumer is in its loop
    assigned,       \* the partitions each consumer believes it owns
    position,       \* the next offset each consumer reads, for its partitions
    current,        \* the partition of the message a consumer works on
    graph,          \* events merged into Neo4j
    writes,         \* history: writes to Neo4j so far
    dropped,        \* history: events whose write Neo4j dropped in silence
    faults          \* environment faults so far

groupVars == <<committed, members>>
loopVars == <<state, assigned, position, current>>
graphVars == <<graph, writes, dropped>>
vars == <<topic, groupVars, loopVars, graphVars, faults>>

NoOffset == -1
NoPartition == "none"

Init ==
    /\ topic = [k \in Partitions |-> << >>]
    /\ committed = [k \in Partitions |-> NoOffset]
    /\ members = {}
    /\ state = [c \in Consumers |-> "down"]
    /\ assigned = [c \in Consumers |-> {}]
    /\ position = [c \in Consumers |-> [k \in Partitions |-> 0]]
    /\ current = [c \in Consumers |-> NoPartition]
    /\ graph = {}
    /\ writes = 0
    /\ dropped = {}
    /\ faults = 0

Fault == faults < MaxFaults /\ faults' = faults + 1

\* The publishers append.
Produce(k, e) ==
    /\ Len(topic[k]) < MaxLog
    /\ topic' = [topic EXCEPT ![k] = Append(@, e)]
    /\ UNCHANGED <<groupVars, loopVars, graphVars, faults>>

----------------------------------------------------------------------------
(* Group membership.                                                       *)

\* Docker starts the container: wait_for_neo4j, create_constraints, then
\* create_consumer, whose first poll asks to join the group.
Join(c) ==
    /\ state[c] = "down"
    /\ state' = [state EXCEPT ![c] = "joining"]
    /\ UNCHANGED <<topic, groupVars, assigned, position, current, graphVars, faults>>

\* Mistakes: auto_offset_reset="latest"; every assignment starts from the top.
StartLatest(k) == IF committed[k] = NoOffset THEN Len(topic[k]) ELSE committed[k]
StartFromTop(k) == 0

\* Where a consumer starts to read: auto_offset_reset="earliest" when the group
\* has no committed offset.
StartOffset(k) == IF committed[k] = NoOffset THEN 0 ELSE committed[k]

Orphaned(k) == \A c \in members : k \notin assigned[c]

\* The coordinator forms a new generation of everyone who polls and deals the
\* partitions out again; every member resumes from the committed offsets.  It
\* waits for a member that is busy with a message, unless it expels that member
\* (max.poll.interval or session timeout): then the member becomes a zombie
\* that still believes it owns its partitions.
Rebalance(expelled) ==
    LET joining == {c \in Consumers : state[c] = "joining"}
        next == (members \ expelled) \cup joining
    IN  /\ joining # {} \/ expelled # {} \/ \E k \in Partitions : Orphaned(k)
        /\ expelled \subseteq members
        /\ next # {}
        /\ \A c \in next : state[c] \in {"joining", "polling"}
        /\ faults + Cardinality(expelled) <= MaxFaults
        /\ faults' = faults + Cardinality(expelled)
        /\ members' = next
        /\ \E owner \in [Partitions -> next] :
              assigned' = [c \in Consumers |-> IF c \in next
                                               THEN {k \in Partitions : owner[k] = c}
                                               ELSE assigned[c]]
        /\ state' = [c \in Consumers |-> IF c \in next THEN "polling" ELSE state[c]]
        /\ position' = [c \in Consumers |-> IF c \in next
                                            THEN [k \in Partitions |-> StartOffset(k)]
                                            ELSE position[c]]
        /\ UNCHANGED <<topic, committed, current, graphVars>>

\* A zombie learns from a heartbeat that its generation is over, and rejoins.
Rejoin(c) ==
    /\ state[c] = "polling" /\ c \notin members
    /\ state' = [state EXCEPT ![c] = "joining"]
    /\ UNCHANGED <<topic, groupVars, assigned, position, current, graphVars, faults>>

----------------------------------------------------------------------------
(* consume_reviews.                                                        *)

Message(c) == topic[current[c]][position[c][current[c]]]

\* for message in consumer: the position moves past the message it yields.
Poll(c, k) ==
    /\ state[c] = "polling"
    /\ k \in assigned[c]
    /\ position[c][k] < Len(topic[k])
    /\ position' = [position EXCEPT ![c][k] = @ + 1]
    /\ current' = [current EXCEPT ![c] = k]
    /\ state' = [state EXCEPT ![c] = "processing"]
    /\ UNCHANGED <<topic, groupVars, assigned, graphVars, faults>>

\* save_review_event: MERGE, so that a repetition changes nothing.
Save(c) ==
    /\ state[c] = "processing"
    /\ Message(c) \in CreatedEvents
    /\ graph' = graph \cup {Message(c)}
    /\ writes' = writes + 1
    /\ state' = [state EXCEPT ![c] = "saved"]
    /\ UNCHANGED <<topic, groupVars, assigned, position, current, dropped, faults>>

\* Any other event_type is passed over.
Skip(c) ==
    /\ state[c] = "processing"
    /\ Message(c) \notin CreatedEvents
    /\ state' = [state EXCEPT ![c] = "saved"]
    /\ UNCHANGED <<topic, groupVars, assigned, position, current, graphVars, faults>>

\* Neo4j accepts the query and fails the write afterwards.  That error comes
\* with the result of session.run, which the code does not read, and closing
\* the session does not raise it.
SaveFailsSilently(c) ==
    /\ SilentFailures /\ Fault
    /\ state[c] = "processing"
    /\ Message(c) \in CreatedEvents
    /\ dropped' = dropped \cup {Message(c)}
    /\ state' = [state EXCEPT ![c] = "saved"]
    /\ UNCHANGED <<topic, groupVars, assigned, position, current, graph, writes>>

Exit(c) ==
    /\ state' = [state EXCEPT ![c] = "down"]
    /\ members' = members \ {c}
    /\ assigned' = [assigned EXCEPT ![c] = {}]
    /\ position' = [position EXCEPT ![c] = [k \in Partitions |-> 0]]
    /\ current' = [current EXCEPT ![c] = NoPartition]
    /\ UNCHANGED <<topic, committed>>

\* Mistake: the exception is logged and not raised again, so the loop goes on to
\* the commit.
SaveFailsAndGoesOn(c) ==
    /\ state[c] = "processing" /\ Fault
    /\ Message(c) \in CreatedEvents
    /\ state' = [state EXCEPT ![c] = "saved"]
    /\ UNCHANGED <<topic, groupVars, assigned, position, current, graphVars>>

\* save_review_event raises, with the write applied or not: the process ends.
SaveFails(c) ==
    /\ state[c] = "processing" /\ Fault
    /\ Message(c) \in CreatedEvents
    /\ \/ UNCHANGED <<graph, writes>>
       \/ graph' = graph \cup {Message(c)} /\ writes' = writes + 1
    /\ Exit(c)
    /\ UNCHANGED dropped

\* Mistake: partitions assigned by hand instead of by group subscription, so that
\* no generation fences the commit.
CommitUnfenced(c) ==
    /\ state[c] = "saved"
    /\ committed' = [k \in Partitions |-> IF k \in assigned[c] THEN position[c][k] ELSE committed[k]]
    /\ state' = [state EXCEPT ![c] = "polling"]
    /\ current' = [current EXCEPT ![c] = NoPartition]
    /\ UNCHANGED <<topic, members, assigned, position, graphVars, faults>>

\* consumer.commit(): the coordinator takes the positions of all partitions of
\* a member of the current generation.
CommitOffsets(c) ==
    /\ state[c] = "saved" /\ c \in members
    /\ committed' = [k \in Partitions |-> IF k \in assigned[c] THEN position[c][k] ELSE committed[k]]
    /\ state' = [state EXCEPT ![c] = "polling"]
    /\ current' = [current EXCEPT ![c] = NoPartition]
    /\ UNCHANGED <<topic, members, assigned, position, graphVars, faults>>

\* ... and refuses those of a zombie: commit raises and the process ends.
CommitRefused(c) ==
    /\ state[c] = "saved" /\ c \notin members
    /\ Exit(c)
    /\ UNCHANGED <<graphVars, faults>>

\* A kill at any point, or a commit that raises without being applied.
Crash(c) ==
    /\ state[c] # "down" /\ Fault
    /\ Exit(c)
    /\ UNCHANGED graphVars

----------------------------------------------------------------------------
LoopStep(c) ==
    \/ Join(c) \/ Rejoin(c) \/ Save(c) \/ Skip(c) \/ CommitOffsets(c) \/ CommitRefused(c)
    \/ \E k \in Partitions : Poll(c, k)

FaultStep(c) == SaveFails(c) \/ SaveFailsSilently(c) \/ Crash(c)

GroupStep == \E expelled \in SUBSET Consumers : Rebalance(expelled)

FeedNext == GroupStep \/ \E c \in Consumers : LoopStep(c) \/ FaultStep(c)

Next == FeedNext \/ \E k \in Partitions, e \in Events : Produce(k, e)

Spec == Init /\ [][Next]_vars

\* Consumers are restarted (restart: unless-stopped) and loop for ever, and the
\* coordinator completes a rebalance that everyone has joined.  Faults cease
\* after MaxFaults; nothing is assumed of the publishers.
Fairness == WF_vars(Rebalance({})) /\ \A c \in Consumers : WF_vars(LoopStep(c))

FairSpec == Spec /\ Fairness

----------------------------------------------------------------------------
TypeOK ==
    /\ topic \in [Partitions -> Seq(Events)]
    /\ committed \in [Partitions -> Nat \cup {NoOffset}]
    /\ members \subseteq Consumers
    /\ state \in [Consumers -> {"down", "joining", "polling", "processing", "saved"}]
    /\ assigned \in [Consumers -> SUBSET Partitions]
    /\ position \in [Consumers -> [Partitions -> Nat]]
    /\ current \in [Consumers -> Partitions \cup {NoPartition}]
    /\ graph \subseteq CreatedEvents
    /\ dropped \subseteq CreatedEvents
    /\ writes \in Nat
    /\ faults \in 0..MaxFaults

\* An offset is committed only when every review.created event before it is in
\* the graph, so that no crash, rebalance or failed write loses an event; the one
\* exception is a write that Neo4j dropped without an exception (consume_reviews).
CommittedIsApplied ==
    \A k \in Partitions : \A n \in 1..committed[k] :
        topic[k][n] \in CreatedEvents => topic[k][n] \in graph \cup dropped

\* A committed offset never moves back, not even by a consumer that was expelled
\* from the group and does not know it yet (consumer.commit()).
OffsetsNeverGoBack == [][\A k \in Partitions : committed'[k] >= committed[k]]_vars

\* A second write of the same message costs a fault: joins and orderly
\* rebalances repeat nothing ("the survivor resumes from exactly where the dead
\* consumer last committed - no duplicate writes", events.md).
RelevantMessages ==
    UNION {{<<k, n>> : n \in {m \in 1..Len(topic[k]) : topic[k][m] \in CreatedEvents}} : k \in Partitions}
RewritesNeedFaults == writes <= Cardinality(RelevantMessages) + faults
============================================================================
