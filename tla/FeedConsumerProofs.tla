------------------------- MODULE FeedConsumerProofs -------------------------
(***************************************************************************)
(* Proofs about FeedConsumer, for any consumers, partitions, messages and  *)
(* faults: a committed offset is never ahead of the graph, it never moves  *)
(* back, and a second write of a message costs a fault.  The argument for  *)
(* the first two: every position of every consumer, zombies included, has  *)
(* the events below it in the graph, except for the message in work; and a *)
(* member's positions are not behind the committed offsets of its          *)
(* partitions, which no other member has.  The third is a count of what is *)
(* written and what the faults have paid for (CountInv, at the end).       *)
(***************************************************************************)
EXTENDS FeedConsumer, FiniteSetTheorems, TLAPS

USE EventsAssumption, LimitsAssumption, SilentAssumption

\* The offsets of a partition below which all is in the graph, or was dropped.
AppliedUpTo(k) ==
    {m \in 0..Len(topic[k]) :
        \A n \in 1..m : topic[k][n] \in CreatedEvents => topic[k][n] \in graph \cup dropped}

\* A consumer has dealt with all below its position, but for the message in work.
Working(c, k) == state[c] = "processing" /\ current[c] = k
Course(c) ==
    /\ \A k \in Partitions :
         IF Working(c, k) THEN position[c][k] - 1 \in AppliedUpTo(k) /\ position[c][k] <= Len(topic[k])
                          ELSE position[c][k] \in AppliedUpTo(k)
    /\ state[c] = "processing" => current[c] \in Partitions

\* A member is not behind what is committed, and shares no partition.
Ahead(c) ==
    c \in members => \A k \in assigned[c] :
        /\ position[c][k] >= committed[k]
        /\ \A d \in members : k \in assigned[d] => d = c

FeedInv ==
    /\ TypeOK
    /\ \A k \in Partitions : committed[k] \in AppliedUpTo(k) \cup {NoOffset}
    /\ \A c \in Consumers : Course(c)
    /\ \A c \in Consumers : Ahead(c)
    /\ dropped # {} => SilentFailures

----------------------------------------------------------------------------
(* Frames.                                                                 *)

\* The log and the graph only grow, so what is applied stays so.
Grows ==
    /\ \A k \in Partitions : /\ Len(topic[k]) <= Len(topic'[k])
                             /\ \A n \in 1..Len(topic[k]) : topic'[k][n] = topic[k][n]
    /\ graph \subseteq graph' /\ dropped \subseteq dropped'

LEMMA AppliedStays ==
    ASSUME TypeOK, TypeOK', Grows, NEW k \in Partitions
    PROVE  AppliedUpTo(k) \subseteq AppliedUpTo(k)'
<1>1. /\ Len(topic[k]) \in Nat /\ Len(topic'[k]) \in Nat /\ Len(topic[k]) <= Len(topic'[k])
      /\ \A n \in 1..Len(topic[k]) : topic'[k][n] = topic[k][n]
      /\ graph \cup dropped \subseteq graph' \cup dropped'
  BY DEF TypeOK, Grows
<1> SUFFICES ASSUME NEW m \in AppliedUpTo(k) PROVE m \in AppliedUpTo(k)'
  OBVIOUS
<1>2. /\ m \in 0..Len(topic[k])
      /\ \A n \in 1..m : topic[k][n] \in CreatedEvents => topic[k][n] \in graph \cup dropped
  BY DEF AppliedUpTo
<1>3. m \in 0..Len(topic'[k])
  BY <1>1, <1>2
<1>4. ASSUME NEW n \in 1..m, topic'[k][n] \in CreatedEvents
      PROVE  topic'[k][n] \in graph' \cup dropped'
  <2>1. n \in 1..Len(topic[k])
    BY <1>1, <1>2
  <2> QED BY <1>1, <1>2, <1>4, <2>1
<1> QED BY <1>3, <1>4 DEF AppliedUpTo

LEMMA StartsApplied ==
    ASSUME TypeOK, NEW k \in Partitions, committed[k] \in AppliedUpTo(k) \cup {NoOffset}
    PROVE  StartOffset(k) \in AppliedUpTo(k) /\ StartOffset(k) >= committed[k]
<1>1. Len(topic[k]) \in Nat /\ committed[k] \in Int
  BY DEF TypeOK, NoOffset
<1>2. 0 \in AppliedUpTo(k)
  BY <1>1 DEF AppliedUpTo
<1> QED BY <1>1, <1>2 DEF StartOffset, NoOffset

\* A consumer whose own variables do not change keeps its course.
Untouched(c) == state'[c] = state[c] /\ position'[c] = position[c] /\ current'[c] = current[c]

LEMMA CourseStays ==
    ASSUME TypeOK, TypeOK', Grows, NEW c \in Consumers, Untouched(c), Course(c) PROVE Course(c)'
<1>1. ASSUME NEW k \in Partitions
      PROVE  IF Working(c, k)' THEN position'[c][k] - 1 \in AppliedUpTo(k)' /\ position'[c][k] <= Len(topic'[k])
                               ELSE position'[c][k] \in AppliedUpTo(k)'
  <2>1. Working(c, k)' <=> Working(c, k)
    BY DEF Untouched, Working
  <2>2. AppliedUpTo(k) \subseteq AppliedUpTo(k)'
    BY AppliedStays
  <2>3. /\ position'[c][k] = position[c][k] /\ position[c][k] \in Nat
        /\ Len(topic[k]) \in Nat /\ Len(topic'[k]) \in Nat /\ Len(topic[k]) <= Len(topic'[k])
    BY DEF Untouched, TypeOK, Grows
  <2>4. IF Working(c, k) THEN position[c][k] - 1 \in AppliedUpTo(k) /\ position[c][k] <= Len(topic[k])
                         ELSE position[c][k] \in AppliedUpTo(k)
    BY DEF Course
  <2> QED BY <2>1, <2>2, <2>3, <2>4
<1>2. state'[c] = "processing" => current'[c] \in Partitions
  BY DEF Untouched, Course
<1> QED BY <1>1, <1>2 DEF Course

\* A step without a new commit or a new assignment keeps the members ahead.
LEMMA AheadStays ==
    ASSUME TypeOK, \A c \in Consumers : Ahead(c),
           committed' = committed, members' \subseteq members,
           \A c \in members' : /\ assigned'[c] = assigned[c]
                               /\ \A k \in Partitions : position'[c][k] >= position[c][k]
                                                        /\ position'[c][k] \in Nat
    PROVE  \A c \in Consumers : Ahead(c)'
<1> SUFFICES ASSUME NEW c \in Consumers, c \in members', NEW k \in assigned'[c]
             PROVE  /\ position'[c][k] >= committed'[k]
                    /\ \A d \in members' : k \in assigned'[d] => d = c
  BY DEF Ahead
<1>1. /\ k \in assigned[c] /\ c \in members /\ k \in Partitions
      /\ position[c][k] \in Nat /\ committed[k] \in Int
  BY DEF TypeOK, NoOffset
<1>2. /\ position[c][k] >= committed[k]
      /\ \A d \in members : k \in assigned[d] => d = c
  BY <1>1 DEF Ahead
<1>3. position'[c][k] >= position[c][k] /\ position'[c][k] \in Nat
  BY <1>1
<1> QED BY <1>1, <1>2, <1>3

\* A step that commits nothing: the offsets stay applied.
LEMMA OffsetsStayApplied ==
    ASSUME FeedInv, TypeOK', Grows, committed' = committed
    PROVE  \A k \in Partitions : committed'[k] \in AppliedUpTo(k)' \cup {NoOffset}
  BY AppliedStays DEF FeedInv

\* A step of the others: only the log grows.
LEMMA OthersKeepFeed ==
    ASSUME FeedInv, TypeOK', Grows, UNCHANGED <<groupVars, loopVars, graphVars>> PROVE FeedInv'
<1>1. /\ UNCHANGED <<committed, members, state, assigned, position, current>>
      /\ UNCHANGED <<graph, writes, dropped>>
  BY DEF groupVars, loopVars, graphVars
<1>2. \A k \in Partitions : committed'[k] \in AppliedUpTo(k)' \cup {NoOffset}
  BY <1>1, OffsetsStayApplied
<1>3. \A c \in Consumers : Course(c)'
  BY <1>1, CourseStays DEF FeedInv, Untouched
<1>4. \A c \in Consumers : Ahead(c)'
  BY <1>1 DEF FeedInv, Ahead
<1> QED BY <1>1, <1>2, <1>3, <1>4 DEF FeedInv

----------------------------------------------------------------------------
(* The steps.                                                              *)

LEMMA FeedInitially == Init => FeedInv
<1> SUFFICES ASSUME Init PROVE FeedInv
  OBVIOUS
<1>1. TypeOK
  BY DEF Init, TypeOK, NoOffset
<1>2. \A k \in Partitions : 0 \in AppliedUpTo(k)
  BY <1>1 DEF AppliedUpTo, TypeOK
<1>3. \A c \in Consumers : state[c] = "down" /\ \A k \in Partitions : position[c][k] = 0
  BY DEF Init
<1>4. \A c \in Consumers : Course(c)
  BY <1>2, <1>3 DEF Course, Working
<1>5. \A c \in Consumers : Ahead(c)
  BY DEF Init, Ahead
<1> QED BY <1>1, <1>4, <1>5 DEF FeedInv, Init

\* What a step of one consumer c must show, if the log stands and nothing is committed.
LEMMA OneConsumer ==
    ASSUME FeedInv, TypeOK', NEW c \in Consumers, UNCHANGED <<topic, committed>>,
           graph \subseteq graph', dropped \subseteq dropped', dropped' # dropped => SilentFailures,
           members' \subseteq members,
           \A d \in Consumers \ {c} : Untouched(d) /\ assigned'[d] = assigned[d],
           Course(c)',
           c \in members' => /\ assigned'[c] = assigned[c]
                             /\ \A k \in Partitions : position'[c][k] >= position[c][k]
    PROVE  FeedInv'
<1>1. Grows
  <2>1. \A k \in Partitions : Len(topic[k]) \in Nat
    BY DEF FeedInv, TypeOK
  <2> QED BY <2>1 DEF Grows
<1>2. \A k \in Partitions : committed'[k] \in AppliedUpTo(k)' \cup {NoOffset}
  BY <1>1, OffsetsStayApplied
<1>3. \A d \in Consumers : Course(d)'
  BY <1>1, CourseStays DEF FeedInv
<1>4. \A d \in members' : /\ assigned'[d] = assigned[d]
                          /\ \A k \in Partitions : position'[d][k] >= position[d][k]
                                                   /\ position'[d][k] \in Nat
  <2>1. \A d \in members' : d \in Consumers
    BY DEF FeedInv, TypeOK
  <2>2. \A d \in Consumers, k \in Partitions : position[d][k] \in Nat /\ position'[d][k] \in Nat
    BY DEF FeedInv, TypeOK
  <2> QED BY <2>1, <2>2 DEF Untouched
<1>5. \A d \in Consumers : Ahead(d)'
  BY <1>4, AheadStays DEF FeedInv
<1> QED BY <1>2, <1>3, <1>5 DEF FeedInv

LEMMA FaultFacts == TypeOK /\ Fault => faults' \in 0..MaxFaults
  BY DEF TypeOK, Fault

LEMMA JoinInv == ASSUME FeedInv, NEW c \in Consumers, Join(c) \/ Rejoin(c) PROVE FeedInv'
<1>1. /\ UNCHANGED <<topic, committed, members, assigned, position, current, graph, writes, dropped, faults>>
      /\ state' = [state EXCEPT ![c] = "joining"] /\ state[c] # "processing"
  BY DEF Join, Rejoin, groupVars, graphVars
<1>2. TypeOK'
  BY <1>1 DEF FeedInv, TypeOK
<1>3. \A d \in Consumers \ {c} : Untouched(d)
  BY <1>1 DEF Untouched, FeedInv, TypeOK
<1>4. Course(c)'
  <2>1. state'[c] = "joining"
    BY <1>1 DEF FeedInv, TypeOK
  <2> QED BY <1>1, <2>1 DEF FeedInv, Course, Working, AppliedUpTo
<1>5. \A k \in Partitions : position'[c][k] >= position[c][k]
  BY <1>1 DEF FeedInv, TypeOK
<1> QED BY <1>1, <1>2, <1>3, <1>4, <1>5, OneConsumer

LEMMA PollInv ==
    ASSUME FeedInv, NEW c \in Consumers, NEW k \in Partitions, Poll(c, k) PROVE FeedInv'
<1>1. /\ UNCHANGED <<topic, committed, members, assigned, graph, writes, dropped, faults>>
      /\ state[c] = "polling" /\ k \in assigned[c] /\ position[c][k] < Len(topic[k])
      /\ position' = [position EXCEPT ![c] = [position[c] EXCEPT ![k] = position[c][k] + 1]]
      /\ current' = [current EXCEPT ![c] = k]
      /\ state' = [state EXCEPT ![c] = "processing"]
  BY DEF Poll, groupVars, graphVars
<1>2. TypeOK'
  BY <1>1 DEF FeedInv, TypeOK
<1>3. \A d \in Consumers \ {c} : Untouched(d)
  BY <1>1 DEF Untouched, FeedInv, TypeOK
<1>4. /\ state'[c] = "processing" /\ current'[c] = k
      /\ \A j \in Partitions : position'[c][j] = IF j = k THEN position[c][k] + 1 ELSE position[c][j]
      /\ \A j \in Partitions : position[c][j] \in Nat /\ Len(topic[j]) \in Nat
  BY <1>1 DEF FeedInv, TypeOK
<1>5. \A j \in Partitions : position[c][j] \in AppliedUpTo(j) /\ AppliedUpTo(j)' = AppliedUpTo(j)
  BY <1>1 DEF FeedInv, Course, Working, AppliedUpTo
<1>6. Course(c)'
  BY <1>1, <1>4, <1>5 DEF Course, Working
<1> QED BY <1>1, <1>2, <1>3, <1>4, <1>6, OneConsumer

\* The message in work is dealt with: the position counts.
LEMMA DealtWith ==
    ASSUME FeedInv, TypeOK', NEW c \in Consumers, state[c] = "processing",
           UNCHANGED <<topic, committed, members, assigned, position, current>>,
           state' = [state EXCEPT ![c] = "saved"],
           graph \subseteq graph', dropped \subseteq dropped', dropped' # dropped => SilentFailures,
           Message(c) \in CreatedEvents => Message(c) \in graph' \cup dropped'
    PROVE  FeedInv'
<1>1. Grows
  BY DEF Grows, FeedInv, TypeOK
<1>2. \A d \in Consumers \ {c} : Untouched(d)
  BY DEF Untouched, FeedInv, TypeOK
<1>3. ASSUME NEW k \in Partitions PROVE position[c][k] \in AppliedUpTo(k)'
  <2>1. AppliedUpTo(k) \subseteq AppliedUpTo(k)'
    BY <1>1, AppliedStays DEF FeedInv
  <2>2. CASE current[c] # k
    BY <2>1, <2>2 DEF FeedInv, Course, Working
  <2>3. CASE current[c] = k
    <3>1. /\ position[c][k] - 1 \in AppliedUpTo(k)' /\ position[c][k] <= Len(topic[k])
          /\ position[c][k] \in Nat
      BY <2>1, <2>3 DEF FeedInv, Course, Working, TypeOK
    <3>2. \A n \in 1..(position[c][k] - 1) :
              topic[k][n] \in CreatedEvents => topic[k][n] \in graph' \cup dropped'
      BY <3>1 DEF AppliedUpTo
    <3>3. topic[k][position[c][k]] \in CreatedEvents
            => topic[k][position[c][k]] \in graph' \cup dropped'
      BY <2>3 DEF Message
    <3>4. \A n \in 1..position[c][k] :
              topic[k][n] \in CreatedEvents => topic[k][n] \in graph' \cup dropped'
      BY <3>1, <3>2, <3>3
    <3>5. Len(topic[k]) \in Nat
      BY DEF FeedInv, TypeOK
    <3> QED BY <3>1, <3>4, <3>5 DEF AppliedUpTo
  <2> QED BY <2>2, <2>3
<1>4. state'[c] = "saved" /\ \A k \in Partitions : position'[c][k] >= position[c][k]
  BY DEF FeedInv, TypeOK
<1>5. Course(c)'
  BY <1>3, <1>4 DEF Course, Working
<1> QED BY <1>2, <1>4, <1>5, OneConsumer

LEMMA DealInv ==
    ASSUME FeedInv, NEW c \in Consumers, Save(c) \/ Skip(c) \/ SaveFailsSilently(c) PROVE FeedInv'
<1>1. /\ state[c] = "processing"
      /\ UNCHANGED <<topic, committed, members, assigned, position, current>>
      /\ state' = [state EXCEPT ![c] = "saved"]
  BY DEF Save, Skip, SaveFailsSilently, groupVars
<1>2. /\ graph \subseteq graph' /\ dropped \subseteq dropped' /\ (dropped' # dropped => SilentFailures)
      /\ Message(c) \in CreatedEvents => Message(c) \in graph' \cup dropped'
  BY DEF Save, Skip, SaveFailsSilently, graphVars
<1>3. graph' \subseteq CreatedEvents /\ dropped' \subseteq CreatedEvents
      /\ writes' \in Nat /\ faults' \in 0..MaxFaults
  BY FaultFacts DEF Save, Skip, SaveFailsSilently, graphVars, FeedInv, TypeOK
<1>4. TypeOK'
  BY <1>1, <1>3 DEF FeedInv, TypeOK
<1> QED BY <1>1, <1>2, <1>4, DealtWith

\* A process that ends takes its membership and positions with it.
LEMMA ExitInv ==
    ASSUME FeedInv, NEW c \in Consumers, Exit(c),
           graph \subseteq graph', dropped' = dropped,
           graph' \subseteq CreatedEvents, writes' \in Nat, faults' \in 0..MaxFaults
    PROVE  FeedInv'
<1>1. /\ UNCHANGED <<topic, committed>> /\ members' = members \ {c}
      /\ state' = [state EXCEPT ![c] = "down"]
      /\ assigned' = [assigned EXCEPT ![c] = {}]
      /\ position' = [position EXCEPT ![c] = [k \in Partitions |-> 0]]
      /\ current' = [current EXCEPT ![c] = NoPartition]
  BY DEF Exit
<1>2. TypeOK'
  BY <1>1 DEF FeedInv, TypeOK
<1>3. \A d \in Consumers \ {c} : Untouched(d) /\ assigned'[d] = assigned[d]
  BY <1>1 DEF Untouched, FeedInv, TypeOK
<1>4. state'[c] = "down" /\ \A k \in Partitions : position'[c][k] = 0
  BY <1>1 DEF FeedInv, TypeOK
<1>5. \A k \in Partitions : 0 \in AppliedUpTo(k)'
  BY <1>2 DEF AppliedUpTo, TypeOK
<1>6. Course(c)'
  BY <1>4, <1>5 DEF Course, Working
<1> QED BY <1>1, <1>2, <1>3, <1>6, OneConsumer

LEMMA EndsInv ==
    ASSUME FeedInv, NEW c \in Consumers, SaveFails(c) \/ CommitRefused(c) \/ Crash(c) PROVE FeedInv'
<1>1. Exit(c) /\ graph \subseteq graph' /\ dropped' = dropped
  BY DEF SaveFails, CommitRefused, Crash, graphVars
<1>2. graph' \subseteq CreatedEvents /\ writes' \in Nat /\ faults' \in 0..MaxFaults
  BY FaultFacts DEF SaveFails, CommitRefused, Crash, graphVars, FeedInv, TypeOK
<1> QED BY <1>1, <1>2, ExitInv

LEMMA CommitInv == ASSUME FeedInv, NEW c \in Consumers, CommitOffsets(c) PROVE FeedInv'
<1>1. /\ UNCHANGED <<topic, members, assigned, position, graph, writes, dropped, faults>>
      /\ state[c] = "saved" /\ c \in members
      /\ committed' = [k \in Partitions |-> IF k \in assigned[c] THEN position[c][k] ELSE committed[k]]
      /\ state' = [state EXCEPT ![c] = "polling"]
      /\ current' = [current EXCEPT ![c] = NoPartition]
  BY DEF CommitOffsets, graphVars
<1>2. TypeOK'
  BY <1>1 DEF FeedInv, TypeOK
<1>3. Grows
  BY <1>1 DEF Grows, FeedInv, TypeOK
<1>4. \A k \in Partitions : AppliedUpTo(k)' = AppliedUpTo(k) /\ position[c][k] \in AppliedUpTo(k)
  BY <1>1 DEF AppliedUpTo, FeedInv, Course, Working
<1>5. \A k \in Partitions : committed'[k] \in AppliedUpTo(k)' \cup {NoOffset}
  BY <1>1, <1>4 DEF FeedInv
<1>6. ASSUME NEW d \in Consumers PROVE Course(d)'
  <2>1. CASE d = c
    <3>1. state'[c] = "polling"
      BY <1>1 DEF FeedInv, TypeOK
    <3> QED BY <1>1, <1>4, <2>1, <3>1 DEF Course, Working
  <2>2. CASE d # c
    <3>1. Untouched(d)
      BY <1>1, <2>2 DEF Untouched, FeedInv, TypeOK
    <3> QED BY <1>2, <1>3, <3>1, CourseStays DEF FeedInv
  <2> QED BY <2>1, <2>2
<1>7. ASSUME NEW d \in Consumers PROVE Ahead(d)'
  <2> SUFFICES ASSUME d \in members, NEW k \in assigned[d]
               PROVE  /\ position[d][k] >= committed'[k]
                      /\ \A e \in members : k \in assigned[e] => e = d
    BY <1>1 DEF Ahead
  <2>1. k \in Partitions /\ position[d][k] \in Nat
    BY DEF FeedInv, TypeOK
  <2>2. /\ position[d][k] >= committed[k]
        /\ \A e \in members : k \in assigned[e] => e = d
    BY DEF FeedInv, Ahead
  <2>3. k \in assigned[c] => c = d
    BY <1>1, <2>2
  <2>4. committed'[k] = IF k \in assigned[c] THEN position[c][k] ELSE committed[k]
    BY <1>1, <2>1
  <2> QED BY <2>1, <2>2, <2>3, <2>4
<1> QED BY <1>1, <1>2, <1>5, <1>6, <1>7 DEF FeedInv

LEMMA RebalanceInv ==
    ASSUME FeedInv, NEW expelled \in SUBSET Consumers, Rebalance(expelled) PROVE FeedInv'
<1> DEFINE joining == {c \in Consumers : state[c] = "joining"}
           next == (members \ expelled) \cup joining
<1>1. /\ UNCHANGED <<topic, committed, current, graph, writes, dropped>>
      /\ members' = next /\ next \subseteq Consumers
      /\ faults + Cardinality(expelled) <= MaxFaults
      /\ faults' = faults + Cardinality(expelled)
      /\ state' = [c \in Consumers |-> IF c \in next THEN "polling" ELSE state[c]]
      /\ position' = [c \in Consumers |-> IF c \in next
                                          THEN [k \in Partitions |-> StartOffset(k)]
                                          ELSE position[c]]
  BY DEF Rebalance, graphVars, FeedInv, TypeOK
<1>2. PICK owner \in [Partitions -> next] :
         assigned' = [c \in Consumers |-> IF c \in next
                                          THEN {k \in Partitions : owner[k] = c}
                                          ELSE assigned[c]]
  BY DEF Rebalance
<1> HIDE DEF next
<1>3. ASSUME NEW k \in Partitions
      PROVE  /\ StartOffset(k) \in AppliedUpTo(k) /\ StartOffset(k) >= committed[k]
             /\ StartOffset(k) \in Nat /\ AppliedUpTo(k)' = AppliedUpTo(k)
  <2>1. StartOffset(k) \in AppliedUpTo(k) /\ StartOffset(k) >= committed[k]
    BY StartsApplied DEF FeedInv
  <2>2. AppliedUpTo(k)' = AppliedUpTo(k)
    BY <1>1 DEF AppliedUpTo
  <2>3. AppliedUpTo(k) \subseteq Nat
    BY DEF AppliedUpTo
  <2> QED BY <2>1, <2>2, <2>3
<1>4. TypeOK'
  <2>1. faults' \in 0..MaxFaults
    <3>1. Cardinality(expelled) \in Nat
      BY ConsumersAssumption, FS_Subset, FS_CardinalityType
    <3> QED BY <1>1, <3>1 DEF FeedInv, TypeOK
  <2>2. position' \in [Consumers -> [Partitions -> Nat]]
    BY <1>1, <1>3 DEF FeedInv, TypeOK
  <2>3. assigned' \in [Consumers -> SUBSET Partitions]
    BY <1>2 DEF FeedInv, TypeOK
  <2>4. state' \in [Consumers -> {"down", "joining", "polling", "processing", "saved"}]
    BY <1>1 DEF FeedInv, TypeOK
  <2> QED BY <1>1, <2>1, <2>2, <2>3, <2>4 DEF FeedInv, TypeOK
<1>5. Grows
  BY <1>1 DEF Grows, FeedInv, TypeOK
<1>6. \A k \in Partitions : committed'[k] \in AppliedUpTo(k)' \cup {NoOffset}
  BY <1>1, <1>3 DEF FeedInv
<1>7. ASSUME NEW d \in Consumers PROVE Course(d)'
  <2>1. CASE d \in next
    <3>1. state'[d] = "polling" /\ \A k \in Partitions : position'[d][k] = StartOffset(k)
      BY <1>1, <2>1
    <3> QED BY <1>3, <3>1 DEF Course, Working
  <2>2. CASE d \notin next
    <3>1. Untouched(d)
      BY <1>1, <2>2 DEF Untouched
    <3> QED BY <1>4, <1>5, <3>1, CourseStays DEF FeedInv
  <2> QED BY <2>1, <2>2
<1>8. ASSUME NEW d \in Consumers PROVE Ahead(d)'
  <2> SUFFICES ASSUME d \in next, NEW k \in assigned'[d]
               PROVE  /\ position'[d][k] >= committed'[k]
                      /\ \A e \in next : k \in assigned'[e] => e = d
    BY <1>1 DEF Ahead
  <2>1. k \in Partitions /\ owner[k] = d
    BY <1>2
  <2>2. position'[d][k] = StartOffset(k) /\ committed'[k] = committed[k]
    BY <1>1, <2>1
  <2>3. \A e \in next : k \in assigned'[e] => owner[k] = e
    BY <1>1, <1>2
  <2> QED BY <1>3, <2>1, <2>2, <2>3
<1> QED BY <1>1, <1>4, <1>6, <1>7, <1>8 DEF FeedInv

LEMMA ProduceInv ==
    ASSUME FeedInv, NEW k \in Partitions, NEW e \in Events, Produce(k, e) PROVE FeedInv'
<1>1. /\ topic' = [topic EXCEPT ![k] = Append(topic[k], e)]
      /\ UNCHANGED <<groupVars, loopVars, graphVars, faults>>
  BY DEF Produce
<1>2. topic[k] \in Seq(Events)
  BY DEF FeedInv, TypeOK
<1>3. TypeOK'
  <2>1. topic' \in [Partitions -> Seq(Events)]
    BY <1>1, <1>2 DEF FeedInv, TypeOK
  <2> QED BY <1>1, <2>1 DEF FeedInv, TypeOK, groupVars, loopVars, graphVars
<1>4. Grows
  <2>1. /\ Len(Append(topic[k], e)) = Len(topic[k]) + 1
        /\ \A n \in 1..Len(topic[k]) : Append(topic[k], e)[n] = topic[k][n]
    BY <1>2
  <2>2. \A j \in Partitions : topic'[j] = (IF j = k THEN Append(topic[k], e) ELSE topic[j])
                              /\ Len(topic[j]) \in Nat
    BY <1>1 DEF FeedInv, TypeOK
  <2>3. graph' = graph /\ dropped' = dropped
    BY <1>1 DEF graphVars
  <2>4. ASSUME NEW j \in Partitions
        PROVE  /\ Len(topic[j]) <= Len(topic'[j])
               /\ \A n \in 1..Len(topic[j]) : topic'[j][n] = topic[j][n]
    <3>1. CASE j = k
      <4>1. topic'[j] = Append(topic[k], e) /\ Len(topic[k]) \in Nat
        BY <2>2, <3>1
      <4> QED BY <2>1, <3>1, <4>1
    <3>2. CASE j # k
      BY <2>2, <3>2
    <3> QED BY <3>1, <3>2
  <2> QED BY <2>3, <2>4 DEF Grows
<1> QED BY <1>1, <1>3, <1>4, OthersKeepFeed

LEMMA FeedStepInv == ASSUME FeedInv, FeedNext PROVE FeedInv'
<1>1. ASSUME NEW c \in Consumers, LoopStep(c) PROVE FeedInv'
  BY <1>1, JoinInv, PollInv, DealInv, CommitInv, EndsInv DEF LoopStep
<1>2. ASSUME NEW c \in Consumers, FaultStep(c) PROVE FeedInv'
  BY <1>2, DealInv, EndsInv DEF FaultStep
<1>3. ASSUME GroupStep PROVE FeedInv'
  BY <1>3, RebalanceInv DEF GroupStep
<1> QED BY <1>1, <1>2, <1>3 DEF FeedNext

LEMMA FeedInductive == FeedInv /\ [Next]_vars => FeedInv'
<1> SUFFICES ASSUME FeedInv, [Next]_vars PROVE FeedInv'
  OBVIOUS
<1>1. CASE UNCHANGED vars
  <2>1. UNCHANGED <<topic, groupVars, loopVars, graphVars, faults>>
    BY <1>1 DEF vars
  <2>2. TypeOK' /\ Grows
    BY <2>1 DEF FeedInv, TypeOK, Grows, groupVars, loopVars, graphVars
  <2> QED BY <2>1, <2>2, OthersKeepFeed
<1> QED BY <1>1, FeedStepInv, ProduceInv DEF Next

THEOREM Invariance == Spec => []FeedInv
  BY FeedInitially, FeedInductive, PTL DEF Spec

\* Every variable keeps its type; that the graph holds only review.created events
\* is the check of event_type.
THEOREM TypeSafety == Spec => []TypeOK
<1>1. FeedInv => TypeOK
  BY DEF FeedInv
<1> QED BY <1>1, Invariance, PTL

\* No offset is committed before the events below it are in the graph, whatever is
\* expelled, killed or refused (consume_reviews).
THEOREM OffsetsAreApplied == Spec => []CommittedIsApplied
<1>1. FeedInv => CommittedIsApplied
  <2> SUFFICES ASSUME FeedInv, NEW k \in Partitions, NEW n \in 1..committed[k],
                      topic[k][n] \in CreatedEvents
               PROVE  topic[k][n] \in graph \cup dropped
    BY DEF CommittedIsApplied
  <2>1. committed[k] # NoOffset
    BY DEF NoOffset
  <2>2. committed[k] \in AppliedUpTo(k)
    BY <2>1 DEF FeedInv
  <2> QED BY <2>2 DEF AppliedUpTo
<1> QED BY <1>1, Invariance, PTL

\* A commit never moves an offset back, not even one of an expelled consumer.
THEOREM OffsetsOnlyAdvance == Spec => OffsetsNeverGoBack
<1>1. FeedInv /\ [Next]_vars => [\A k \in Partitions : committed'[k] >= committed[k]]_vars
  <2> SUFFICES ASSUME FeedInv, Next, NEW k \in Partitions PROVE committed'[k] >= committed[k]
    OBVIOUS
  <2>1. committed[k] \in Int
    BY DEF FeedInv, TypeOK, NoOffset
  <2>2. ASSUME NEW c \in Consumers, CommitOffsets(c) PROVE committed'[k] >= committed[k]
    <3>1. /\ c \in members
          /\ committed'[k] = IF k \in assigned[c] THEN position[c][k] ELSE committed[k]
      BY <2>2 DEF CommitOffsets
    <3>2. k \in assigned[c] => position[c][k] >= committed[k]
      BY <3>1 DEF FeedInv, Ahead
    <3> QED BY <2>1, <3>1, <3>2
  <2>3. (~\E c \in Consumers : CommitOffsets(c)) => committed' = committed
    BY DEF Next, FeedNext, LoopStep, FaultStep, GroupStep, Join, Rejoin, Poll, Save, Skip,
           SaveFailsSilently, SaveFails, CommitRefused, Crash, Exit, Rebalance, Produce, groupVars
  <2> QED BY <2>1, <2>2, <2>3
<1> QED BY <1>1, Invariance, PTL DEF Spec, OffsetsNeverGoBack

----------------------------------------------------------------------------
(* Every write has its message or its fault.  A message is covered when    *)
(* its write is committed, or was made by a member that has still to       *)
(* commit it; an expelled consumer that does not know it yet may write one *)
(* message more, for which the fault of its expulsion has paid.            *)

Last(c) == <<current[c], position[c][current[c]]>>

Covered ==
    {m \in RelevantMessages :
        m[2] <= committed[m[1]] \/ \E c \in members : state[c] = "saved" /\ m = Last(c)}

Zombies == {c \in Consumers \ members : state[c] \in {"polling", "processing"}}

\* A member works on a message of its own that is not committed yet.
Owned(c) ==
    c \in members /\ state[c] \in {"processing", "saved"} =>
        current[c] \in assigned[c] /\ position[c][current[c]] > committed[current[c]]

CountInv ==
    /\ FeedInv
    /\ IsFiniteSet(RelevantMessages)
    /\ \A c \in Consumers : Owned(c)
    /\ writes + Cardinality(Zombies) <= Cardinality(Covered) + faults

LEMMA MessageFacts ==
    ASSUME NEW m
    PROVE  m \in RelevantMessages <=>
               \E k \in Partitions : \E n \in 1..Len(topic[k]) :
                   m = <<k, n>> /\ topic[k][n] \in CreatedEvents
<1> DEFINE Of(k) == {<<k, n>> : n \in {x \in 1..Len(topic[k]) : topic[k][x] \in CreatedEvents}}
<1>1. m \in RelevantMessages <=> \E k \in Partitions : m \in Of(k)
  BY DEF RelevantMessages
<1> QED BY <1>1

LEMMA NextMessageFacts ==
    ASSUME NEW m
    PROVE  m \in RelevantMessages' <=>
               \E k \in Partitions : \E n \in 1..Len(topic'[k]) :
                   m = <<k, n>> /\ topic'[k][n] \in CreatedEvents
<1> DEFINE Of(k) == {<<k, n>> : n \in {x \in 1..Len(topic'[k]) : topic'[k][x] \in CreatedEvents}}
<1>1. m \in RelevantMessages' <=> \E k \in Partitions : m \in Of(k)
  BY DEF RelevantMessages
<1> QED BY <1>1

LEMMA MessageParts ==
    ASSUME TypeOK, NEW m \in RelevantMessages PROVE m[1] \in Partitions /\ m[2] \in Nat
<1>1. PICK k \in Partitions : \E n \in 1..Len(topic[k]) : m = <<k, n>>
  BY MessageFacts
<1>2. PICK n \in 1..Len(topic[k]) : m = <<k, n>>
  BY <1>1
<1> QED BY <1>2

LEMMA ZombiesFinite == IsFiniteSet(Zombies) /\ Cardinality(Zombies) \in Nat
<1>1. Zombies \subseteq Consumers
  BY DEF Zombies
<1> QED BY <1>1, ConsumersAssumption, FS_Subset, FS_CardinalityType

LEMMA CoveredFinite ==
    ASSUME IsFiniteSet(RelevantMessages)
    PROVE  /\ IsFiniteSet(Covered) /\ Cardinality(Covered) \in Nat
           /\ Cardinality(RelevantMessages) \in Nat
           /\ Cardinality(Covered) <= Cardinality(RelevantMessages)
<1>1. Covered \subseteq RelevantMessages
  BY DEF Covered
<1> QED BY <1>1, FS_Subset, FS_CardinalityType

\* One element more, and one element less.
LEMMA OneMore ==
    ASSUME NEW S, NEW T, NEW x, IsFiniteSet(S), IsFiniteSet(T), S \subseteq T, x \in T \ S
    PROVE  Cardinality(S) + 1 <= Cardinality(T)
<1>1. IsFiniteSet(S \cup {x}) /\ Cardinality(S \cup {x}) = Cardinality(S) + 1
  BY FS_AddElement
<1>2. S \cup {x} \subseteq T
  OBVIOUS
<1> QED BY <1>1, <1>2, FS_Subset

LEMMA CardinalityOfUnion ==
    ASSUME NEW S, NEW T, NEW U, IsFiniteSet(T), IsFiniteSet(U), S \subseteq T \cup U
    PROVE  Cardinality(S) <= Cardinality(T) + Cardinality(U)
<1>1. IsFiniteSet(T \cup U) /\ IsFiniteSet(T \cap U)
      /\ Cardinality(T \cup U) = Cardinality(T) + Cardinality(U) - Cardinality(T \cap U)
  BY FS_Union, FS_Subset
<1>2. IsFiniteSet(S) /\ Cardinality(S) <= Cardinality(T \cup U)
  BY <1>1, FS_Subset
<1>3. /\ Cardinality(S) \in Nat /\ Cardinality(T) \in Nat /\ Cardinality(U) \in Nat
      /\ Cardinality(T \cap U) \in Nat
  BY <1>1, <1>2, FS_CardinalityType
<1> QED BY <1>1, <1>2, <1>3

LEMMA OneLess ==
    ASSUME NEW S, NEW T, NEW x, IsFiniteSet(T), S \subseteq T \cup {x}
    PROVE  Cardinality(S) <= Cardinality(T) + 1
BY CardinalityOfUnion, FS_Singleton

\* The four figures of CountInv after a step; it balances if their changes do.
Figures(w, z, m, f) ==
    w = writes' /\ z = Cardinality(Zombies') /\ m = Cardinality(Covered') /\ f = faults'

LEMMA Books ==
    ASSUME FeedInv', IsFiniteSet(RelevantMessages)'
    PROVE  /\ IsFiniteSet(Zombies') /\ IsFiniteSet(Covered')
           /\ \E w, z, m, f \in Nat : Figures(w, z, m, f)
<1>1. IsFiniteSet(Zombies')
  BY ConsumersAssumption, FS_Subset DEF Zombies
<1>2. IsFiniteSet(Covered')
  BY FS_Subset DEF Covered
<1>3. writes' \in Nat /\ faults' \in Nat
  BY DEF FeedInv, TypeOK
<1> QED BY <1>1, <1>2, <1>3, FS_CardinalityType DEF Figures

LEMMA Balance ==
    ASSUME CountInv, FeedInv', IsFiniteSet(RelevantMessages)', \A c \in Consumers : Owned(c)',
           NEW w \in Nat, NEW z \in Nat, NEW m \in Nat, NEW f \in Nat, Figures(w, z, m, f),
           w - writes + z - Cardinality(Zombies) <= m - Cardinality(Covered) + f - faults
    PROVE  CountInv'
<1>1. w + z <= m + f
  <2> DEFINE a == Cardinality(Zombies)
             b == Cardinality(Covered)
  <2>1. a \in Nat /\ b \in Nat /\ writes \in Nat /\ faults \in Nat /\ writes + a <= b + faults
    BY ZombiesFinite, CoveredFinite DEF CountInv, FeedInv, TypeOK
  <2> HIDE DEF a, b
  <2>2. w - writes + z - a <= m - b + f - faults
    BY DEF a, b
  <2> QED BY <2>1, <2>2
<1>2. writes' + Cardinality(Zombies') <= Cardinality(Covered') + faults'
  BY <1>1 DEF Figures
<1> QED BY <1>2 DEF CountInv

\* A step that writes nothing, uncovers nothing and makes no zombie.
LEMMA QuietStep ==
    ASSUME CountInv, FeedInv', IsFiniteSet(RelevantMessages)', \A c \in Consumers : Owned(c)',
           Zombies' \subseteq Zombies, Covered \subseteq Covered',
           writes' = writes, faults' >= faults
    PROVE  CountInv'
<1>1. PICK w \in Nat, z \in Nat, m \in Nat, f \in Nat : Figures(w, z, m, f)
  BY Books
<1>2. w = writes /\ f >= faults
  BY <1>1 DEF Figures
<1>3. z <= Cardinality(Zombies) /\ Cardinality(Zombies) \in Nat
  BY <1>1, ZombiesFinite, FS_Subset DEF Figures
<1>4. Cardinality(Covered) <= m /\ Cardinality(Covered) \in Nat
  BY <1>1, Books, CoveredFinite, FS_Subset DEF Figures, CountInv
<1>5. writes \in Nat /\ faults \in Nat
  BY DEF CountInv, FeedInv, TypeOK
<1>6. w - writes + z - Cardinality(Zombies) <= m - Cardinality(Covered) + f - faults
  BY <1>2, <1>3, <1>4, <1>5
<1> QED BY <1>1, <1>6, Balance

\* A step of one consumer that commits nothing.
OneMoves(c) ==
    /\ UNCHANGED <<topic, committed>>
    /\ members' = members \/ members' = members \ {c}
    /\ \A d \in Consumers \ {c} : Untouched(d) /\ assigned'[d] = assigned[d]

LEMMA OneFrame ==
    ASSUME CountInv, NEW c \in Consumers, OneMoves(c), Owned(c)'
    PROVE  /\ RelevantMessages' = RelevantMessages /\ IsFiniteSet(RelevantMessages)'
           /\ \A d \in Consumers : Owned(d)'
           /\ Zombies' \subseteq Zombies \cup {c}
           /\ Covered \subseteq Covered' \cup {Last(c)}
           /\ ~(c \in members /\ state[c] = "saved") => Covered \subseteq Covered'
<1>1. RelevantMessages' = RelevantMessages
  BY DEF RelevantMessages, OneMoves
<1>2. IsFiniteSet(RelevantMessages)'
  BY <1>1 DEF CountInv
<1>3. ASSUME NEW d \in Consumers, d # c PROVE Owned(d)'
  BY <1>3 DEF Owned, OneMoves, Untouched, CountInv
<1>4. Zombies' \subseteq Zombies \cup {c}
  BY DEF Zombies, OneMoves, Untouched
<1>5. members \subseteq Consumers
  BY DEF CountInv, FeedInv, TypeOK
<1>6. ASSUME NEW m \in Covered, m = Last(c) => ~(c \in members /\ state[c] = "saved")
      PROVE  m \in Covered'
  <2>1. m \in RelevantMessages'
    BY <1>1 DEF Covered
  <2>2. CASE m[2] <= committed[m[1]]
    BY <2>1, <2>2 DEF Covered, OneMoves
  <2>3. ASSUME NEW d \in members, state[d] = "saved", m = Last(d) PROVE m \in Covered'
    <3>1. d # c
      BY <1>6, <2>3
    <3>2. d \in members' /\ state'[d] = "saved" /\ Last(d)' = Last(d)
      BY <1>5, <2>3, <3>1 DEF OneMoves, Untouched, Last
    <3> QED BY <2>1, <2>3, <3>2 DEF Covered
  <2> QED BY <2>2, <2>3 DEF Covered
<1> QED BY <1>1, <1>2, <1>3, <1>4, <1>6

LEMMA QuietCount ==
    ASSUME CountInv, NEW c \in Consumers,
           Join(c) \/ Rejoin(c) \/ Skip(c) \/ SaveFailsSilently(c) \/ CommitRefused(c)
             \/ \E k \in Partitions : Poll(c, k)
    PROVE  CountInv'
<1>1. FeedInv'
  BY JoinInv, PollInv, DealInv, EndsInv DEF CountInv
<1>2. OneMoves(c)
  BY DEF OneMoves, Untouched, Join, Rejoin, Skip, SaveFailsSilently, CommitRefused, Exit, Poll,
         groupVars, CountInv, FeedInv, TypeOK
<1>3. Owned(c)'
  <2>1. ASSUME NEW k \in Partitions, Poll(c, k) PROVE Owned(c)'
    <3>1. /\ k \in assigned[c] /\ current'[c] = k /\ position'[c][k] = position[c][k] + 1
          /\ UNCHANGED <<committed, members, assigned>>
          /\ position[c][k] \in Nat /\ committed[k] \in Int
      BY <2>1 DEF Poll, groupVars, CountInv, FeedInv, TypeOK, NoOffset
    <3>2. c \in members => position[c][k] >= committed[k]
      BY <3>1 DEF CountInv, FeedInv, Ahead
    <3> QED BY <3>1, <3>2 DEF Owned
  <2>2. CASE Skip(c) \/ SaveFailsSilently(c)
    BY <2>2 DEF Skip, SaveFailsSilently, groupVars, Owned, CountInv
  <2>3. CASE Join(c) \/ Rejoin(c)
    <3>1. state'[c] = "joining"
      BY <2>3 DEF Join, Rejoin, CountInv, FeedInv, TypeOK
    <3> QED BY <3>1 DEF Owned
  <2>4. CASE CommitRefused(c)
    BY <2>4 DEF CommitRefused, Exit, Owned
  <2> QED BY <2>1, <2>2, <2>3, <2>4
<1>4. c \in Zombies' => c \in Zombies
  BY DEF Zombies, Join, Rejoin, Skip, SaveFailsSilently, CommitRefused, Exit, Poll,
         groupVars, CountInv, FeedInv, TypeOK
<1>5. ~(c \in members /\ state[c] = "saved")
  BY DEF Join, Rejoin, Skip, SaveFailsSilently, CommitRefused, Poll
<1>6. writes' = writes /\ faults' >= faults
  BY DEF Join, Rejoin, Skip, SaveFailsSilently, CommitRefused, Poll, Fault, graphVars,
         CountInv, FeedInv, TypeOK
<1> QED BY <1>1, <1>2, <1>3, <1>4, <1>5, <1>6, OneFrame, QuietStep

\* The message of a consumer that is about to write it is a message to write.
LEMMA LastIsRelevant ==
    ASSUME FeedInv, NEW c \in Consumers, state[c] = "processing", Message(c) \in CreatedEvents
    PROVE  Last(c) \in RelevantMessages
<1> DEFINE k == current[c]
           n == position[c][current[c]]
<1>1. k \in Partitions
  BY DEF FeedInv, Course
<1>2. n - 1 \in AppliedUpTo(k) /\ n <= Len(topic[k]) /\ n \in Nat /\ Len(topic[k]) \in Nat
  BY <1>1 DEF FeedInv, Course, Working, TypeOK
<1>3. n \in 1..Len(topic[k])
  BY <1>2 DEF AppliedUpTo
<1> QED BY <1>1, <1>3, MessageFacts DEF Last, Message

\* ... and one that no member has written yet, if the consumer is a member.
LEMMA LastIsNew ==
    ASSUME CountInv, NEW c \in members, state[c] = "processing" PROVE Last(c) \notin Covered
<1> SUFFICES ASSUME Last(c) \in Covered PROVE FALSE
  OBVIOUS
<1>1. members \subseteq Consumers /\ current[c] \in Partitions
  BY DEF CountInv, FeedInv, TypeOK, Course
<1>2. current[c] \in assigned[c] /\ position[c][current[c]] > committed[current[c]]
  BY <1>1 DEF CountInv, Owned
<1>3. position[c][current[c]] \in Nat /\ committed[current[c]] \in Int
  BY <1>1 DEF CountInv, FeedInv, TypeOK, NoOffset
<1>4. PICK d \in members : state[d] = "saved" /\ Last(c) = Last(d)
  BY <1>2, <1>3 DEF Covered, Last
<1>5. current[d] = current[c] /\ current[d] \in assigned[d]
  BY <1>1, <1>4 DEF Last, CountInv, Owned
<1>6. d = c
  BY <1>1, <1>2, <1>5 DEF CountInv, FeedInv, Ahead
<1> QED BY <1>4, <1>6

LEMMA SaveCount == ASSUME CountInv, NEW c \in Consumers, Save(c) PROVE CountInv'
<1>1. FeedInv'
  BY DealInv DEF CountInv
<1>2. /\ OneMoves(c) /\ Owned(c)' /\ state[c] = "processing" /\ Message(c) \in CreatedEvents
      /\ state'[c] = "saved" /\ UNCHANGED <<members, position, current>>
  BY DEF OneMoves, Untouched, Owned, Save, groupVars, CountInv, FeedInv, TypeOK
<1>3. /\ RelevantMessages' = RelevantMessages /\ IsFiniteSet(RelevantMessages)'
      /\ \A d \in Consumers : Owned(d)'
      /\ Zombies' \subseteq Zombies \cup {c} /\ Covered \subseteq Covered'
  BY <1>2, OneFrame
<1>4. PICK w \in Nat, z \in Nat, m \in Nat, f \in Nat : Figures(w, z, m, f)
  BY <1>1, <1>3, Books
<1>5. w = writes + 1 /\ f = faults /\ writes \in Nat /\ faults \in Nat
  BY <1>4 DEF Figures, Save, CountInv, FeedInv, TypeOK
<1>6. /\ IsFiniteSet(Zombies) /\ IsFiniteSet(Zombies') /\ IsFiniteSet(Covered) /\ IsFiniteSet(Covered')
      /\ Cardinality(Zombies) \in Nat /\ Cardinality(Covered) \in Nat
  BY <1>1, <1>3, Books, ZombiesFinite, CoveredFinite DEF CountInv
<1>7. c \notin Zombies' /\ Zombies' \subseteq Zombies
  BY <1>2, <1>3 DEF Zombies
<1>8. CASE c \in members
  <2>1. Last(c) \in Covered' \ Covered
    <3>1. Last(c) \in RelevantMessages /\ Last(c)' = Last(c) /\ Last(c) \notin Covered
      BY <1>2, <1>8, LastIsRelevant, LastIsNew DEF CountInv, Last
    <3> QED BY <1>2, <1>3, <1>8, <3>1 DEF Covered
  <2>2. Cardinality(Covered) + 1 <= m
    BY <1>3, <1>4, <1>6, <2>1, OneMore DEF Figures
  <2>3. z <= Cardinality(Zombies)
    BY <1>4, <1>6, <1>7, FS_Subset DEF Figures
  <2>4. w - writes + z - Cardinality(Zombies) <= m - Cardinality(Covered) + f - faults
    BY <1>5, <1>6, <2>2, <2>3
  <2> QED BY <1>1, <1>3, <1>4, <2>4, Balance
<1>9. CASE c \notin members
  <2>1. c \in Zombies \ Zombies'
    BY <1>2, <1>7, <1>9 DEF Zombies
  <2>2. z + 1 <= Cardinality(Zombies)
    BY <1>4, <1>6, <1>7, <2>1, OneMore DEF Figures
  <2>3. Cardinality(Covered) <= m
    BY <1>3, <1>4, <1>6, FS_Subset DEF Figures
  <2>4. w - writes + z - Cardinality(Zombies) <= m - Cardinality(Covered) + f - faults
    BY <1>5, <1>6, <2>2, <2>3
  <2> QED BY <1>1, <1>3, <1>4, <2>4, Balance
<1> QED BY <1>8, <1>9

\* A process that ends by a fault uncovers one message, or has written one.
LEMMA EndCount == ASSUME CountInv, NEW c \in Consumers, SaveFails(c) \/ Crash(c) PROVE CountInv'
<1>1. FeedInv'
  BY EndsInv DEF CountInv
<1>2. Exit(c) /\ faults' = faults + 1
  BY DEF SaveFails, Crash, Fault
<1>3. OneMoves(c) /\ c \notin members' /\ state'[c] = "down"
  BY <1>2 DEF OneMoves, Untouched, Exit, CountInv, FeedInv, TypeOK
<1>4. /\ RelevantMessages' = RelevantMessages /\ IsFiniteSet(RelevantMessages)'
      /\ \A d \in Consumers : Owned(d)'
      /\ Zombies' \subseteq Zombies \cup {c} /\ Covered \subseteq Covered' \cup {Last(c)}
      /\ ~(c \in members /\ state[c] = "saved") => Covered \subseteq Covered'
  BY <1>3, OneFrame DEF Owned
<1>5. PICK w \in Nat, z \in Nat, m \in Nat, f \in Nat : Figures(w, z, m, f)
  BY <1>1, <1>4, Books
<1>6. /\ IsFiniteSet(Zombies) /\ IsFiniteSet(Zombies') /\ IsFiniteSet(Covered) /\ IsFiniteSet(Covered')
      /\ Cardinality(Zombies) \in Nat /\ Cardinality(Covered) \in Nat
  BY <1>1, <1>4, Books, ZombiesFinite, CoveredFinite DEF CountInv
<1>7. z <= Cardinality(Zombies)
  <2>1. Zombies' \subseteq Zombies
    BY <1>3, <1>4 DEF Zombies
  <2> QED BY <1>5, <1>6, <2>1, FS_Subset DEF Figures
<1>8. f = faults + 1 /\ writes \in Nat /\ faults \in Nat
  BY <1>2, <1>5 DEF Figures, CountInv, FeedInv, TypeOK
<1>9. CASE SaveFails(c)
  <2>1. Covered \subseteq Covered'
    BY <1>4, <1>9 DEF SaveFails
  <2>2. Cardinality(Covered) <= m
    BY <1>5, <1>6, <2>1, FS_Subset DEF Figures
  <2>3. w = writes \/ w = writes + 1
    BY <1>5, <1>9 DEF Figures, SaveFails
  <2>4. w - writes + z - Cardinality(Zombies) <= m - Cardinality(Covered) + f - faults
    BY <1>6, <1>7, <1>8, <2>2, <2>3
  <2> QED BY <1>1, <1>4, <1>5, <2>4, Balance
<1>10. CASE Crash(c)
  <2>1. Cardinality(Covered) <= m + 1
    BY <1>4, <1>5, <1>6, OneLess DEF Figures
  <2>2. w = writes
    BY <1>5, <1>10 DEF Figures, Crash, graphVars
  <2>3. w - writes + z - Cardinality(Zombies) <= m - Cardinality(Covered) + f - faults
    BY <1>6, <1>7, <1>8, <2>1, <2>2
  <2> QED BY <1>1, <1>4, <1>5, <2>3, Balance
<1> QED BY <1>9, <1>10

\* A commit settles the messages of the partitions it commits, and those of the
\* other members stay as they are.
LEMMA CommitCount == ASSUME CountInv, NEW c \in Consumers, CommitOffsets(c) PROVE CountInv'
<1>1. FeedInv'
  BY CommitInv DEF CountInv
<1>2. /\ UNCHANGED <<topic, members, assigned, position, writes, faults>>
      /\ state[c] = "saved" /\ c \in members /\ state'[c] = "polling"
      /\ \A k \in Partitions : committed'[k] = IF k \in assigned[c] THEN position[c][k] ELSE committed[k]
      /\ \A d \in Consumers \ {c} : state'[d] = state[d] /\ current'[d] = current[d]
      /\ members \subseteq Consumers /\ \A d \in Consumers : assigned[d] \subseteq Partitions
  BY DEF CommitOffsets, graphVars, CountInv, FeedInv, TypeOK
<1>3. RelevantMessages' = RelevantMessages /\ IsFiniteSet(RelevantMessages)'
  BY <1>2 DEF RelevantMessages, CountInv
<1>4. ASSUME NEW d \in Consumers PROVE Owned(d)'
  <2> SUFFICES ASSUME d \in members, state'[d] \in {"processing", "saved"}
               PROVE  current'[d] \in assigned[d] /\ position[d][current'[d]] > committed'[current'[d]]
    BY <1>2 DEF Owned
  <2>1. d # c
    BY <1>2
  <2>2. /\ current'[d] = current[d] /\ current[d] \in assigned[d]
        /\ position[d][current[d]] > committed[current[d]]
    BY <1>2, <2>1 DEF CountInv, Owned
  <2>3. current[d] \notin assigned[c] /\ current[d] \in Partitions
    BY <1>2, <2>1, <2>2 DEF CountInv, FeedInv, Ahead
  <2> QED BY <1>2, <2>2, <2>3
<1>5. Zombies' \subseteq Zombies
  BY <1>2 DEF Zombies
<1>6. ASSUME NEW m \in Covered PROVE m \in Covered'
  <2>1. m \in RelevantMessages' /\ m[1] \in Partitions /\ m[2] \in Nat
    BY <1>3, MessageParts DEF Covered, CountInv, FeedInv
  <2>2. CASE m[2] <= committed[m[1]]
    <3>1. committed'[m[1]] >= committed[m[1]] /\ committed'[m[1]] \in Int /\ committed[m[1]] \in Int
      BY <1>1, <1>2, <2>1 DEF CountInv, FeedInv, Ahead, TypeOK, NoOffset
    <3>2. m[2] <= committed'[m[1]]
      BY <2>1, <2>2, <3>1
    <3> QED BY <2>1, <3>2 DEF Covered
  <2>3. CASE m = Last(c)
    <3>1. m[1] \in assigned[c] /\ m[2] = position[c][m[1]]
      BY <1>2, <2>3 DEF Last, CountInv, Owned
    <3>2. m[2] <= committed'[m[1]]
      BY <1>2, <2>1, <3>1
    <3> QED BY <2>1, <3>2 DEF Covered
  <2>4. ASSUME NEW d \in members, d # c, state[d] = "saved", m = Last(d) PROVE m \in Covered'
    <3>1. state'[d] = "saved" /\ Last(d)' = Last(d) /\ d \in members'
      BY <1>2, <2>4 DEF Last
    <3> QED BY <2>1, <2>4, <3>1 DEF Covered
  <2> QED BY <2>2, <2>3, <2>4 DEF Covered
<1>7. writes' = writes /\ faults' >= faults
  BY <1>2 DEF CountInv, FeedInv, TypeOK
<1> QED BY <1>1, <1>3, <1>4, <1>5, <1>6, <1>7, QuietStep

\* A rebalance pays for each member it expels: that member may write once more, if
\* it has not written, and its write is no longer sure of a commit, if it has.
LEMMA RebalanceCount ==
    ASSUME CountInv, NEW expelled \in SUBSET Consumers, Rebalance(expelled) PROVE CountInv'
<1> DEFINE late == {c \in expelled : state[c] = "saved"}
           early == {c \in expelled : state[c] # "saved"}
           lost == {Last(c) : c \in late}
<1>1. FeedInv'
  BY RebalanceInv DEF CountInv
<1>2. /\ UNCHANGED <<topic, committed, current, writes>>
      /\ faults' = faults + Cardinality(expelled)
      /\ members' \subseteq Consumers /\ members \ expelled \subseteq members'
      /\ \A c \in members' : state'[c] = "polling" /\ state[c] \in {"joining", "polling"}
      /\ \A c \in Consumers \ members' : state'[c] = state[c]
      /\ members \subseteq Consumers
  BY DEF Rebalance, graphVars, CountInv, FeedInv, TypeOK
<1>3. RelevantMessages' = RelevantMessages /\ IsFiniteSet(RelevantMessages)'
  BY <1>2 DEF RelevantMessages, CountInv
<1>4. \A c \in Consumers : Owned(c)'
  BY <1>2 DEF Owned
<1>5. Zombies' \subseteq Zombies \cup early
  BY <1>2 DEF Zombies
<1>6. ASSUME NEW m \in Covered PROVE m \in Covered' \cup lost
  <2>1. m \in RelevantMessages'
    BY <1>3 DEF Covered
  <2>2. CASE m[2] <= committed[m[1]]
    BY <1>2, <2>1, <2>2 DEF Covered
  <2>3. ASSUME NEW c \in members, state[c] = "saved", m = Last(c) PROVE m \in lost
    <3>1. c \in expelled
      BY <1>2, <2>3
    <3> QED BY <2>3, <3>1
  <2> QED BY <2>2, <2>3 DEF Covered
<1>7. PICK w \in Nat, z \in Nat, m \in Nat, f \in Nat : Figures(w, z, m, f)
  BY <1>1, <1>3, Books
<1>8. /\ IsFiniteSet(Zombies) /\ IsFiniteSet(Zombies') /\ IsFiniteSet(Covered) /\ IsFiniteSet(Covered')
      /\ Cardinality(Zombies) \in Nat /\ Cardinality(Covered) \in Nat
  BY <1>1, <1>3, Books, ZombiesFinite, CoveredFinite DEF CountInv
<1>9. /\ IsFiniteSet(late) /\ IsFiniteSet(early) /\ IsFiniteSet(expelled)
      /\ Cardinality(late) \in Nat /\ Cardinality(early) \in Nat
      /\ Cardinality(late) + Cardinality(early) = Cardinality(expelled)
  <2>1. late \cup early = expelled /\ late \cap early = {}
    OBVIOUS
  <2>2. IsFiniteSet(expelled) /\ IsFiniteSet(late) /\ IsFiniteSet(early)
    BY ConsumersAssumption, FS_Subset
  <2> HIDE DEF late, early
  <2>3. Cardinality(late \cup early)
          = Cardinality(late) + Cardinality(early) - Cardinality(late \cap early)
    BY <2>2, FS_Union
  <2>4. Cardinality(late \cap early) = 0
    BY <2>1, FS_EmptySet
  <2>5. Cardinality(late) \in Nat /\ Cardinality(early) \in Nat
    BY <2>2, FS_CardinalityType
  <2>6. Cardinality(expelled) = Cardinality(late) + Cardinality(early) - Cardinality(late \cap early)
    BY <2>1, <2>3
  <2>7. Cardinality(late) + Cardinality(early) = Cardinality(expelled)
    BY <2>4, <2>5, <2>6
  <2> QED BY <2>2, <2>5, <2>7
<1>10. IsFiniteSet(lost) /\ Cardinality(lost) <= Cardinality(late) /\ Cardinality(lost) \in Nat
  <2> DEFINE last == [c \in late |-> Last(c)]
  <2>1. last \in Surjection(late, lost)
    BY DEF Surjection
  <2> HIDE DEF last, late, lost
  <2> QED BY <1>9, <2>1, FS_Surjection, FS_CardinalityType
<1> HIDE DEF late, early, lost
<1>11. z <= Cardinality(Zombies) + Cardinality(early)
  BY <1>5, <1>7, <1>8, <1>9, CardinalityOfUnion DEF Figures
<1>12. Cardinality(Covered) <= m + Cardinality(late)
  <2>1. Cardinality(Covered) <= m + Cardinality(lost)
    BY <1>6, <1>7, <1>8, <1>10, CardinalityOfUnion DEF Figures
  <2> QED BY <1>8, <1>9, <1>10, <2>1
<1>13. w = writes /\ f = faults + Cardinality(expelled) /\ writes \in Nat /\ faults \in Nat
  BY <1>2, <1>7 DEF Figures, CountInv, FeedInv, TypeOK
<1>14. w - writes + z - Cardinality(Zombies) <= m - Cardinality(Covered) + f - faults
  BY <1>8, <1>9, <1>11, <1>12, <1>13
<1> QED BY <1>1, <1>3, <1>4, <1>7, <1>14, Balance
LEMMA ProduceCount ==
    ASSUME CountInv, NEW k \in Partitions, NEW e \in Events, Produce(k, e) PROVE CountInv'
<1>1. FeedInv'
  BY ProduceInv DEF CountInv
<1>2. /\ topic' = [topic EXCEPT ![k] = Append(topic[k], e)]
      /\ UNCHANGED <<committed, members, state, assigned, position, current, writes, faults>>
      /\ topic[k] \in Seq(Events)
  BY DEF Produce, groupVars, loopVars, graphVars, CountInv, FeedInv, TypeOK
<1>3. /\ Len(Append(topic[k], e)) = Len(topic[k]) + 1 /\ Len(topic[k]) \in Nat
      /\ \A n \in 1..Len(topic[k]) : Append(topic[k], e)[n] = topic[k][n]
  BY <1>2
<1>4. ASSUME NEW j \in Partitions
      PROVE  /\ Len(topic[j]) \in Nat /\ Len(topic'[j]) \in Nat
             /\ Len(topic'[j]) = IF j = k THEN Len(topic[j]) + 1 ELSE Len(topic[j])
             /\ \A n \in 1..Len(topic[j]) : n \in 1..Len(topic'[j]) /\ topic'[j][n] = topic[j][n]
  <2>1. CASE j = k
    <3>1. topic'[j] = Append(topic[k], e)
      BY <1>2, <2>1 DEF CountInv, FeedInv, TypeOK
    <3> QED BY <1>3, <2>1, <3>1
  <2>2. CASE j # k
    <3>1. topic'[j] = topic[j] /\ Len(topic[j]) \in Nat
      BY <1>2, <2>2 DEF CountInv, FeedInv, TypeOK
    <3> QED BY <2>2, <3>1
  <2> QED BY <2>1, <2>2
<1>5. RelevantMessages \subseteq RelevantMessages'
  <2> SUFFICES ASSUME NEW m \in RelevantMessages PROVE m \in RelevantMessages'
    OBVIOUS
  <2>1. PICK j \in Partitions : \E n \in 1..Len(topic[j]) : m = <<j, n>> /\ topic[j][n] \in CreatedEvents
    BY MessageFacts
  <2>2. PICK n \in 1..Len(topic[j]) : m = <<j, n>> /\ topic[j][n] \in CreatedEvents
    BY <2>1
  <2>3. n \in 1..Len(topic'[j]) /\ topic'[j][n] = topic[j][n]
    BY <1>4, <2>2
  <2> QED BY <2>2, <2>3, NextMessageFacts
<1>6. RelevantMessages' \subseteq RelevantMessages \cup {<<k, Len(topic[k]) + 1>>}
  <2> SUFFICES ASSUME NEW m \in RelevantMessages'
               PROVE  m \in RelevantMessages \cup {<<k, Len(topic[k]) + 1>>}
    OBVIOUS
  <2>1. PICK j \in Partitions : \E n \in 1..Len(topic'[j]) : m = <<j, n>> /\ topic'[j][n] \in CreatedEvents
    BY NextMessageFacts
  <2>2. PICK n \in 1..Len(topic'[j]) : m = <<j, n>> /\ topic'[j][n] \in CreatedEvents
    BY <2>1
  <2>3. CASE n \in 1..Len(topic[j])
    BY <1>3, <1>4, <2>2, <2>3, MessageFacts
  <2>4. CASE n \notin 1..Len(topic[j])
    BY <1>3, <1>4, <2>2, <2>4
  <2> QED BY <2>3, <2>4
<1>7. IsFiniteSet(RelevantMessages)'
  <2>1. IsFiniteSet(RelevantMessages \cup {<<k, Len(topic[k]) + 1>>})
    BY FS_AddElement DEF CountInv
  <2> QED BY <1>6, <2>1, FS_Subset
<1>8. \A c \in Consumers : Owned(c)'
  BY <1>2 DEF Owned, CountInv
<1>9. Zombies' = Zombies /\ Covered \subseteq Covered'
  BY <1>2, <1>5 DEF Zombies, Covered, Last
<1> QED BY <1>1, <1>2, <1>7, <1>8, <1>9, QuietStep DEF CountInv, FeedInv, TypeOK

LEMMA CountInitially == Init => CountInv
<1> SUFFICES ASSUME Init PROVE CountInv
  OBVIOUS
<1>1. RelevantMessages = {}
  <2> SUFFICES ASSUME NEW m \in RelevantMessages PROVE FALSE
    OBVIOUS
  <2> QED BY MessageFacts DEF Init
<1>2. Zombies = {} /\ Covered = {}
  BY <1>1 DEF Init, Zombies, Covered
<1>3. \A c \in Consumers : Owned(c)
  BY DEF Init, Owned
<1>4. writes = 0 /\ faults = 0
  BY DEF Init
<1> QED BY <1>1, <1>2, <1>3, <1>4, FeedInitially, FS_EmptySet DEF CountInv

LEMMA CountInductive == CountInv /\ [Next]_vars => CountInv'
<1> SUFFICES ASSUME CountInv, [Next]_vars PROVE CountInv'
  OBVIOUS
<1>1. CASE UNCHANGED vars
  <2>1. /\ UNCHANGED <<topic, committed, members, state, assigned, position, current>>
        /\ UNCHANGED <<writes, faults>>
    BY <1>1 DEF vars, groupVars, loopVars, graphVars
  <2>2. FeedInv'
    BY <1>1, FeedInductive DEF CountInv
  <2>3. UNCHANGED <<RelevantMessages, Zombies, Covered>> /\ \A c \in Consumers : Owned(c)'
    BY <2>1 DEF RelevantMessages, Zombies, Covered, Last, Owned, CountInv
  <2> QED BY <2>1, <2>2, <2>3 DEF CountInv
<1>2. ASSUME NEW c \in Consumers, LoopStep(c) \/ FaultStep(c) PROVE CountInv'
  BY <1>2, QuietCount, SaveCount, EndCount, CommitCount DEF LoopStep, FaultStep
<1>3. ASSUME GroupStep PROVE CountInv'
  BY <1>3, RebalanceCount DEF GroupStep
<1> QED BY <1>1, <1>2, <1>3, ProduceCount DEF Next, FeedNext

\* Joins and orderly rebalances repeat nothing: a second write of a message costs a
\* fault, whatever the order of crashes, expulsions and refused commits.
THEOREM RewritesCostFaults == Spec => []RewritesNeedFaults
<1>1. CountInv => RewritesNeedFaults
  <2> SUFFICES ASSUME CountInv PROVE RewritesNeedFaults
    OBVIOUS
  <2>1. /\ Cardinality(Zombies) \in Nat /\ Cardinality(Covered) \in Nat
        /\ Cardinality(RelevantMessages) \in Nat
        /\ Cardinality(Covered) <= Cardinality(RelevantMessages)
    BY ZombiesFinite, CoveredFinite DEF CountInv
  <2>2. /\ writes \in Nat /\ faults \in Nat
        /\ writes + Cardinality(Zombies) <= Cardinality(Covered) + faults
    BY DEF CountInv, FeedInv, TypeOK
  <2> QED BY <2>1, <2>2 DEF RewritesNeedFaults
<1>2. Spec => []CountInv
  BY CountInitially, CountInductive, PTL DEF Spec
<1> QED BY <1>1, <1>2, PTL
=============================================================================
