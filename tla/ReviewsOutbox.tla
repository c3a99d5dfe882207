--------------------------- MODULE ReviewsOutbox ---------------------------
(***************************************************************************)
(* The transactional outbox of the reviews service and the publishers that *)
(* drain it to Kafka.                                                      *)
(*                                                                         *)
(* A request of a reviews-service instance inserts the review, then its    *)
(* outbox row, in one Postgres transaction                                 *)
(* (create_review_with_outbox).  Every outbox publisher loops: claim the   *)
(* oldest row that is pending or failed with FOR UPDATE SKIP LOCKED, send  *)
(* its payload to Kafka, wait for the acknowledgement, flush the producer, *)
(* and only then mark the row published (process_next_outbox_event,        *)
(* publish_event).  The row lock lasts until that transaction ends.        *)
(*                                                                         *)
(* Abstractions.  A review is its id; an outbox row keeps what decides its *)
(* fate (status, created_at, the review its payload names, and whether the *)
(* payload fits in one Kafka record); attempts, last_error and             *)
(* published_at are written by the code and read by nobody.  The sleeps of *)
(* run_forever only delay the next Claim.                                  *)
(***************************************************************************)
EXTENDS Integers, Sequences, FiniteSets

CONSTANTS
    Instances,      \* reviews-service processes (two in docker-compose.yml)
    Publishers,     \* outbox publisher processes (two in docker-compose.yml)
    Partitions,     \* partitions of the topic review.created
    MaxReviews,     \* bound: ids the two Postgres sequences may hand out
    MaxFaults,      \* bound: how often the environment may misbehave
    Clock,          \* values datetime.utcnow() may give an outbox row
    Sizes           \* {TRUE}: every payload fits in a record; BOOLEAN: some do not

ASSUME BoundsAssumption == MaxReviews \in Nat /\ MaxFaults \in Nat
ASSUME ClockAssumption == Clock \subseteq Nat
ASSUME SizesAssumption == Sizes \subseteq BOOLEAN

VARIABLES
    reviewSeq,      \* last value of the id sequence of table reviews
    outboxSeq,      \* last value of the id sequence of table outbox_events
    tx,             \* the open transaction of each reviews-service instance
    reviews,        \* committed rows of table reviews
    outbox,         \* table outbox_events, "absent" when no such row is committed
    pc,             \* where each publisher is in process_next_outbox_event
    hold,           \* the row each publisher has locked, or NoId
    late,           \* records whose wait timed out, still in a producer's buffer
    stray,          \* records on the wire of a producer that died
    topic,          \* the log of each partition: a sequence of review ids
    faults          \* environment faults so far

dbVars == <<reviewSeq, outboxSeq, tx, reviews>>
pubVars == <<pc, hold, late, stray>>
vars == <<dbVars, outbox, pubVars, topic, faults>>

NoId == 0
Ids == 1..MaxReviews
NoRow == [status |-> "absent", review |-> NoId, createdAt |-> 0, fits |-> TRUE]
NoTx == [stage |-> "none", review |-> NoId, id |-> NoId, row |-> NoRow]

Rows == [status : {"absent", "pending", "failed", "published"},
         review : Ids \cup {NoId}, createdAt : Clock \cup {0}, fits : BOOLEAN]
Transactions == [stage : {"none", "review", "outbox"},
                 review : Ids \cup {NoId}, id : Ids \cup {NoId}, row : Rows]

Init ==
    /\ reviewSeq = 0 /\ outboxSeq = 0
    /\ tx = [i \in Instances |-> NoTx]
    /\ reviews = {}
    /\ outbox = [r \in Ids |-> NoRow]
    /\ pc = [p \in Publishers |-> "down"]
    /\ hold = [p \in Publishers |-> NoId]
    /\ late = [p \in Publishers |-> [r \in Ids |-> 0]]
    /\ stray = [r \in Ids |-> 0]
    /\ topic = [k \in Partitions |-> << >>]
    /\ faults = 0

Fault == faults < MaxFaults /\ faults' = faults + 1

----------------------------------------------------------------------------
(* create_review_with_outbox.  Sequence values are not transactional: an   *)
(* aborted request leaves a gap, and ids need not commit in order.         *)

\* db.add(review); db.flush(): the INSERT assigns review.id.
FlushReview(i) ==
    /\ tx[i].stage = "none"
    /\ reviewSeq < MaxReviews
    /\ reviewSeq' = reviewSeq + 1
    /\ tx' = [tx EXCEPT ![i] = [stage |-> "review", review |-> reviewSeq + 1,
                                 id |-> NoId, row |-> NoRow]]
    /\ UNCHANGED <<outboxSeq, reviews, outbox, pubVars, topic, faults>>

\* Mistake: the outbox row is committed in a session of its own.
InsertOutboxInOwnSession(i) ==
    /\ tx[i].stage = "review"
    /\ outboxSeq < MaxReviews
    /\ outboxSeq' = outboxSeq + 1
    /\ \E now \in Clock, fits \in Sizes :
          LET row == [status |-> "pending", review |-> tx[i].review,
                      createdAt |-> now, fits |-> fits]
          IN  /\ outbox' = [outbox EXCEPT ![outboxSeq + 1] = row]
              /\ tx' = [tx EXCEPT ![i] = [stage |-> "outbox", review |-> tx[i].review,
                                          id |-> outboxSeq + 1, row |-> row]]
    /\ UNCHANGED <<reviewSeq, reviews, pubVars, topic, faults>>

\* db.add(OutboxEventDB(...)) and the flush that commit() starts with.
InsertOutbox(i) ==
    /\ tx[i].stage = "review"
    /\ outboxSeq < MaxReviews
    /\ outboxSeq' = outboxSeq + 1
    /\ \E now \in Clock, fits \in Sizes :
          tx' = [tx EXCEPT ![i] =
                   [stage |-> "outbox", review |-> tx[i].review, id |-> outboxSeq + 1,
                    row |-> [status |-> "pending", review |-> tx[i].review,
                             createdAt |-> now, fits |-> fits]]]
    /\ UNCHANGED <<reviewSeq, reviews, outbox, pubVars, topic, faults>>

\* Mistake: the review is committed first and the outbox row after it, which the
\* process may not live to do.
CommitReviewFirst(i) ==
    /\ tx[i].stage = "outbox"
    /\ reviews' = reviews \cup {tx[i].review}
    /\ outbox' \in {outbox, [outbox EXCEPT ![tx[i].id] = tx[i].row]}
    /\ tx' = [tx EXCEPT ![i] = NoTx]
    /\ UNCHANGED <<reviewSeq, outboxSeq, pubVars, topic, faults>>

\* The COMMIT makes both rows visible at once.
Commit(i) ==
    /\ tx[i].stage = "outbox"
    /\ reviews' = reviews \cup {tx[i].review}
    /\ outbox' = [outbox EXCEPT ![tx[i].id] = tx[i].row]
    /\ tx' = [tx EXCEPT ![i] = NoTx]
    /\ UNCHANGED <<reviewSeq, outboxSeq, pubVars, topic, faults>>

\* An exception, or the end of the process, before the COMMIT: session_scope
\* closes the session and Postgres rolls back.
Rollback(i) ==
    /\ tx[i].stage # "none"
    /\ tx' = [tx EXCEPT ![i] = NoTx]
    /\ UNCHANGED <<reviewSeq, outboxSeq, reviews, outbox, pubVars, topic, faults>>

----------------------------------------------------------------------------
(* process_next_outbox_event and publish_event.                            *)

\* Mistakes: a failed row is never retried; the status is not looked at.
PendingOnly(r) == outbox[r].status = "pending"
AnyStatus(r) == outbox[r].status # "absent"

Unpublished(r) == outbox[r].status \in {"pending", "failed"}
Locked(r) == \E p \in Publishers : hold[p] = r

\* Mistake: a plain SELECT, without FOR UPDATE SKIP LOCKED.
ClaimableWithoutLock(r) == Unpublished(r)

\* ORDER BY created_at, id
Before(r, s) ==
    \/ outbox[r].createdAt < outbox[s].createdAt
    \/ outbox[r].createdAt = outbox[s].createdAt /\ r <= s

\* What the SELECT ... FOR UPDATE SKIP LOCKED with .first() may return.
Claimable(r) == Unpublished(r) /\ ~Locked(r)
Oldest(r) == Claimable(r) /\ \A s \in Ids : Claimable(s) => Before(r, s)

\* Docker starts the container: init_db, create_kafka_producer, the loop.
Start(p) ==
    /\ pc[p] = "down"
    /\ pc' = [pc EXCEPT ![p] = "idle"]
    /\ UNCHANGED <<dbVars, outbox, hold, late, stray, topic, faults>>

Claim(p, r) ==
    /\ pc[p] = "idle"
    /\ Oldest(r)
    /\ pc' = [pc EXCEPT ![p] = "claimed"]
    /\ hold' = [hold EXCEPT ![p] = r]
    /\ UNCHANGED <<dbVars, outbox, late, stray, topic, faults>>

\* Mistake: future.get is dropped, only producer.flush() is left to wait.
SendWithoutWaiting(p) ==
    /\ pc[p] = "claimed"
    /\ pc' = [pc EXCEPT ![p] = "acked"]
    /\ late' = [late EXCEPT ![p][hold[p]] = @ + 1]
    /\ UNCHANGED <<dbVars, outbox, hold, stray, topic, faults>>

\* producer.send: the record enters the producer's buffer, unless it is larger
\* than max_request_size, which fails the future that the next line waits for.
Send(p) ==
    /\ pc[p] = "claimed"
    /\ pc' = [pc EXCEPT ![p] = IF outbox[hold[p]].fits THEN "sent" ELSE "failing"]
    /\ UNCHANGED <<dbVars, outbox, hold, late, stray, topic, faults>>

\* The broker appends a copy of row r's payload to some partition: the record
\* has no key.
AppendCopy(r) ==
    \E k \in Partitions : topic' = [topic EXCEPT ![k] = Append(@, outbox[r].review)]

\* The record is stored and its acknowledgement resolves the future.
BrokerAck(p) ==
    /\ pc[p] = "sent"
    /\ AppendCopy(hold[p])
    /\ pc' = [pc EXCEPT ![p] = "acked"]
    /\ UNCHANGED <<dbVars, outbox, hold, late, stray, faults>>

\* The record is stored, the acknowledgement is lost: the producer sends again.
BrokerAckLost(p) ==
    /\ pc[p] = "sent" /\ Fault
    /\ AppendCopy(hold[p])
    /\ UNCHANGED <<dbVars, outbox, pubVars>>

\* future.get raises: the broker refused the record for good.
BrokerRefuses(p) ==
    /\ pc[p] = "sent" /\ Fault
    /\ pc' = [pc EXCEPT ![p] = "failing"]
    /\ UNCHANGED <<dbVars, outbox, hold, late, stray, topic>>

\* future.get(timeout=10) raises while the record stays in the producer.
WaitTimeout(p) ==
    /\ pc[p] = "sent" /\ Fault
    /\ pc' = [pc EXCEPT ![p] = "failing"]
    /\ late' = [late EXCEPT ![p][hold[p]] = @ + 1]
    /\ UNCHANGED <<dbVars, outbox, hold, stray, topic>>

\* The background sender delivers a record nobody waits for any more ...
LateAck(p, r) ==
    /\ late[p][r] > 0
    /\ AppendCopy(r)
    /\ late' = [late EXCEPT ![p][r] = @ - 1]
    /\ UNCHANGED <<dbVars, outbox, pc, hold, stray, faults>>

\* ... or gives it up at its delivery timeout.
LateExpired(p, r) ==
    /\ late[p][r] > 0
    /\ late' = [late EXCEPT ![p][r] = @ - 1]
    /\ UNCHANGED <<dbVars, outbox, pc, hold, stray, topic, faults>>

Flushed(p) == \A r \in Ids : late[p][r] = 0
SetStatus(p, status) == outbox' = [outbox EXCEPT ![hold[p]].status = status]

\* The status update commits, which releases the lock.
Finish(p, status) ==
    /\ SetStatus(p, status)
    /\ pc' = [pc EXCEPT ![p] = "idle"]
    /\ hold' = [hold EXCEPT ![p] = NoId]
    /\ UNCHANGED <<dbVars, late, stray, topic, faults>>

\* producer.flush() waits for every record of this producer, then the row is done.
MarkPublished(p) == pc[p] = "acked" /\ Flushed(p) /\ Finish(p, "published")

\* except Exception: the row is handed back for a retry.
MarkFailed(p) == pc[p] = "failing" /\ Finish(p, "failed")

\* The process is gone: its row lock is released, and each record it still had
\* may or may not be on the wire already.
Die(p) ==
    /\ stray' = [r \in Ids |-> stray[r] + late[p][r]
                                 + IF pc[p] = "sent" /\ hold[p] = r THEN 1 ELSE 0]
    /\ pc' = [pc EXCEPT ![p] = "down"]
    /\ hold' = [hold EXCEPT ![p] = NoId]
    /\ late' = [late EXCEPT ![p] = [r \in Ids |-> 0]]
    /\ UNCHANGED <<dbVars, topic>>

\* A kill, or an exception run_forever does not catch: it only catches
\* OutboxPublishError, so a failed COMMIT or SELECT ends the process too.
Crash(p) ==
    /\ pc[p] # "down" /\ Fault
    /\ Die(p)
    /\ UNCHANGED outbox

\* The COMMIT of a status reached Postgres but its answer did not come back.
CommitAnswerLost(p) ==
    /\ \/ /\ pc[p] = "acked" /\ Flushed(p)
          /\ SetStatus(p, "published")
       \/ /\ pc[p] = "failing"
          /\ SetStatus(p, "failed")
    /\ Fault
    /\ Die(p)

\* A record of a dead producer reaches the log, or never does.
StrayAppended(r) ==
    /\ stray[r] > 0
    /\ AppendCopy(r)
    /\ stray' = [stray EXCEPT ![r] = @ - 1]
    /\ UNCHANGED <<dbVars, outbox, pc, hold, late, faults>>

StrayLost(r) ==
    /\ stray[r] > 0
    /\ stray' = [stray EXCEPT ![r] = @ - 1]
    /\ UNCHANGED <<dbVars, outbox, pc, hold, late, topic, faults>>

----------------------------------------------------------------------------
RequestStep(i) == FlushReview(i) \/ InsertOutbox(i) \/ Commit(i) \/ Rollback(i)

\* What a publisher and the broker do when nothing goes wrong.
PublisherStep(p) ==
    \/ Start(p) \/ Send(p) \/ BrokerAck(p) \/ MarkPublished(p) \/ MarkFailed(p)
    \/ \E r \in Ids : Claim(p, r)

LateStep(p) == \E r \in Ids : LateAck(p, r) \/ LateExpired(p, r)

FaultStep(p) ==
    BrokerAckLost(p) \/ BrokerRefuses(p) \/ WaitTimeout(p) \/ Crash(p) \/ CommitAnswerLost(p)

StrayStep == \E r \in Ids : StrayAppended(r) \/ StrayLost(r)

Next ==
    \/ \E i \in Instances : RequestStep(i)
    \/ \E p \in Publishers : PublisherStep(p) \/ LateStep(p) \/ FaultStep(p)
    \/ StrayStep

Spec == Init /\ [][Next]_vars

\* Publishers are restarted (restart: unless-stopped), loop for ever, and every
\* record a producer holds is delivered or given up.  Nothing is assumed of the
\* requests, nor that a fault ever happens; MaxFaults makes faults cease.
Fairness == \A p \in Publishers : WF_vars(PublisherStep(p)) /\ WF_vars(LateStep(p))

FairSpec == Spec /\ Fairness

----------------------------------------------------------------------------
TypeOK ==
    /\ reviewSeq \in 0..MaxReviews /\ outboxSeq \in 0..MaxReviews
    /\ tx \in [Instances -> Transactions]
    /\ reviews \subseteq Ids
    /\ outbox \in [Ids -> Rows]
    /\ pc \in [Publishers -> {"down", "idle", "claimed", "sent", "acked", "failing"}]
    /\ hold \in [Publishers -> Ids \cup {NoId}]
    /\ late \in [Publishers -> [Ids -> Nat]]
    /\ stray \in [Ids -> Nat]
    /\ topic \in [Partitions -> Seq(Ids)]
    /\ faults \in 0..MaxFaults

Committed(r) == outbox[r].status # "absent"
InTopic(v) == \E k \in Partitions : \E n \in 1..Len(topic[k]) : topic[k][n] = v

\* A committed review has one outbox row that names it, and a committed row
\* names a committed review of its own: ids handed out by two sequences to
\* concurrent and aborted requests never get crossed
\* (create_review_with_outbox; api-spec.md calls the two inserts atomic).
OneEventPerReview ==
    /\ \A v \in reviews : \E r \in Ids : Committed(r) /\ outbox[r].review = v
    /\ \A r \in Ids : Committed(r) => outbox[r].review \in reviews
    /\ \A r, s \in Ids : Committed(r) /\ Committed(s) /\ outbox[r].review = outbox[s].review => r = s

\* A row is marked published only when its event is in the log, whatever was
\* lost, timed out, retried or crashed before (process_next_outbox_event).
PublishedIsInTopic ==
    \A r \in Ids : outbox[r].status = "published" => InTopic(outbox[r].review)

\* No event is ever in the log for a review that is not committed: a rolled
\* back request leaves no trace downstream.
NoPhantomEvents ==
    \A k \in Partitions : \A n \in 1..Len(topic[k]) : topic[k][n] \in reviews

\* SKIP LOCKED keeps the two publishers on different rows, and a publisher
\* works on a row that still has to be published.
ClaimsAreExclusive ==
    /\ \A p, q \in Publishers : p # q /\ hold[p] = hold[q] => hold[p] = NoId
    /\ \A p \in Publishers : hold[p] # NoId => Unpublished(hold[p])

\* Every copy of an event beyond the first costs a fault of its own: with no
\* lost acknowledgement, timeout or crash each event is sent exactly once
\* (events.md calls the delivery at-least-once).
Copies == UNION {{<<k, n>> : n \in 1..Len(topic[k])} : k \in Partitions}
DuplicatesNeedFaults ==
    Cardinality(Copies) <= Cardinality({v \in Ids : InTopic(v)}) + faults

\* Once published, always published: no late failure of another publisher, and
\* no retry, ever takes a row back (process_next_outbox_event).
PublishedIsFinal ==
    [][\A r \in Ids : outbox[r].status = "published" => outbox'[r] = outbox[r]]_vars

\* Every committed row is published in the end, after any finite number of
\* faults, if its payload can be sent at all.
EventuallyPublished ==
    \A r \in Ids : (Committed(r) /\ outbox[r].fits) ~> (outbox[r].status = "published")
============================================================================
