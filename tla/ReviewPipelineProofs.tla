------------------------ MODULE ReviewPipelineProofs ------------------------
(***************************************************************************)
(* Proofs about the path of a review, for any number of instances,         *)
(* publishers, consumers, partitions, reviews and faults.                  *)
(*                                                                         *)
(* The transactional outbox (ReviewsOutbox).  TypeOK is not inductive by   *)
(* itself: that the log holds review ids rests on every record in flight   *)
(* being the payload of a committed row, and that in turn on what an open  *)
(* transaction and a lock guarantee.  OutboxInv collects these facts, one  *)
(* part per concern of the code.  CountInv adds what the faults have paid  *)
(* for.                                                                    *)
(*                                                                         *)
(* The pipeline.  When Neo4j fails no write in silence, no stored review   *)
(* is ever lost between the two sides, and every step is one the abstract  *)
(* delivery allows.  The inductive invariant is the conjunction of those   *)
(* of the two components; each keeps the other's, because the topic they   *)
(* share only grows.                                                       *)
(***************************************************************************)
EXTENDS ReviewPipeline, FiniteSetTheorems, TLAPS

----------------------------------------------------------------------------
(* The outbox.                                                             *)

\* Ids of an open transaction are its own: allotted by a sequence, not yet
\* committed by anyone, shared with no other transaction.
OpenReviews(i) ==
    tx[i].stage # "none" =>
        /\ tx[i].review \in 1..reviewSeq /\ tx[i].review \notin reviews
        /\ \A j \in Instances : j # i /\ tx[j].stage # "none" => tx[j].review # tx[i].review

OpenRows(i) ==
    tx[i].stage = "outbox" =>
        /\ tx[i].id \in 1..outboxSeq /\ ~Committed(tx[i].id)
        /\ tx[i].row.review = tx[i].review /\ tx[i].row.status = "pending"
        /\ \A j \in Instances : j # i /\ tx[j].stage = "outbox" => tx[j].id # tx[i].id

TxInv ==
    /\ reviews \subseteq 1..reviewSeq
    /\ \A r \in Ids : Committed(r) => r <= outboxSeq
    /\ \A i \in Instances : OpenReviews(i) /\ OpenRows(i)

\* A publisher has a lock exactly while it works on a row.
HoldInv ==
    /\ \A p \in Publishers : hold[p] = NoId <=> pc[p] \in {"down", "idle"}
    /\ ClaimsAreExclusive

\* Only payloads of committed rows are ever on their way to Kafka.
FlightInv ==
    \A r \in Ids : (stray[r] > 0 \/ \E p \in Publishers : late[p][r] > 0) => Committed(r)

\* The log holds stored reviews only, those of published rows, and the one whose
\* acknowledgement a publisher has in hand.
LogInv ==
    /\ NoPhantomEvents
    /\ PublishedIsInTopic
    /\ \A p \in Publishers : pc[p] = "acked" => InTopic(outbox[hold[p]].review)

OutboxInv == TypeOK /\ TxInv /\ OneEventPerReview /\ HoldInv /\ FlightInv /\ LogInv

----------------------------------------------------------------------------
LEMMA IdFacts == NoId \notin Ids
BY BoundsAssumption DEF Ids, NoId

LEMMA RowFacts == NoRow \in Rows /\ NoTx \in Transactions
BY DEF NoRow, NoTx, Rows, Transactions, NoId

\* Appending a copy of a committed row's payload adds that payload to the log
\* and nothing else.
LEMMA AppendCopyFacts ==
    ASSUME OutboxInv, NEW r \in Ids, Committed(r), AppendCopy(r),
           UNCHANGED <<reviews, outbox>>
    PROVE  /\ topic' \in [Partitions -> Seq(Ids)]
           /\ \A v : InTopic(v) => InTopic(v)'
           /\ InTopic(outbox[r].review)'
           /\ NoPhantomEvents'
<1> DEFINE v == outbox[r].review
<1>1. v \in reviews /\ v \in Ids
  BY DEF OutboxInv, OneEventPerReview, TypeOK
<1>2. PICK k \in Partitions : topic' = [topic EXCEPT ![k] = Append(@, v)]
  BY DEF AppendCopy
<1>3. topic \in [Partitions -> Seq(Ids)]
  BY DEF OutboxInv, TypeOK
<1>4. /\ topic'[k] = Append(topic[k], v)
      /\ \A m \in Partitions \ {k} : topic'[m] = topic[m]
      /\ topic' \in [Partitions -> Seq(Ids)]
  BY <1>1, <1>2, <1>3
<1>5. /\ Len(topic'[k]) = Len(topic[k]) + 1 /\ Len(topic[k]) \in Nat
      /\ \A n \in 1..Len(topic[k]) : topic'[k][n] = topic[k][n]
      /\ topic'[k][Len(topic[k]) + 1] = v
  BY <1>1, <1>3, <1>4
<1>6. ASSUME NEW w, InTopic(w) PROVE InTopic(w)'
  <2>1. PICK m \in Partitions : \E n \in 1..Len(topic[m]) : topic[m][n] = w
    BY <1>6 DEF InTopic
  <2>2. PICK n \in 1..Len(topic[m]) : topic[m][n] = w
    BY <2>1
  <2>3. n \in 1..Len(topic'[m]) /\ topic'[m][n] = w
    BY <2>2, <1>4, <1>5
  <2> QED BY <2>3 DEF InTopic
<1>7. InTopic(outbox[r].review)'
  <2>1. Len(topic[k]) + 1 \in 1..Len(topic'[k])
    BY <1>5
  <2>2. outbox' = outbox
    OBVIOUS
  <2> QED BY <2>1, <2>2, <1>5 DEF InTopic
<1>8. NoPhantomEvents'
  <2>1. ASSUME NEW m \in Partitions, NEW n \in 1..Len(topic'[m])
        PROVE  topic'[m][n] \in reviews
    <3>1. CASE m # k
      BY <3>1, <2>1, <1>4 DEF OutboxInv, LogInv, NoPhantomEvents
    <3>2. CASE m = k
      BY <3>2, <2>1, <1>1, <1>4, <1>5 DEF OutboxInv, LogInv, NoPhantomEvents
    <3> QED BY <3>1, <3>2
  <2> QED BY <2>1 DEF NoPhantomEvents
<1> QED BY <1>4, <1>6, <1>7, <1>8

----------------------------------------------------------------------------
LEMMA InitInv == Init => OutboxInv
<1> SUFFICES ASSUME Init PROVE OutboxInv
  OBVIOUS
<1>1. \A r \in Ids : ~Committed(r)
  BY DEF Init, Committed, NoRow
<1>2. TypeOK
  BY RowFacts, BoundsAssumption DEF Init, TypeOK, NoId
<1>3. TxInv
  BY <1>1 DEF Init, TxInv, OpenReviews, OpenRows, NoTx
<1>4. OneEventPerReview
  BY <1>1 DEF Init, OneEventPerReview
<1>5. HoldInv
  BY DEF Init, HoldInv, ClaimsAreExclusive
<1>6. FlightInv
  BY DEF Init, FlightInv
<1>7. NoPhantomEvents /\ PublishedIsInTopic
  BY <1>1 DEF Init, NoPhantomEvents, PublishedIsInTopic, Committed
<1>8. LogInv
  BY <1>7 DEF Init, LogInv
<1> QED BY <1>2, <1>3, <1>4, <1>5, <1>6, <1>8 DEF OutboxInv

\* What a request leaves alone.
LEMMA RequestKeeps ==
    ASSUME OutboxInv, UNCHANGED <<pubVars, topic, faults>>,
           \A r \in Ids : Committed(r) => outbox'[r] = outbox[r],
           reviews \subseteq reviews',
           \A r \in Ids : outbox'[r].status = "published" => outbox[r].status = "published"
    PROVE  HoldInv' /\ FlightInv' /\ LogInv'
<1>1. /\ hold \in [Publishers -> Ids \cup {NoId}]
      /\ \A p \in Publishers : hold[p] # NoId => Committed(hold[p])
      /\ \A r \in Ids : outbox[r].status = "published" => Committed(r)
  BY DEF OutboxInv, TypeOK, HoldInv, ClaimsAreExclusive, Unpublished, Committed
<1>2. HoldInv'
  BY <1>1 DEF OutboxInv, HoldInv, ClaimsAreExclusive, Unpublished, pubVars
<1>3. FlightInv'
  BY DEF OutboxInv, FlightInv, Committed, pubVars
<1>4. \A v : InTopic(v) => InTopic(v)'
  BY DEF InTopic
<1>5. NoPhantomEvents'
  BY DEF OutboxInv, LogInv, NoPhantomEvents
<1>6. PublishedIsInTopic'
  BY <1>1, <1>4 DEF OutboxInv, LogInv, PublishedIsInTopic
<1>7. \A p \in Publishers : pc'[p] = "acked" => InTopic(outbox[hold[p]].review)'
  BY <1>1, <1>4 DEF OutboxInv, LogInv, HoldInv, pubVars
<1> QED BY <1>2, <1>3, <1>5, <1>6, <1>7 DEF LogInv

\* Each step of a request keeps the invariant.
LEMMA FlushReviewInv ==
    ASSUME OutboxInv, NEW i \in Instances, FlushReview(i)
    PROVE  OutboxInv'
<1> DEFINE t == [stage |-> "review", review |-> reviewSeq + 1, id |-> NoId, row |-> NoRow]
<1> USE DEF OutboxInv
<1>1. t \in Transactions /\ t.stage = "review" /\ t.review = reviewSeq + 1
  BY RowFacts, BoundsAssumption DEF FlushReview, TypeOK, Transactions, Ids
<1>2. /\ tx' \in [Instances -> Transactions]
      /\ tx'[i] = t /\ \A j \in Instances \ {i} : tx'[j] = tx[j]
      /\ reviewSeq' = reviewSeq + 1
      /\ UNCHANGED <<outboxSeq, reviews, outbox, pubVars, topic, faults>>
  BY <1>1 DEF FlushReview, TypeOK
<1>3. TypeOK'
  BY <1>2, BoundsAssumption DEF FlushReview, TypeOK, pubVars
<1>4. OneEventPerReview'
  BY <1>2 DEF OneEventPerReview, Committed
<1>5. TxInv'
  <2>1. ASSUME NEW j \in Instances PROVE OpenReviews(j)'
    <3>1. \A l \in Instances : tx[l].stage # "none" => tx[l].review \in 1..reviewSeq
      BY DEF TxInv, OpenReviews
    <3>2. reviewSeq \in Nat /\ reviews \subseteq 1..reviewSeq
      BY DEF TypeOK, TxInv
    <3>3. CASE j = i
      BY <1>1, <1>2, <3>1, <3>2, <3>3 DEF OpenReviews
    <3>4. CASE j # i
      <4>1. OpenReviews(j)
        BY DEF TxInv
      <4> QED BY <1>1, <1>2, <3>1, <3>2, <3>4, <4>1 DEF OpenReviews
    <3> QED BY <3>3, <3>4
  <2>2. ASSUME NEW j \in Instances PROVE OpenRows(j)'
    BY <1>1, <1>2 DEF TxInv, OpenRows, Committed
  <2>3. reviews' \subseteq 1..reviewSeq' /\ \A r \in Ids : Committed(r)' => r <= outboxSeq'
    BY <1>2 DEF TypeOK, TxInv, Committed
  <2> QED BY <2>1, <2>2, <2>3 DEF TxInv
<1>6. HoldInv' /\ FlightInv' /\ LogInv'
  BY <1>2, RequestKeeps
<1> QED BY <1>3, <1>4, <1>5, <1>6

LEMMA InsertOutboxInv ==
    ASSUME OutboxInv, NEW i \in Instances, InsertOutbox(i)
    PROVE  OutboxInv'
<1> USE DEF OutboxInv
<1>1. PICK now \in Clock, fits \in Sizes :
         tx' = [tx EXCEPT ![i] =
                  [stage |-> "outbox", review |-> tx[i].review, id |-> outboxSeq + 1,
                   row |-> [status |-> "pending", review |-> tx[i].review,
                            createdAt |-> now, fits |-> fits]]]
  BY DEF InsertOutbox
<1>2. /\ tx[i].stage = "review" /\ tx[i].review \in Ids
      /\ outboxSeq + 1 \in Ids /\ outboxSeq' = outboxSeq + 1
      /\ UNCHANGED <<reviewSeq, reviews, outbox, pubVars, topic, faults>>
  <2>1. tx[i].stage = "review" /\ OpenReviews(i)
    BY DEF InsertOutbox, TxInv
  <2>2. tx[i].review \in Ids
    BY <2>1, BoundsAssumption DEF OpenReviews, TypeOK, Ids
  <2>3. outboxSeq + 1 \in Ids
    BY BoundsAssumption DEF InsertOutbox, TypeOK, Ids
  <2> QED BY <2>1, <2>2, <2>3 DEF InsertOutbox
<1>3. /\ tx'[i].stage = "outbox" /\ tx'[i].review = tx[i].review /\ tx'[i].id = outboxSeq + 1
      /\ tx'[i].row.status = "pending" /\ tx'[i].row.review = tx[i].review
      /\ \A j \in Instances \ {i} : tx'[j] = tx[j]
  BY <1>1 DEF TypeOK
<1>4. tx' \in [Instances -> Transactions]
  BY <1>1, <1>2, SizesAssumption DEF TypeOK, Transactions, Rows
<1>5. TypeOK'
  BY <1>2, <1>4, BoundsAssumption DEF TypeOK, pubVars, Ids
<1>6. OneEventPerReview'
  BY <1>2 DEF OneEventPerReview, Committed
<1>7. TxInv'
  <2>1. ASSUME NEW j \in Instances PROVE OpenReviews(j)'
    <3>1. \A l \in Instances : /\ tx'[l].review = tx[l].review
                               /\ tx'[l].stage # "none" <=> tx[l].stage # "none"
      BY <1>2, <1>3
    <3>2. OpenReviews(j) /\ reviewSeq' = reviewSeq /\ reviews' = reviews
      BY <1>2 DEF TxInv
    <3> QED BY <3>1, <3>2 DEF OpenReviews
  <2>2. ASSUME NEW j \in Instances PROVE OpenRows(j)'
    <3>1. \A l \in Instances : tx[l].stage = "outbox" => tx[l].id \in 1..outboxSeq
      BY DEF TxInv, OpenRows
    <3>2. outboxSeq \in Nat /\ ~Committed(outboxSeq + 1)
      BY <1>2 DEF TypeOK, TxInv
    <3>3. CASE j = i
      BY <1>2, <1>3, <3>1, <3>2, <3>3 DEF OpenRows, Committed
    <3>4. CASE j # i
      <4>1. OpenRows(j)
        BY DEF TxInv
      <4> QED BY <1>2, <1>3, <3>1, <3>2, <3>4, <4>1 DEF OpenRows, Committed
    <3> QED BY <3>3, <3>4
  <2>3. reviews' \subseteq 1..reviewSeq'
    BY <1>2 DEF TxInv
  <2>4. ASSUME NEW r \in Ids, Committed(r)' PROVE r <= outboxSeq'
    <3>1. r <= outboxSeq /\ r \in Int /\ outboxSeq \in Int
      BY <1>2, <2>4 DEF TypeOK, TxInv, Committed, Ids
    <3> QED BY <1>2, <3>1
  <2> QED BY <2>1, <2>2, <2>3, <2>4 DEF TxInv
<1>8. HoldInv' /\ FlightInv' /\ LogInv'
  BY <1>2, RequestKeeps
<1> QED BY <1>5, <1>6, <1>7, <1>8

LEMMA CommitInv ==
    ASSUME OutboxInv, NEW i \in Instances, Commit(i)
    PROVE  OutboxInv'
<1> DEFINE n == tx[i].id
           v == tx[i].review
<1> USE DEF OutboxInv
<1>1. /\ n \in Ids /\ n \in 1..outboxSeq /\ v \in Ids /\ v \in 1..reviewSeq /\ v \notin reviews
      /\ ~Committed(n) /\ tx[i].row.review = v /\ tx[i].row.status = "pending"
      /\ tx[i].row \in Rows
  <2>1. tx[i].stage = "outbox" /\ OpenReviews(i) /\ OpenRows(i)
    BY DEF Commit, TxInv
  <2>2. tx[i].row \in Rows
    BY DEF TypeOK, Transactions
  <2>3. n \in 1..outboxSeq /\ v \in 1..reviewSeq
    BY <2>1 DEF OpenReviews, OpenRows
  <2>4. n \in Ids /\ v \in Ids
    BY <2>3, BoundsAssumption DEF TypeOK, Ids
  <2> QED BY <2>1, <2>2, <2>3, <2>4 DEF OpenReviews, OpenRows
<1>2. /\ outbox' \in [Ids -> Rows] /\ outbox'[n] = tx[i].row
      /\ \A r \in Ids \ {n} : outbox'[r] = outbox[r]
      /\ reviews' = reviews \cup {v}
      /\ tx'[i] = NoTx /\ \A j \in Instances \ {i} : tx'[j] = tx[j]
      /\ tx' \in [Instances -> Transactions]
      /\ UNCHANGED <<reviewSeq, outboxSeq, pubVars, topic, faults>>
  BY <1>1, RowFacts DEF Commit, TypeOK
<1>3. TypeOK'
  BY <1>1, <1>2 DEF TypeOK, pubVars
<1>4. \A r \in Ids : Committed(r)' <=> r = n \/ Committed(r)
  BY <1>1, <1>2 DEF Committed
<1>5. OneEventPerReview'
  <2>1. ASSUME NEW w \in reviews' PROVE \E r \in Ids : Committed(r)' /\ outbox'[r].review = w
    <3>1. CASE w = v
      BY <3>1, <1>1, <1>2, <1>4
    <3>2. CASE w \in reviews
      BY <3>2, <1>1, <1>2, <1>4 DEF OneEventPerReview
    <3> QED BY <3>1, <3>2, <1>2
  <2>2. \A r \in Ids : Committed(r)' => outbox'[r].review \in reviews'
    BY <1>1, <1>2, <1>4 DEF OneEventPerReview
  <2>3. ASSUME NEW r \in Ids, NEW s \in Ids, Committed(r)', Committed(s)',
               outbox'[r].review = outbox'[s].review
        PROVE  r = s
    BY <2>3, <1>1, <1>2, <1>4 DEF OneEventPerReview
  <2> QED BY <2>1, <2>2, <2>3 DEF OneEventPerReview
<1>6. TxInv'
  <2>1. ASSUME NEW j \in Instances PROVE OpenReviews(j)'
    BY <1>2 DEF Commit, TxInv, OpenReviews, NoTx
  <2>2. ASSUME NEW j \in Instances PROVE OpenRows(j)'
    <3>1. CASE j = i
      BY <3>1, <1>2 DEF OpenRows, NoTx
    <3>2. CASE j # i /\ tx[j].stage = "outbox"
      <4>1. tx[j].id \in Ids /\ tx[j].id # n
        <5>1. OpenRows(i) /\ OpenRows(j) /\ tx[i].stage = "outbox"
          BY DEF Commit, TxInv
        <5> QED BY <3>2, <5>1, BoundsAssumption DEF OpenRows, TypeOK, Ids
      <4> QED BY <3>2, <4>1, <1>2, <1>4 DEF TxInv, OpenRows, NoTx
    <3>3. CASE j # i /\ tx[j].stage # "outbox"
      BY <3>3, <1>2 DEF OpenRows
    <3> QED BY <3>1, <3>2, <3>3
  <2>3. reviews' \subseteq 1..reviewSeq'
    BY <1>1, <1>2 DEF TxInv
  <2>4. \A r \in Ids : Committed(r)' => r <= outboxSeq'
    BY <1>1, <1>2, <1>4 DEF TxInv, TypeOK
  <2> QED BY <2>1, <2>2, <2>3, <2>4 DEF TxInv
<1>7. HoldInv' /\ FlightInv' /\ LogInv'
  <2>1. \A r \in Ids : Committed(r) => outbox'[r] = outbox[r]
    BY <1>1, <1>2
  <2>2. \A r \in Ids : outbox'[r].status = "published" => outbox[r].status = "published"
    BY <1>1, <1>2
  <2> QED BY <1>2, <2>1, <2>2, RequestKeeps
<1> QED BY <1>3, <1>5, <1>6, <1>7

LEMMA RollbackInv ==
    ASSUME OutboxInv, NEW i \in Instances, Rollback(i)
    PROVE  OutboxInv'
<1> USE DEF OutboxInv
<1>1. /\ tx'[i] = NoTx /\ \A j \in Instances \ {i} : tx'[j] = tx[j]
      /\ tx' \in [Instances -> Transactions]
      /\ UNCHANGED <<reviewSeq, outboxSeq, reviews, outbox, pubVars, topic, faults>>
  BY RowFacts DEF Rollback, TypeOK
<1>2. TypeOK'
  BY <1>1 DEF TypeOK, pubVars
<1>3. OneEventPerReview'
  BY <1>1 DEF OneEventPerReview, Committed
<1>4. TxInv'
  BY <1>1 DEF TxInv, OpenReviews, OpenRows, Committed, NoTx
<1>5. HoldInv' /\ FlightInv' /\ LogInv'
  BY <1>1, RequestKeeps
<1> QED BY <1>2, <1>3, <1>4, <1>5

----------------------------------------------------------------------------
\* A publisher that works on a row has a lock that is its own, on a committed
\* row that is still to be published.
LEMMA LockFacts ==
    ASSUME OutboxInv, NEW p \in Publishers, pc[p] \notin {"down", "idle"}
    PROVE  /\ hold[p] \in Ids /\ hold[p] # NoId
           /\ Unpublished(hold[p]) /\ Committed(hold[p])
           /\ \A q \in Publishers \ {p} : hold[q] # hold[p]
<1>1. hold[p] # NoId /\ hold[p] \in Ids
  BY DEF OutboxInv, TypeOK, HoldInv
<1>2. Unpublished(hold[p]) /\ \A q \in Publishers \ {p} : hold[q] # hold[p]
  BY <1>1 DEF OutboxInv, HoldInv, ClaimsAreExclusive
<1> QED BY <1>1, <1>2 DEF Unpublished, Committed

\* A status update touches nothing but the status of one committed row.
LEMMA SetStatusFacts ==
    ASSUME OutboxInv, NEW p \in Publishers, pc[p] \notin {"down", "idle"},
           NEW s \in {"published", "failed"}, SetStatus(p, s)
    PROVE  /\ outbox' \in [Ids -> Rows]
           /\ outbox'[hold[p]].status = s
           /\ \A r \in Ids : outbox'[r].review = outbox[r].review
           /\ \A r \in Ids \ {hold[p]} : outbox'[r] = outbox[r]
           /\ \A r \in Ids : Committed(r)' <=> Committed(r)
<1>1. hold[p] \in Ids /\ Committed(hold[p]) /\ outbox \in [Ids -> Rows]
  BY LockFacts DEF OutboxInv, TypeOK
<1>2. outbox' \in [Ids -> Rows]
  BY <1>1 DEF SetStatus, Rows
<1>3. /\ outbox'[hold[p]].status = s
      /\ \A r \in Ids : outbox'[r].review = outbox[r].review
      /\ \A r \in Ids \ {hold[p]} : outbox'[r] = outbox[r]
  BY <1>1 DEF SetStatus, Rows
<1> QED BY <1>1, <1>2, <1>3 DEF Committed

\* What a publisher and the broker leave alone.
LEMMA PublisherKeeps ==
    ASSUME OutboxInv, UNCHANGED dbVars,
           \A r \in Ids : Committed(r)' <=> Committed(r),
           \A r \in Ids : outbox'[r].review = outbox[r].review
    PROVE  TxInv' /\ OneEventPerReview'
<1>1. OneEventPerReview'
  BY DEF OutboxInv, OneEventPerReview, dbVars
<1>2. \A i \in Instances : tx[i].stage = "outbox" => tx[i].id \in Ids
  BY BoundsAssumption DEF OutboxInv, TypeOK, TxInv, OpenRows, Ids
<1>3. \A i \in Instances : OpenReviews(i)'
  BY DEF OutboxInv, TxInv, OpenReviews, dbVars
<1>4. \A i \in Instances : OpenRows(i)'
  BY <1>2 DEF OutboxInv, TxInv, OpenRows, dbVars
<1>5. TxInv'
  BY <1>3, <1>4 DEF OutboxInv, TxInv, dbVars
<1> QED BY <1>1, <1>5

\* A step that leaves the table and the log alone keeps the facts about them.
LEMMA LogKeeps ==
    ASSUME OutboxInv, UNCHANGED <<reviews, outbox, topic>>,
           \A p \in Publishers : pc'[p] = "acked" => pc[p] = "acked" /\ hold'[p] = hold[p]
    PROVE  LogInv'
<1>1. \A v : InTopic(v)' <=> InTopic(v)
  BY DEF InTopic
<1> QED BY <1>1 DEF OutboxInv, LogInv, NoPhantomEvents, PublishedIsInTopic

\* A step that appends a copy of a committed row keeps the facts about the log.
LEMMA AppendKeeps ==
    ASSUME OutboxInv, NEW r \in Ids, Committed(r), AppendCopy(r),
           UNCHANGED <<reviews, outbox>>,
           \A p \in Publishers : pc'[p] = "acked" =>
               hold'[p] = hold[p] /\ (pc[p] = "acked" \/ hold[p] = r)
    PROVE  LogInv'
<1>1. /\ \A v : InTopic(v) => InTopic(v)'
      /\ InTopic(outbox[r].review)'
      /\ NoPhantomEvents'
  BY AppendCopyFacts
<1>2. PublishedIsInTopic'
  BY <1>1 DEF OutboxInv, LogInv, PublishedIsInTopic
<1>3. ASSUME NEW p \in Publishers, pc'[p] = "acked" PROVE InTopic(outbox[hold[p]].review)'
  <2>1. CASE pc[p] = "acked"
    BY <1>1, <1>3, <2>1 DEF OutboxInv, LogInv
  <2>2. CASE hold[p] = r
    BY <1>1, <1>3, <2>2
  <2> QED BY <1>3, <2>1, <2>2
<1> QED BY <1>1, <1>2, <1>3 DEF LogInv

\* Each step of a publisher, of its producer and of the broker keeps the
\* invariant.
LEMMA LoopInv ==
    ASSUME OutboxInv, NEW p \in Publishers,
           Start(p) \/ (\E r \in Ids : Claim(p, r)) \/ Send(p) \/ BrokerRefuses(p) \/ WaitTimeout(p)
    PROVE  OutboxInv'
<1> USE DEF OutboxInv
<1>1. UNCHANGED <<dbVars, outbox, stray, topic>>
  BY DEF Start, Claim, Send, BrokerRefuses, WaitTimeout
<1>2. TxInv' /\ OneEventPerReview'
  BY <1>1, PublisherKeeps DEF Committed
<1>3. CASE Start(p)
  <2>1. TypeOK'
    BY <1>3 DEF Start, TypeOK, dbVars
  <2>2. HoldInv'
    BY <1>3 DEF Start, TypeOK, HoldInv, ClaimsAreExclusive, Unpublished
  <2>3. FlightInv'
    BY <1>3 DEF Start, FlightInv, Committed
  <2>4. LogInv'
    BY <1>3, LogKeeps DEF Start, TypeOK, dbVars
  <2> QED BY <1>2, <2>1, <2>2, <2>3, <2>4
<1>4. CASE \E r \in Ids : Claim(p, r)
  <2>1. PICK r \in Ids : Claim(p, r)
    BY <1>4
  <2>2. Unpublished(r) /\ r # NoId /\ \A q \in Publishers : hold[q] # r
    <3>1. Unpublished(r) /\ ~Locked(r)
      BY <2>1 DEF Claim, Oldest, Claimable
    <3>2. r # NoId
      BY IdFacts
    <3> QED BY <3>1, <3>2 DEF Locked
  <2>3. TypeOK'
    BY <2>1 DEF Claim, TypeOK, dbVars
  <2>4. HoldInv'
    BY <2>1, <2>2 DEF Claim, TypeOK, HoldInv, ClaimsAreExclusive, Unpublished
  <2>5. FlightInv'
    BY <2>1 DEF Claim, FlightInv, Committed
  <2>6. LogInv'
    BY <2>1, LogKeeps DEF Claim, TypeOK, dbVars
  <2> QED BY <1>2, <2>3, <2>4, <2>5, <2>6
<1>5. CASE Send(p)
  <2>1. TypeOK'
    BY <1>5 DEF Send, TypeOK, dbVars
  <2>2. HoldInv'
    BY <1>5 DEF Send, TypeOK, HoldInv, ClaimsAreExclusive, Unpublished
  <2>3. FlightInv'
    BY <1>5 DEF Send, FlightInv, Committed
  <2>4. LogInv'
    BY <1>5, LogKeeps DEF Send, TypeOK, dbVars
  <2> QED BY <1>2, <2>1, <2>2, <2>3, <2>4
<1>6. CASE BrokerRefuses(p)
  <2>1. TypeOK'
    BY <1>6, BoundsAssumption DEF BrokerRefuses, Fault, TypeOK, dbVars
  <2>2. HoldInv'
    BY <1>6 DEF BrokerRefuses, TypeOK, HoldInv, ClaimsAreExclusive, Unpublished
  <2>3. FlightInv'
    BY <1>6 DEF BrokerRefuses, FlightInv, Committed
  <2>4. LogInv'
    BY <1>6, LogKeeps DEF BrokerRefuses, TypeOK, dbVars
  <2> QED BY <1>2, <2>1, <2>2, <2>3, <2>4
<1>7. CASE WaitTimeout(p)
  <2>1. hold[p] \in Ids /\ Committed(hold[p])
    BY <1>7, LockFacts DEF WaitTimeout
  <2>2. /\ late' \in [Publishers -> [Ids -> Nat]]
        /\ \A q \in Publishers, r \in Ids : late'[q][r] > 0 => late[q][r] > 0 \/ r = hold[p]
    BY <1>7, <2>1 DEF WaitTimeout, TypeOK
  <2>3. TypeOK'
    BY <1>7, <2>2, BoundsAssumption DEF WaitTimeout, Fault, TypeOK, dbVars
  <2>4. HoldInv'
    BY <1>7 DEF WaitTimeout, TypeOK, HoldInv, ClaimsAreExclusive, Unpublished
  <2>5. FlightInv'
    BY <1>7, <2>1, <2>2 DEF WaitTimeout, FlightInv, Committed
  <2>6. LogInv'
    BY <1>7, LogKeeps DEF WaitTimeout, TypeOK, dbVars
  <2> QED BY <1>2, <2>3, <2>4, <2>5, <2>6
<1> QED BY <1>3, <1>4, <1>5, <1>6, <1>7

LEMMA BrokerInv ==
    ASSUME OutboxInv, NEW p \in Publishers, BrokerAck(p) \/ BrokerAckLost(p)
    PROVE  OutboxInv'
<1> USE DEF OutboxInv
<1>1. UNCHANGED <<dbVars, outbox, hold, late, stray>> /\ AppendCopy(hold[p]) /\ pc[p] = "sent"
  BY DEF BrokerAck, BrokerAckLost, pubVars
<1>2. TxInv' /\ OneEventPerReview'
  BY <1>1, PublisherKeeps DEF Committed
<1>3. hold[p] \in Ids /\ Committed(hold[p])
  BY <1>1, LockFacts
<1>4. topic' \in [Partitions -> Seq(Ids)]
  BY <1>1, <1>3, AppendCopyFacts DEF dbVars
<1>5. pc' \in [Publishers -> {"down", "idle", "claimed", "sent", "acked", "failing"}]
      /\ pc'[p] \in {"sent", "acked"} /\ \A q \in Publishers \ {p} : pc'[q] = pc[q]
  BY <1>1 DEF BrokerAck, BrokerAckLost, TypeOK, pubVars
<1>6. TypeOK'
  BY <1>1, <1>4, <1>5, BoundsAssumption DEF BrokerAck, BrokerAckLost, Fault, TypeOK, dbVars
<1>7. HoldInv'
  BY <1>1, <1>5 DEF HoldInv, ClaimsAreExclusive, Unpublished
<1>8. FlightInv'
  BY <1>1 DEF FlightInv, Committed
<1>9. LogInv'
  BY <1>1, <1>3, <1>5, AppendKeeps DEF dbVars
<1> QED BY <1>2, <1>6, <1>7, <1>8, <1>9

LEMMA LateInv ==
    ASSUME OutboxInv, NEW p \in Publishers, NEW r \in Ids, LateAck(p, r) \/ LateExpired(p, r)
    PROVE  OutboxInv'
<1> USE DEF OutboxInv
<1>1. UNCHANGED <<dbVars, outbox, pc, hold, stray, faults>> /\ late[p][r] > 0
      /\ late' = [late EXCEPT ![p][r] = @ - 1]
  BY DEF LateAck, LateExpired
<1>2. TxInv' /\ OneEventPerReview'
  BY <1>1, PublisherKeeps DEF Committed
<1>3. Committed(r)
  BY <1>1 DEF FlightInv
<1>4. late' \in [Publishers -> [Ids -> Nat]]
      /\ \A q \in Publishers, s \in Ids : late'[q][s] > 0 => late[q][s] > 0
  BY <1>1 DEF TypeOK
<1>5. topic' \in [Partitions -> Seq(Ids)] /\ LogInv'
  <2>1. CASE LateAck(p, r)
    <3>1. AppendCopy(r)
      BY <2>1 DEF LateAck
    <3> QED BY <1>1, <1>3, <3>1, AppendCopyFacts, AppendKeeps DEF dbVars
  <2>2. CASE LateExpired(p, r)
    BY <1>1, <2>2, LogKeeps DEF LateExpired, TypeOK, dbVars
  <2> QED BY <2>1, <2>2
<1>6. TypeOK'
  BY <1>1, <1>4, <1>5 DEF TypeOK, dbVars
<1>7. HoldInv'
  BY <1>1 DEF HoldInv, ClaimsAreExclusive, Unpublished
<1>8. FlightInv'
  BY <1>1, <1>4 DEF FlightInv, Committed
<1> QED BY <1>2, <1>5, <1>6, <1>7, <1>8

LEMMA StrayInv ==
    ASSUME OutboxInv, NEW r \in Ids, StrayAppended(r) \/ StrayLost(r)
    PROVE  OutboxInv'
<1> USE DEF OutboxInv
<1>1. UNCHANGED <<dbVars, outbox, pc, hold, late, faults>> /\ stray[r] > 0
      /\ stray' = [stray EXCEPT ![r] = @ - 1]
  BY DEF StrayAppended, StrayLost
<1>2. TxInv' /\ OneEventPerReview'
  BY <1>1, PublisherKeeps DEF Committed
<1>3. Committed(r)
  BY <1>1 DEF FlightInv
<1>4. stray' \in [Ids -> Nat] /\ \A s \in Ids : stray'[s] > 0 => stray[s] > 0
  BY <1>1 DEF TypeOK
<1>5. topic' \in [Partitions -> Seq(Ids)] /\ LogInv'
  <2>1. CASE StrayAppended(r)
    <3>1. AppendCopy(r)
      BY <2>1 DEF StrayAppended
    <3> QED BY <1>1, <1>3, <3>1, AppendCopyFacts, AppendKeeps DEF dbVars
  <2>2. CASE StrayLost(r)
    BY <1>1, <2>2, LogKeeps DEF StrayLost, TypeOK, dbVars
  <2> QED BY <2>1, <2>2
<1>6. TypeOK'
  BY <1>1, <1>4, <1>5 DEF TypeOK, dbVars
<1>7. HoldInv'
  BY <1>1 DEF HoldInv, ClaimsAreExclusive, Unpublished
<1>8. FlightInv'
  BY <1>1, <1>4 DEF FlightInv, Committed
<1> QED BY <1>2, <1>5, <1>6, <1>7, <1>8

LEMMA MarkInv ==
    ASSUME OutboxInv, NEW p \in Publishers, MarkPublished(p) \/ MarkFailed(p)
    PROVE  OutboxInv'
<1> USE DEF OutboxInv
<1>1. PICK s \in {"published", "failed"} :
         /\ Finish(p, s)
         /\ s = "published" => pc[p] = "acked"
  BY DEF MarkPublished, MarkFailed
<1>2. pc[p] \in {"acked", "failing"} /\ SetStatus(p, s)
  BY <1>1 DEF MarkPublished, MarkFailed, Finish
<1>3. /\ outbox' \in [Ids -> Rows]
      /\ outbox'[hold[p]].status = s
      /\ \A r \in Ids : outbox'[r].review = outbox[r].review
      /\ \A r \in Ids \ {hold[p]} : outbox'[r] = outbox[r]
      /\ \A r \in Ids : Committed(r)' <=> Committed(r)
  BY <1>2, SetStatusFacts
<1>4. /\ hold[p] \in Ids /\ hold[p] # NoId
      /\ \A q \in Publishers \ {p} : hold[q] # hold[p]
  BY <1>2, LockFacts
<1>5. /\ pc'[p] = "idle" /\ hold'[p] = NoId
      /\ \A q \in Publishers \ {p} : pc'[q] = pc[q] /\ hold'[q] = hold[q]
      /\ UNCHANGED <<dbVars, late, stray, topic, faults>>
  BY <1>1 DEF Finish, TypeOK
<1>6. TxInv' /\ OneEventPerReview'
  BY <1>3, <1>5, PublisherKeeps
<1>7. TypeOK'
  BY <1>1, <1>3, <1>5 DEF Finish, TypeOK, dbVars
<1>8. HoldInv'
  <2>1. \A q \in Publishers : hold'[q] = NoId <=> pc'[q] \in {"down", "idle"}
    BY <1>5 DEF HoldInv
  <2>2. ASSUME NEW q \in Publishers, hold'[q] # NoId
        PROVE  Unpublished(hold[q])' /\ \A o \in Publishers \ {q} : hold'[o] # hold'[q]
    <3>1. q # p /\ hold'[q] = hold[q] /\ hold[q] # NoId /\ hold[q] \in Ids
      BY <1>5, <2>2 DEF TypeOK
    <3>2. Unpublished(hold[q]) /\ \A o \in Publishers \ {q} : hold[o] # hold[q]
      BY <3>1 DEF HoldInv, ClaimsAreExclusive
    <3>3. outbox'[hold[q]] = outbox[hold[q]]
      BY <1>3, <1>4, <3>1
    <3> QED BY <1>5, <3>1, <3>2, <3>3 DEF Unpublished
  <2> QED BY <2>1, <2>2 DEF HoldInv, ClaimsAreExclusive
<1>9. FlightInv'
  BY <1>3, <1>5 DEF FlightInv
<1>10. LogInv'
  <2>1. \A v : InTopic(v)' <=> InTopic(v)
    BY <1>5 DEF InTopic
  <2>2. NoPhantomEvents'
    BY <1>5 DEF LogInv, NoPhantomEvents, dbVars
  <2>3. PublishedIsInTopic'
    <3>1. s = "published" => InTopic(outbox[hold[p]].review)
      BY <1>1 DEF LogInv
    <3> QED BY <1>3, <1>4, <2>1, <3>1 DEF LogInv, PublishedIsInTopic
  <2>4. ASSUME NEW q \in Publishers, pc'[q] = "acked" PROVE InTopic(outbox[hold[q]].review)'
    <3>1. pc[q] = "acked" /\ hold'[q] = hold[q] /\ hold[q] \in Ids
      BY <1>5, <2>4 DEF TypeOK, HoldInv
    <3> QED BY <1>3, <2>1, <3>1 DEF LogInv
  <2> QED BY <2>2, <2>3, <2>4 DEF LogInv
<1> QED BY <1>6, <1>7, <1>8, <1>9, <1>10

\* What the end of a process does to the lock and to the records in flight.
LEMMA DieFacts ==
    ASSUME OutboxInv, NEW p \in Publishers, Die(p)
    PROVE  /\ pc' \in [Publishers -> {"down", "idle", "claimed", "sent", "acked", "failing"}]
           /\ hold' \in [Publishers -> Ids \cup {NoId}]
           /\ pc'[p] = "down" /\ hold'[p] = NoId
           /\ \A q \in Publishers \ {p} : pc'[q] = pc[q] /\ hold'[q] = hold[q]
           /\ late' \in [Publishers -> [Ids -> Nat]]
           /\ \A q \in Publishers, r \in Ids : late'[q][r] > 0 => late[q][r] > 0
           /\ stray' \in [Ids -> Nat]
           /\ \A r \in Ids : stray'[r] > 0 => Committed(r)
           /\ UNCHANGED <<dbVars, topic>>
<1> USE DEF OutboxInv
<1>1. /\ pc' \in [Publishers -> {"down", "idle", "claimed", "sent", "acked", "failing"}]
      /\ hold' \in [Publishers -> Ids \cup {NoId}]
      /\ pc'[p] = "down" /\ hold'[p] = NoId
      /\ \A q \in Publishers \ {p} : pc'[q] = pc[q] /\ hold'[q] = hold[q]
      /\ UNCHANGED <<dbVars, topic>>
  BY DEF Die, TypeOK
<1>2. /\ late' \in [Publishers -> [Ids -> Nat]]
      /\ \A q \in Publishers, r \in Ids : late'[q][r] > 0 => late[q][r] > 0
  BY DEF Die, TypeOK
<1>3. stray' \in [Ids -> Nat]
  BY DEF Die, TypeOK
<1>4. ASSUME NEW r \in Ids, stray'[r] > 0 PROVE Committed(r)
  <2>1. stray[r] > 0 \/ late[p][r] > 0 \/ (pc[p] = "sent" /\ hold[p] = r)
    BY <1>4 DEF Die, TypeOK
  <2>2. CASE stray[r] > 0 \/ late[p][r] > 0
    BY <2>2 DEF FlightInv
  <2>3. CASE pc[p] = "sent" /\ hold[p] = r
    BY <2>3, LockFacts
  <2> QED BY <2>1, <2>2, <2>3
<1> QED BY <1>1, <1>2, <1>3, <1>4

LEMMA CrashInv ==
    ASSUME OutboxInv, NEW p \in Publishers, Crash(p) \/ CommitAnswerLost(p)
    PROVE  OutboxInv'
<1> USE DEF OutboxInv
<1>1. Die(p) /\ faults' \in 0..MaxFaults
  BY BoundsAssumption DEF Crash, CommitAnswerLost, Fault, TypeOK
<1>2. /\ outbox' \in [Ids -> Rows]
      /\ \A r \in Ids : outbox'[r].review = outbox[r].review
      /\ \A r \in Ids : Committed(r)' <=> Committed(r)
      /\ \A r \in Ids : outbox'[r] # outbox[r] => r = hold[p] /\ hold[p] # NoId
      /\ \A r \in Ids : outbox'[r].status = "published" =>
            outbox[r].status = "published" \/ (pc[p] = "acked" /\ r = hold[p])
  <2>1. CASE Crash(p)
    BY <2>1 DEF Crash, TypeOK, Committed
  <2>2. CASE CommitAnswerLost(p)
    <3>1. PICK s \in {"published", "failed"} :
             SetStatus(p, s) /\ pc[p] \in {"acked", "failing"} /\ (s = "published" => pc[p] = "acked")
      BY <2>2 DEF CommitAnswerLost
    <3>2. /\ outbox' \in [Ids -> Rows]
          /\ outbox'[hold[p]].status = s
          /\ \A r \in Ids : outbox'[r].review = outbox[r].review
          /\ \A r \in Ids \ {hold[p]} : outbox'[r] = outbox[r]
          /\ \A r \in Ids : Committed(r)' <=> Committed(r)
      BY <3>1, SetStatusFacts
    <3>3. hold[p] # NoId
      BY <3>1, LockFacts
    <3> QED BY <3>1, <3>2, <3>3
  <2> QED BY <2>1, <2>2
<1>3. TxInv' /\ OneEventPerReview'
  BY <1>1, <1>2, DieFacts, PublisherKeeps
<1>4. TypeOK'
  BY <1>1, <1>2, DieFacts DEF TypeOK, dbVars
<1>5. HoldInv'
  <2>1. \A q \in Publishers : hold'[q] = NoId <=> pc'[q] \in {"down", "idle"}
    BY <1>1, DieFacts DEF HoldInv
  <2>2. ASSUME NEW q \in Publishers, hold'[q] # NoId
        PROVE  Unpublished(hold[q])' /\ \A o \in Publishers \ {q} : hold'[o] # hold'[q]
    <3>1. q # p /\ hold'[q] = hold[q] /\ hold[q] # NoId /\ hold[q] \in Ids
      BY <1>1, <2>2, DieFacts DEF TypeOK
    <3>2. Unpublished(hold[q]) /\ \A o \in Publishers \ {q} : hold[o] # hold[q]
      BY <3>1 DEF HoldInv, ClaimsAreExclusive
    <3>3. outbox'[hold[q]] = outbox[hold[q]]
      BY <1>2, <3>1, <3>2
    <3> QED BY <1>1, <3>1, <3>2, <3>3, DieFacts DEF Unpublished
  <2> QED BY <2>1, <2>2 DEF HoldInv, ClaimsAreExclusive
<1>6. FlightInv'
  BY <1>1, <1>2, DieFacts DEF FlightInv
<1>7. LogInv'
  <2>1. \A v : InTopic(v)' <=> InTopic(v)
    BY <1>1, DieFacts DEF InTopic
  <2>2. NoPhantomEvents'
    BY <1>1, DieFacts DEF LogInv, NoPhantomEvents, dbVars
  <2>3. PublishedIsInTopic'
    BY <1>2, <2>1 DEF LogInv, PublishedIsInTopic
  <2>4. ASSUME NEW q \in Publishers, pc'[q] = "acked" PROVE InTopic(outbox[hold[q]].review)'
    <3>1. pc[q] = "acked" /\ hold'[q] = hold[q] /\ hold[q] \in Ids
      BY <1>1, <2>4, DieFacts DEF TypeOK, HoldInv
    <3> QED BY <1>2, <2>1, <3>1 DEF LogInv
  <2> QED BY <2>2, <2>3, <2>4 DEF LogInv
<1> QED BY <1>3, <1>4, <1>5, <1>6, <1>7

----------------------------------------------------------------------------
LEMMA NextInv == OutboxInv /\ [Next]_vars => OutboxInv'
<1> SUFFICES ASSUME OutboxInv, [Next]_vars PROVE OutboxInv'
  OBVIOUS
<1>1. CASE \E i \in Instances : RequestStep(i)
  BY <1>1, FlushReviewInv, InsertOutboxInv, CommitInv, RollbackInv DEF RequestStep
<1>2. CASE \E p \in Publishers : PublisherStep(p)
  BY <1>2, LoopInv, BrokerInv, MarkInv DEF PublisherStep
<1>3. CASE \E p \in Publishers : LateStep(p)
  BY <1>3, LateInv DEF LateStep
<1>4. CASE \E p \in Publishers : FaultStep(p)
  BY <1>4, LoopInv, BrokerInv, CrashInv DEF FaultStep
<1>5. CASE StrayStep
  BY <1>5, StrayInv DEF StrayStep
<1>6. CASE UNCHANGED vars
  BY <1>6 DEF vars, dbVars, pubVars, OutboxInv, TypeOK, TxInv, OpenReviews, OpenRows,
     OneEventPerReview, HoldInv, ClaimsAreExclusive, Unpublished, FlightInv, LogInv,
     NoPhantomEvents, PublishedIsInTopic, InTopic, Committed
<1> QED BY <1>1, <1>2, <1>3, <1>4, <1>5, <1>6 DEF Next

\* The invariant of the outbox and of its publishers.
THEOREM Invariance == Spec => []OutboxInv
BY InitInv, NextInv, PTL DEF Spec

\* Every variable keeps its type.
THEOREM TypeSafety == Spec => []TypeOK
BY Invariance, PTL DEF OutboxInv

\* A stored review has one event row and an event row has one stored review,
\* however many requests run at once and whichever of them roll back.
THEOREM ReviewsAndEventsMatch == Spec => []OneEventPerReview
BY Invariance, PTL DEF OutboxInv

\* A row says published only when its event is in the log.
THEOREM PublishedMeansStored == Spec => []PublishedIsInTopic
BY Invariance, PTL DEF OutboxInv, LogInv

\* The log never holds an event of a review that is not stored.
THEOREM NoEventWithoutReview == Spec => []NoPhantomEvents
BY Invariance, PTL DEF OutboxInv, LogInv

\* Two publishers never work on the same row, nor one on a row that is done.
THEOREM LocksExclude == Spec => []ClaimsAreExclusive
BY Invariance, PTL DEF OutboxInv, HoldInv

\* A published row stays as it is, for ever.
THEOREM PublishedStays == Spec => PublishedIsFinal
<1> DEFINE Final == \A r \in Ids : outbox[r].status = "published" => outbox'[r] = outbox[r]
<1>1. OutboxInv /\ [Next]_vars => [Final]_vars
  <2> SUFFICES ASSUME OutboxInv, Next PROVE Final
    OBVIOUS
  <2>1. CASE \E i \in Instances : RequestStep(i)
    <3>1. PICK i \in Instances : RequestStep(i)
      BY <2>1
    <3>2. CASE Commit(i)
      <4>1. tx[i].id \in Ids => outbox[tx[i].id].status = "absent"
        BY <3>2 DEF Commit, OutboxInv, TxInv, OpenRows, Committed
      <4> QED BY <3>2, <4>1 DEF Commit, OutboxInv, TypeOK
    <3> QED BY <3>1, <3>2 DEF RequestStep, FlushReview, InsertOutbox, Rollback
  <2>2. ASSUME NEW p \in Publishers, pc[p] \notin {"down", "idle"},
               NEW s \in {"published", "failed"}, SetStatus(p, s)
        PROVE  Final
    BY <2>2, LockFacts, SetStatusFacts DEF Unpublished
  <2>3. ASSUME NEW p \in Publishers, PublisherStep(p) PROVE Final
    <3>1. CASE MarkPublished(p) \/ MarkFailed(p)
      BY <2>2, <3>1 DEF MarkPublished, MarkFailed, Finish
    <3> QED BY <2>3, <3>1 DEF PublisherStep, Start, Claim, Send, BrokerAck
  <2>4. ASSUME NEW p \in Publishers, FaultStep(p) PROVE Final
    <3>1. CASE CommitAnswerLost(p)
      BY <2>2, <3>1 DEF CommitAnswerLost
    <3> QED BY <2>4, <3>1 DEF FaultStep, BrokerAckLost, BrokerRefuses, WaitTimeout, Crash
  <2>5. CASE StrayStep \/ \E p \in Publishers : LateStep(p)
    BY <2>5 DEF StrayStep, LateStep, StrayAppended, StrayLost, LateAck, LateExpired
  <2> QED BY <2>1, <2>3, <2>4, <2>5 DEF Next
<1> QED BY <1>1, Invariance, PTL DEF Spec, PublishedIsFinal

----------------------------------------------------------------------------
(* Every copy beyond the first has its fault.  A timeout and a crash pay   *)
(* in advance: for each record that may still reach the log although       *)
(* nobody waits for it, and for each row whose event is in the log and     *)
(* that will be sent again.                                                *)

LateRecords == {m \in Publishers \X Ids \X Nat : m[3] \in 1..late[m[1]][m[2]]}
StrayRecords == {m \in Ids \X Nat : m[2] \in 1..stray[m[1]]}

ToRepeat(r) ==
    /\ Unpublished(r) /\ InTopic(outbox[r].review)
    /\ \A p \in Publishers : hold[p] = r => pc[p] # "acked"
Repeats == {r \in Ids : ToRepeat(r)}
Distinct == {v \in Ids : InTopic(v)}

Finite == IsFiniteSet(Copies) /\ IsFiniteSet(LateRecords) /\ IsFiniteSet(StrayRecords)

CountInv ==
    /\ OutboxInv
    /\ Finite
    /\ Cardinality(Copies) + Cardinality(LateRecords) + Cardinality(StrayRecords) + Cardinality(Repeats)
         <= Cardinality(Distinct) + faults

LEMMA CopyFacts ==
    /\ \A m : m \in Copies <=> \E k \in Partitions : \E n \in 1..Len(topic[k]) : m = <<k, n>>
    /\ \A m : m \in Copies' <=> \E k \in Partitions : \E n \in 1..Len(topic'[k]) : m = <<k, n>>
<1> DEFINE Of(k) == {<<k, n>> : n \in 1..Len(topic[k])}
           OfNext(k) == {<<k, n>> : n \in 1..Len(topic'[k])}
<1>1. \A m : m \in Copies <=> \E k \in Partitions : m \in Of(k)
  BY DEF Copies
<1>2. \A m : m \in Copies' <=> \E k \in Partitions : m \in OfNext(k)
  BY DEF Copies
<1> QED BY <1>1, <1>2

\* Set arithmetic.
LEMMA UnionBound ==
    ASSUME NEW S, NEW T, NEW U, IsFiniteSet(T), IsFiniteSet(U), S \subseteq T \cup U
    PROVE  IsFiniteSet(S) /\ Cardinality(S) <= Cardinality(T) + Cardinality(U)
<1>1. IsFiniteSet(T \cup U) /\ IsFiniteSet(T \cap U)
      /\ Cardinality(T \cup U) = Cardinality(T) + Cardinality(U) - Cardinality(T \cap U)
  BY FS_Union, FS_Subset
<1>2. IsFiniteSet(S) /\ Cardinality(S) <= Cardinality(T \cup U)
  BY <1>1, FS_Subset
<1>3. /\ Cardinality(S) \in Nat /\ Cardinality(T) \in Nat /\ Cardinality(U) \in Nat
      /\ Cardinality(T \cap U) \in Nat
  BY <1>1, <1>2, FS_CardinalityType
<1> QED BY <1>1, <1>2, <1>3

LEMMA OneMore ==
    ASSUME NEW S, NEW T, NEW x, IsFiniteSet(T), S \subseteq T, x \in T \ S
    PROVE  IsFiniteSet(S) /\ Cardinality(S) + 1 <= Cardinality(T)
<1>1. IsFiniteSet(S)
  BY FS_Subset
<1>2. IsFiniteSet(S \cup {x}) /\ Cardinality(S \cup {x}) = Cardinality(S) + 1
  BY <1>1, FS_AddElement
<1>3. S \cup {x} \subseteq T
  OBVIOUS
<1> QED BY <1>1, <1>2, <1>3, FS_Subset

LEMMA OneLess ==
    ASSUME NEW S, NEW T, NEW x, IsFiniteSet(T), S \subseteq T \cup {x}
    PROVE  IsFiniteSet(S) /\ Cardinality(S) <= Cardinality(T) + 1
BY UnionBound, FS_Singleton

LEMMA IdsFinite ==
    /\ IsFiniteSet(Repeats) /\ Cardinality(Repeats) \in Nat
    /\ IsFiniteSet(Distinct) /\ Cardinality(Distinct) \in Nat
    /\ IsFiniteSet(Repeats') /\ Cardinality(Repeats') \in Nat
    /\ IsFiniteSet(Distinct') /\ Cardinality(Distinct') \in Nat
<1>1. IsFiniteSet(Ids)
  BY BoundsAssumption, FS_Interval DEF Ids
<1>2. /\ Repeats \subseteq Ids /\ Distinct \subseteq Ids
      /\ Repeats' \subseteq Ids /\ Distinct' \subseteq Ids
  BY DEF Repeats, Distinct
<1> QED BY <1>1, <1>2, FS_Subset, FS_CardinalityType

\* The figures of CountInv after a step; it balances if their changes do.
Figures(c, l, s, u, d, f) ==
    /\ c = Cardinality(Copies') /\ l = Cardinality(LateRecords') /\ s = Cardinality(StrayRecords')
    /\ u = Cardinality(Repeats') /\ d = Cardinality(Distinct') /\ f = faults'

LEMMA Books ==
    ASSUME OutboxInv', Finite'
    PROVE  \E c, l, s, u, d, f \in Nat : Figures(c, l, s, u, d, f)
<1>1. /\ Cardinality(Copies') \in Nat /\ Cardinality(LateRecords') \in Nat
      /\ Cardinality(StrayRecords') \in Nat
  BY FS_CardinalityType DEF Finite
<1>2. faults' \in Nat
  BY DEF OutboxInv, TypeOK
<1> QED BY <1>1, <1>2, IdsFinite DEF Figures

LEMMA OldBooks ==
    ASSUME CountInv
    PROVE  /\ IsFiniteSet(Copies) /\ IsFiniteSet(LateRecords) /\ IsFiniteSet(StrayRecords)
           /\ Cardinality(Copies) \in Nat /\ Cardinality(LateRecords) \in Nat
           /\ Cardinality(StrayRecords) \in Nat /\ faults \in Nat
BY FS_CardinalityType DEF CountInv, Finite, OutboxInv, TypeOK

LEMMA Balance ==
    ASSUME CountInv, OutboxInv', Finite',
           NEW c \in Nat, NEW l \in Nat, NEW s \in Nat, NEW u \in Nat, NEW d \in Nat, NEW f \in Nat,
           Figures(c, l, s, u, d, f),
           (c - Cardinality(Copies)) + (l - Cardinality(LateRecords)) + (s - Cardinality(StrayRecords))
             + (u - Cardinality(Repeats)) <= (d - Cardinality(Distinct)) + (f - faults)
    PROVE  CountInv'
<1>1. c + l + s + u <= d + f
  <2> DEFINE c0 == Cardinality(Copies)
             l0 == Cardinality(LateRecords)
             s0 == Cardinality(StrayRecords)
             u0 == Cardinality(Repeats)
             d0 == Cardinality(Distinct)
  <2>1. c0 \in Nat /\ l0 \in Nat /\ s0 \in Nat /\ u0 \in Nat /\ d0 \in Nat /\ faults \in Nat
    BY OldBooks, IdsFinite
  <2>2. c0 + l0 + s0 + u0 <= d0 + faults
    BY DEF CountInv
  <2>3. (c - c0) + (l - l0) + (s - s0) + (u - u0) <= (d - d0) + (f - faults)
    OBVIOUS
  <2> HIDE DEF c0, l0, s0, u0, d0
  <2> QED BY <2>1, <2>2, <2>3
<1>2. Cardinality(Copies') + Cardinality(LateRecords') + Cardinality(StrayRecords') + Cardinality(Repeats')
        <= Cardinality(Distinct') + faults'
  BY <1>1 DEF Figures
<1> QED BY <1>2 DEF CountInv

\* A step that sends nothing.
LEMMA QuietStep ==
    ASSUME CountInv, OutboxInv', UNCHANGED topic, faults' >= faults,
           LateRecords' \subseteq LateRecords, StrayRecords' \subseteq StrayRecords,
           Repeats' \subseteq Repeats
    PROVE  CountInv'
<1>1. Copies' = Copies /\ Distinct' = Distinct
  BY DEF Copies, Distinct, InTopic
<1>2. Finite'
  BY <1>1, OldBooks, FS_Subset DEF Finite
<1>3. PICK c \in Nat, l \in Nat, s \in Nat, u \in Nat, d \in Nat, f \in Nat : Figures(c, l, s, u, d, f)
  BY <1>2, Books
<1>4. c = Cardinality(Copies) /\ d = Cardinality(Distinct) /\ f >= faults
  BY <1>1, <1>3 DEF Figures
<1>5. l <= Cardinality(LateRecords) /\ s <= Cardinality(StrayRecords) /\ u <= Cardinality(Repeats)
  BY <1>3, OldBooks, IdsFinite, FS_Subset DEF Figures
<1>6. (c - Cardinality(Copies)) + (l - Cardinality(LateRecords)) + (s - Cardinality(StrayRecords))
        + (u - Cardinality(Repeats)) <= (d - Cardinality(Distinct)) + (f - faults)
  BY <1>4, <1>5, OldBooks, IdsFinite
<1> QED BY <1>2, <1>3, <1>6, Balance

LEMMA QuietCount ==
    ASSUME CountInv, NEW p \in Publishers,
           Start(p) \/ (\E r \in Ids : Claim(p, r)) \/ Send(p) \/ BrokerRefuses(p)
             \/ MarkPublished(p) \/ MarkFailed(p)
    PROVE  CountInv'
<1>1. OutboxInv'
  BY LoopInv, MarkInv DEF CountInv
<1>2. UNCHANGED <<late, stray, topic>> /\ faults' >= faults
  BY DEF Start, Claim, Send, BrokerRefuses, MarkPublished, MarkFailed, Finish, Fault, CountInv,
         OutboxInv, TypeOK
<1>3. LateRecords' = LateRecords /\ StrayRecords' = StrayRecords
  BY <1>2 DEF LateRecords, StrayRecords
<1>4. \A v : InTopic(v)' <=> InTopic(v)
  BY <1>2 DEF InTopic
<1>5. ASSUME NEW r \in Ids, ToRepeat(r)' PROVE ToRepeat(r)
  <2>1. CASE Start(p) \/ (\E q \in Ids : Claim(p, q)) \/ Send(p) \/ BrokerRefuses(p)
    <3>1. /\ outbox' = outbox /\ pc[p] # "acked"
          /\ \A q \in Publishers \ {p} : pc'[q] = pc[q] /\ hold'[q] = hold[q]
      BY <2>1 DEF Start, Claim, Send, BrokerRefuses, CountInv, OutboxInv, TypeOK
    <3> QED BY <1>4, <1>5, <3>1 DEF ToRepeat, Unpublished
  <2>2. ASSUME NEW x \in {"published", "failed"}, Finish(p, x), pc[p] \in {"acked", "failing"},
               x = "published" <=> pc[p] = "acked"
        PROVE  ToRepeat(r)
    <3>1. /\ outbox'[hold[p]].status = x
          /\ \A q \in Ids : outbox'[q].review = outbox[q].review
          /\ \A q \in Ids \ {hold[p]} : outbox'[q] = outbox[q]
      BY <2>2, SetStatusFacts DEF Finish, CountInv
    <3>2. Unpublished(hold[p])
      BY <2>2, LockFacts DEF CountInv
    <3>3. \A q \in Publishers \ {p} : pc'[q] = pc[q] /\ hold'[q] = hold[q] /\ hold[q] # hold[p]
      BY <2>2, LockFacts DEF Finish, CountInv, OutboxInv, TypeOK
    <3>4. CASE r = hold[p]
      BY <1>4, <1>5, <2>2, <3>1, <3>2, <3>3, <3>4 DEF ToRepeat, Unpublished
    <3>5. CASE r # hold[p]
      BY <1>4, <1>5, <3>1, <3>3, <3>5 DEF ToRepeat, Unpublished
    <3> QED BY <3>4, <3>5
  <2> QED BY <2>1, <2>2 DEF MarkPublished, MarkFailed
<1> QED BY <1>1, <1>2, <1>3, <1>5, QuietStep DEF Repeats

\* A request adds rows that were never sent.
LEMMA RequestCount == ASSUME CountInv, NEW i \in Instances, RequestStep(i) PROVE CountInv'
<1>1. OutboxInv'
  BY FlushReviewInv, InsertOutboxInv, CommitInv, RollbackInv DEF RequestStep, CountInv
<1>2. UNCHANGED <<pc, hold, late, stray, topic, faults>>
  BY DEF RequestStep, FlushReview, InsertOutbox, Commit, Rollback, pubVars
<1>3. LateRecords' = LateRecords /\ StrayRecords' = StrayRecords
  BY <1>2 DEF LateRecords, StrayRecords
<1>4. \A v : InTopic(v)' <=> InTopic(v)
  BY <1>2 DEF InTopic
<1>5. ASSUME NEW r \in Ids, ToRepeat(r)' PROVE ToRepeat(r)
  <2>1. CASE Commit(i) /\ r = tx[i].id
    <3>1. outbox'[r].review = tx[i].review /\ tx[i].review \notin reviews
      BY <2>1 DEF Commit, CountInv, OutboxInv, TypeOK, TxInv, OpenReviews, OpenRows
    <3>2. ~InTopic(tx[i].review)
      BY <3>1 DEF InTopic, CountInv, OutboxInv, LogInv, NoPhantomEvents
    <3> QED BY <1>4, <1>5, <3>1, <3>2 DEF ToRepeat
  <2>2. CASE ~(Commit(i) /\ r = tx[i].id)
    <3>1. outbox'[r] = outbox[r]
      BY <2>2 DEF RequestStep, FlushReview, InsertOutbox, Commit, Rollback, CountInv, OutboxInv, TypeOK
    <3> QED BY <1>2, <1>4, <1>5, <3>1 DEF ToRepeat, Unpublished
  <2> QED BY <2>1, <2>2
<1>6. faults' >= faults
  BY <1>2 DEF CountInv, OutboxInv, TypeOK
<1> QED BY <1>1, <1>2, <1>3, <1>5, <1>6, QuietStep DEF Repeats

\* What one more copy changes: it is the first of its event, or a repetition.
LEMMA CopyAdded ==
    ASSUME CountInv, NEW r \in Ids, Committed(r), AppendCopy(r), UNCHANGED <<reviews, outbox>>
    PROVE  /\ IsFiniteSet(Copies') /\ Cardinality(Copies') <= Cardinality(Copies) + 1
           /\ \A v : InTopic(v)' <=> InTopic(v) \/ v = outbox[r].review
           /\ IF InTopic(outbox[r].review) THEN Cardinality(Distinct') >= Cardinality(Distinct)
                                           ELSE Cardinality(Distinct') >= Cardinality(Distinct) + 1
           /\ \A q \in Ids \ {r} : Committed(q) => (InTopic(outbox[q].review)' <=> InTopic(outbox[q].review))
<1> DEFINE v == outbox[r].review
<1>1. v \in Ids
  BY DEF CountInv, OutboxInv, OneEventPerReview, TypeOK
<1>2. PICK k \in Partitions : topic' = [topic EXCEPT ![k] = Append(topic[k], v)]
  BY DEF AppendCopy
<1>3. /\ topic'[k] = Append(topic[k], v) /\ topic[k] \in Seq(Ids)
      /\ \A j \in Partitions \ {k} : topic'[j] = topic[j]
  BY <1>2 DEF CountInv, OutboxInv, TypeOK
<1>4. /\ Len(topic'[k]) = Len(topic[k]) + 1 /\ Len(topic[k]) \in Nat
      /\ \A n \in 1..Len(topic[k]) : topic'[k][n] = topic[k][n]
      /\ topic'[k][Len(topic[k]) + 1] = v
  BY <1>1, <1>3
<1>5. Copies' \subseteq Copies \cup {<<k, Len(topic[k]) + 1>>}
  <2> SUFFICES ASSUME NEW m \in Copies' PROVE m \in Copies \cup {<<k, Len(topic[k]) + 1>>}
    OBVIOUS
  <2>1. PICK j \in Partitions : \E n \in 1..Len(topic'[j]) : m = <<j, n>>
    BY CopyFacts
  <2>2. PICK n \in 1..Len(topic'[j]) : m = <<j, n>>
    BY <2>1
  <2>3. (j = k /\ n = Len(topic[k]) + 1) \/ n \in 1..Len(topic[j])
    BY <1>3, <1>4
  <2> QED BY <2>2, <2>3, CopyFacts
<1>6. ASSUME NEW w PROVE InTopic(w)' <=> InTopic(w) \/ w = v
  <2>1. ASSUME InTopic(w) PROVE InTopic(w)'
    BY <2>1, AppendCopyFacts DEF CountInv
  <2>2. InTopic(v)'
    BY <1>2, <1>3, <1>4 DEF InTopic
  <2>3. ASSUME InTopic(w)', w # v PROVE InTopic(w)
    <3>1. PICK j \in Partitions : \E n \in 1..Len(topic'[j]) : topic'[j][n] = w
      BY <2>3 DEF InTopic
    <3>2. PICK n \in 1..Len(topic'[j]) : topic'[j][n] = w
      BY <3>1
    <3>3. n \in 1..Len(topic[j]) /\ topic[j][n] = w
      <4>1. CASE j = k
        BY <1>4, <2>3, <3>2, <4>1
      <4>2. CASE j # k
        BY <1>3, <3>2, <4>2
      <4> QED BY <4>1, <4>2
    <3> QED BY <3>3 DEF InTopic
  <2> QED BY <2>1, <2>2, <2>3
<1>7. Distinct \subseteq Distinct' /\ (~InTopic(v) => v \in Distinct' \ Distinct)
  BY <1>1, <1>6 DEF Distinct
<1>8. IF InTopic(v) THEN Cardinality(Distinct') >= Cardinality(Distinct)
                    ELSE Cardinality(Distinct') >= Cardinality(Distinct) + 1
  <2>1. Cardinality(Distinct) <= Cardinality(Distinct')
    BY <1>7, IdsFinite, FS_Subset
  <2>2. ~InTopic(v) => Cardinality(Distinct) + 1 <= Cardinality(Distinct')
    BY <1>7, IdsFinite, OneMore
  <2> QED BY <2>1, <2>2, IdsFinite
<1>9. ASSUME NEW q \in Ids \ {r}, Committed(q)
      PROVE  InTopic(outbox[q].review)' <=> InTopic(outbox[q].review)
  <2>1. outbox[q].review # v /\ outbox' = outbox
    BY <1>9 DEF CountInv, OutboxInv, OneEventPerReview
  <2> QED BY <1>6, <2>1
<1>10. IsFiniteSet(Copies') /\ Cardinality(Copies') <= Cardinality(Copies) + 1
  BY <1>5, OldBooks, OneLess
<1> QED BY <1>6, <1>8, <1>9, <1>10

\* A record in flight that arrives or is lost.
LEMMA LateLess ==
    ASSUME CountInv, NEW p \in Publishers, NEW r \in Ids, late[p][r] > 0,
           late' = [late EXCEPT ![p][r] = @ - 1]
    PROVE  /\ LateRecords' \subseteq LateRecords
           /\ IsFiniteSet(LateRecords') /\ Cardinality(LateRecords') + 1 <= Cardinality(LateRecords)
<1> DEFINE x == <<p, r, late[p][r]>>
<1>1. \A q \in Publishers, z \in Ids :
          /\ late[q][z] \in Nat
          /\ late'[q][z] = IF q = p /\ z = r THEN late[p][r] - 1 ELSE late[q][z]
  BY DEF CountInv, OutboxInv, TypeOK
<1>2. x \in LateRecords \ LateRecords'
  <2>1. x \in Publishers \X Ids \X Nat /\ x[1] = p /\ x[2] = r /\ x[3] = late[p][r]
    BY <1>1
  <2>2. late[p][r] \in 1..late[p][r] /\ late[p][r] \notin 1..late'[p][r]
    BY <1>1
  <2> QED BY <2>1, <2>2 DEF LateRecords
<1>3. ASSUME NEW m \in LateRecords' PROVE m \in LateRecords
  <2>1. m \in Publishers \X Ids \X Nat /\ m[3] \in 1..late'[m[1]][m[2]]
    BY DEF LateRecords
  <2>2. m[1] \in Publishers /\ m[2] \in Ids
    BY <2>1
  <2>3. m[3] \in 1..late[m[1]][m[2]]
    BY <1>1, <2>1, <2>2
  <2> QED BY <2>1, <2>3 DEF LateRecords
<1> HIDE DEF x
<1> QED BY <1>2, <1>3, OldBooks, OneMore

LEMMA StrayLess ==
    ASSUME CountInv, NEW r \in Ids, stray[r] > 0, stray' = [stray EXCEPT ![r] = @ - 1]
    PROVE  /\ StrayRecords' \subseteq StrayRecords
           /\ IsFiniteSet(StrayRecords') /\ Cardinality(StrayRecords') + 1 <= Cardinality(StrayRecords)
<1> DEFINE x == <<r, stray[r]>>
<1>1. \A z \in Ids : stray[z] \in Nat /\ stray'[z] = IF z = r THEN stray[r] - 1 ELSE stray[z]
  BY DEF CountInv, OutboxInv, TypeOK
<1>2. x \in StrayRecords \ StrayRecords'
  <2>1. x \in Ids \X Nat /\ x[1] = r /\ x[2] = stray[r]
    BY <1>1
  <2>2. stray[r] \in 1..stray[r] /\ stray[r] \notin 1..stray'[r]
    BY <1>1
  <2> QED BY <2>1, <2>2 DEF StrayRecords
<1>3. ASSUME NEW m \in StrayRecords' PROVE m \in StrayRecords
  <2>1. m \in Ids \X Nat /\ m[2] \in 1..stray'[m[1]]
    BY DEF StrayRecords
  <2>2. m[2] \in 1..stray[m[1]]
    BY <1>1, <2>1
  <2> QED BY <2>1, <2>2 DEF StrayRecords
<1> HIDE DEF x
<1> QED BY <1>2, <1>3, OldBooks, OneMore

\* A copy that no acknowledgement takes note of: if it is the first of its event,
\* there is an event more, but its row may be sent again.
LEMMA UnnoticedCopy ==
    ASSUME CountInv, NEW r \in Ids, Committed(r), AppendCopy(r), UNCHANGED <<reviews, outbox, pc, hold>>
    PROVE  IF InTopic(outbox[r].review) THEN Cardinality(Repeats') <= Cardinality(Repeats)
                                        ELSE Cardinality(Repeats') <= Cardinality(Repeats) + 1
<1>1. ASSUME NEW q \in Ids, ToRepeat(q)', q # r \/ InTopic(outbox[r].review) PROVE ToRepeat(q)
  <2>1. Committed(q)
    BY <1>1 DEF ToRepeat, Unpublished, Committed
  <2>2. InTopic(outbox[q].review)
    BY <1>1, <2>1, CopyAdded DEF ToRepeat
  <2> QED BY <1>1, <2>2 DEF ToRepeat, Unpublished
<1>2. Repeats' \subseteq Repeats \cup {r}
  BY <1>1 DEF Repeats
<1>3. InTopic(outbox[r].review) => Repeats' \subseteq Repeats
  BY <1>1 DEF Repeats
<1> QED BY <1>2, <1>3, IdsFinite, OneLess, FS_Subset

LEMMA ArrivalCount ==
    ASSUME CountInv, StrayStep \/ (\E p \in Publishers : LateStep(p)) PROVE CountInv'
<1>1. OutboxInv'
  BY LateInv, StrayInv DEF LateStep, StrayStep, CountInv
<1>2. ASSUME NEW p \in Publishers, NEW q \in Ids, LateExpired(p, q) PROVE CountInv'
  <2>1. UNCHANGED <<outbox, pc, hold, stray, topic, faults>>
    BY <1>2 DEF LateExpired
  <2>2. LateRecords' \subseteq LateRecords /\ StrayRecords' = StrayRecords
    BY <1>2, <2>1, LateLess DEF LateExpired, StrayRecords
  <2>3. Repeats' = Repeats
    BY <2>1 DEF Repeats, ToRepeat, Unpublished, InTopic
  <2> QED BY <1>1, <2>1, <2>2, <2>3, OldBooks, QuietStep
<1>3. ASSUME NEW q \in Ids, StrayLost(q) PROVE CountInv'
  <2>1. UNCHANGED <<outbox, pc, hold, late, topic, faults>>
    BY <1>3 DEF StrayLost
  <2>2. StrayRecords' \subseteq StrayRecords /\ LateRecords' = LateRecords
    BY <1>3, <2>1, StrayLess DEF StrayLost, LateRecords
  <2>3. Repeats' = Repeats
    BY <2>1 DEF Repeats, ToRepeat, Unpublished, InTopic
  <2> QED BY <1>1, <2>1, <2>2, <2>3, OldBooks, QuietStep
<1>4. ASSUME NEW q \in Ids, AppendCopy(q), Committed(q),
             UNCHANGED <<reviews, outbox, pc, hold, faults>>,
             \/ /\ IsFiniteSet(LateRecords') /\ StrayRecords' = StrayRecords
                /\ Cardinality(LateRecords') + 1 <= Cardinality(LateRecords)
             \/ /\ IsFiniteSet(StrayRecords') /\ LateRecords' = LateRecords
                /\ Cardinality(StrayRecords') + 1 <= Cardinality(StrayRecords)
      PROVE  CountInv'
  <2>1. Finite'
    BY <1>4, CopyAdded, OldBooks DEF Finite
  <2>2. PICK c \in Nat, l \in Nat, s \in Nat, u \in Nat, d \in Nat, f \in Nat : Figures(c, l, s, u, d, f)
    BY <1>1, <2>1, Books
  <2>3. f = faults /\ c <= Cardinality(Copies) + 1
    BY <1>4, <2>2, CopyAdded DEF Figures
  <2>4. \/ u <= Cardinality(Repeats) /\ d >= Cardinality(Distinct)
        \/ u <= Cardinality(Repeats) + 1 /\ d >= Cardinality(Distinct) + 1
    BY <1>4, <2>2, CopyAdded, UnnoticedCopy DEF Figures
  <2>5. \/ l + 1 <= Cardinality(LateRecords) /\ s = Cardinality(StrayRecords)
        \/ s + 1 <= Cardinality(StrayRecords) /\ l = Cardinality(LateRecords)
    BY <1>4, <2>2 DEF Figures
  <2>6. (c - Cardinality(Copies)) + (l - Cardinality(LateRecords)) + (s - Cardinality(StrayRecords))
          + (u - Cardinality(Repeats)) <= (d - Cardinality(Distinct)) + (f - faults)
    BY <2>3, <2>4, <2>5, OldBooks, IdsFinite
  <2> QED BY <1>1, <2>1, <2>2, <2>6, Balance
<1>5. ASSUME NEW p \in Publishers, NEW q \in Ids, LateAck(p, q) PROVE CountInv'
  <2>1. Committed(q)
    BY <1>5 DEF LateAck, CountInv, OutboxInv, FlightInv
  <2> QED BY <1>4, <1>5, <2>1, LateLess DEF LateAck, StrayRecords, dbVars
<1>6. ASSUME NEW q \in Ids, StrayAppended(q) PROVE CountInv'
  <2>1. Committed(q)
    BY <1>6 DEF StrayAppended, CountInv, OutboxInv, FlightInv
  <2> QED BY <1>4, <1>6, <2>1, StrayLess DEF StrayAppended, LateRecords, dbVars
<1> QED BY <1>2, <1>3, <1>5, <1>6 DEF StrayStep, LateStep

\* The producer's own copies: an acknowledged one is the first of its event, or the
\* repetition that its row stood for; one whose acknowledgement is lost costs a fault.
LEMMA BrokerCount ==
    ASSUME CountInv, NEW p \in Publishers, BrokerAck(p) \/ BrokerAckLost(p) PROVE CountInv'
<1>1. OutboxInv'
  BY BrokerInv DEF CountInv
<1>2. /\ AppendCopy(hold[p]) /\ UNCHANGED <<reviews, outbox, hold, late, stray>>
      /\ pc[p] = "sent" /\ pc \in [Publishers -> {"down", "idle", "claimed", "sent", "acked", "failing"}]
  BY DEF BrokerAck, BrokerAckLost, dbVars, pubVars, CountInv, OutboxInv, TypeOK
<1>3. PICK r \in Ids :
         /\ r = hold[p] /\ AppendCopy(r) /\ Committed(r) /\ Unpublished(r)
         /\ \A q \in Publishers \ {p} : hold[q] # r
  BY <1>2, LockFacts DEF CountInv
<1>4. LateRecords' = LateRecords /\ StrayRecords' = StrayRecords
  BY <1>2 DEF LateRecords, StrayRecords
<1>5. Finite'
  BY <1>2, <1>3, <1>4, CopyAdded, OldBooks DEF Finite
<1>6. PICK c \in Nat, l \in Nat, s \in Nat, u \in Nat, d \in Nat, f \in Nat : Figures(c, l, s, u, d, f)
  BY <1>1, <1>5, Books
<1>7. /\ c <= Cardinality(Copies) + 1
      /\ l = Cardinality(LateRecords) /\ s = Cardinality(StrayRecords)
      /\ IF InTopic(outbox[r].review) THEN d >= Cardinality(Distinct) ELSE d >= Cardinality(Distinct) + 1
  BY <1>2, <1>3, <1>4, <1>6, CopyAdded DEF Figures
<1>8. CASE BrokerAckLost(p)
  <2>1. UNCHANGED pc /\ f = faults + 1
    BY <1>6, <1>8 DEF BrokerAckLost, Fault, pubVars, Figures
  <2>2. IF InTopic(outbox[r].review) THEN u <= Cardinality(Repeats) ELSE u <= Cardinality(Repeats) + 1
    BY <1>2, <1>3, <1>6, <2>1, UnnoticedCopy DEF Figures
  <2>3. (c - Cardinality(Copies)) + (l - Cardinality(LateRecords)) + (s - Cardinality(StrayRecords))
          + (u - Cardinality(Repeats)) <= (d - Cardinality(Distinct)) + (f - faults)
    BY <1>7, <2>1, <2>2, OldBooks, IdsFinite
  <2> QED BY <1>1, <1>5, <1>6, <2>3, Balance
<1>9. CASE BrokerAck(p)
  <2>1. /\ pc'[p] = "acked" /\ \A q \in Publishers \ {p} : pc'[q] = pc[q]
        /\ f = faults
    BY <1>2, <1>6, <1>9 DEF BrokerAck, Figures
  <2>2. ~ToRepeat(r)'
    BY <1>2, <1>3, <2>1 DEF ToRepeat
  <2>3. ASSUME NEW q \in Ids, ToRepeat(q)' PROVE ToRepeat(q)
    <3>1. q # r /\ Committed(q)
      BY <1>2, <2>2, <2>3 DEF ToRepeat, Unpublished, Committed
    <3>2. InTopic(outbox[q].review)
      BY <1>2, <1>3, <2>3, <3>1, CopyAdded DEF ToRepeat
    <3>3. \A o \in Publishers : hold[o] = q => pc[o] # "acked"
      BY <1>2, <1>3, <2>1, <2>3, <3>1 DEF ToRepeat
    <3> QED BY <1>2, <2>3, <3>2, <3>3 DEF ToRepeat, Unpublished
  <2>4. InTopic(outbox[r].review) => ToRepeat(r)
    BY <1>2, <1>3 DEF ToRepeat
  <2>5. Repeats' \subseteq Repeats /\ (InTopic(outbox[r].review) => r \in Repeats \ Repeats')
    BY <1>3, <2>2, <2>3, <2>4 DEF Repeats
  <2>6. u <= Cardinality(Repeats) /\ (InTopic(outbox[r].review) => u + 1 <= Cardinality(Repeats))
    BY <1>6, <2>5, IdsFinite, FS_Subset, OneMore DEF Figures
  <2>7. (c - Cardinality(Copies)) + (l - Cardinality(LateRecords)) + (s - Cardinality(StrayRecords))
          + (u - Cardinality(Repeats)) <= (d - Cardinality(Distinct)) + (f - faults)
    BY <1>7, <2>1, <2>6, OldBooks, IdsFinite
  <2> QED BY <1>1, <1>5, <1>6, <2>7, Balance
<1> QED BY <1>8, <1>9

\* A timeout pays for the record it leaves behind.
LEMMA TimeoutCount ==
    ASSUME CountInv, NEW p \in Publishers, WaitTimeout(p) PROVE CountInv'
<1> DEFINE r == hold[p]
           x == <<p, r, late[p][r] + 1>>
<1>1. OutboxInv'
  BY LoopInv DEF CountInv
<1>2. /\ pc[p] = "sent" /\ pc' = [pc EXCEPT ![p] = "failing"]
      /\ late' = [late EXCEPT ![p][r] = @ + 1]
      /\ UNCHANGED <<outbox, hold, stray, topic>> /\ faults' = faults + 1
  BY DEF WaitTimeout, Fault
<1>3. r \in Ids
  BY <1>2, LockFacts DEF CountInv
<1> HIDE DEF r
<1>4. \A q \in Publishers, z \in Ids :
          /\ late[q][z] \in Nat
          /\ late'[q][z] = IF q = p /\ z = r THEN late[p][r] + 1 ELSE late[q][z]
  BY <1>2, <1>3 DEF CountInv, OutboxInv, TypeOK
<1>5. ASSUME NEW m \in LateRecords', m \notin LateRecords PROVE m = x
  <2>1. m \in Publishers \X Ids \X Nat /\ m[3] \in 1..late'[m[1]][m[2]] /\ m[3] \notin 1..late[m[1]][m[2]]
    BY <1>5 DEF LateRecords
  <2>2. m[1] \in Publishers /\ m[2] \in Ids /\ m[3] \in Nat /\ m = <<m[1], m[2], m[3]>>
    BY <2>1
  <2>3. m[1] = p /\ m[2] = r /\ m[3] = late[p][r] + 1
    BY <1>3, <1>4, <2>1, <2>2
  <2> QED BY <2>2, <2>3
<1> HIDE DEF x
<1>6. IsFiniteSet(LateRecords') /\ Cardinality(LateRecords') <= Cardinality(LateRecords) + 1
  BY <1>5, OldBooks, OneLess
<1>7. StrayRecords' = StrayRecords /\ Copies' = Copies /\ Distinct' = Distinct
  BY <1>2 DEF StrayRecords, Copies, Distinct, InTopic
<1>8. Repeats' = Repeats
  BY <1>2 DEF Repeats, ToRepeat, Unpublished, InTopic, CountInv, OutboxInv, TypeOK
<1>9. Finite'
  BY <1>6, <1>7, OldBooks DEF Finite
<1>10. PICK c \in Nat, l \in Nat, s \in Nat, u \in Nat, d \in Nat, f \in Nat : Figures(c, l, s, u, d, f)
  BY <1>1, <1>9, Books
<1>11. /\ c = Cardinality(Copies) /\ l <= Cardinality(LateRecords) + 1 /\ s = Cardinality(StrayRecords)
       /\ u = Cardinality(Repeats) /\ d = Cardinality(Distinct) /\ f = faults + 1
  BY <1>2, <1>6, <1>7, <1>8, <1>10 DEF Figures
<1>12. (c - Cardinality(Copies)) + (l - Cardinality(LateRecords)) + (s - Cardinality(StrayRecords))
         + (u - Cardinality(Repeats)) <= (d - Cardinality(Distinct)) + (f - faults)
  BY <1>11, OldBooks, IdsFinite
<1> QED BY <1>1, <1>9, <1>10, <1>12, Balance

\* The records of a process that ends become stray, one for one; the record it
\* waited for is one more.
LEMMA DieMovesRecords ==
    ASSUME CountInv, NEW p \in Publishers, Die(p)
    PROVE  /\ IsFiniteSet(LateRecords') /\ IsFiniteSet(StrayRecords')
           /\ Cardinality(LateRecords') + Cardinality(StrayRecords')
                <= Cardinality(LateRecords) + Cardinality(StrayRecords) + IF pc[p] = "sent" THEN 1 ELSE 0
<1> DEFINE h == hold[p]
           own == {m \in LateRecords : m[1] = p}
           move == [m \in own |-> <<m[2], stray[m[2]] + m[3]>>]
           moved == {move[m] : m \in own}
           extra == IF pc[p] = "sent" THEN {<<h, stray[h] + late[p][h] + 1>>} ELSE {}
<1>1. /\ \A r \in Ids : stray'[r] = stray[r] + late[p][r] + IF pc[p] = "sent" /\ h = r THEN 1 ELSE 0
      /\ \A q \in Publishers, r \in Ids : late'[q][r] = IF q = p THEN 0 ELSE late[q][r]
      /\ \A q \in Publishers, r \in Ids : late[q][r] \in Nat
      /\ \A r \in Ids : stray[r] \in Nat
  BY DEF Die, CountInv, OutboxInv, TypeOK
<1>2. /\ IsFiniteSet(own) /\ Cardinality(own) \in Nat
      /\ IsFiniteSet(LateRecords \ own)
      /\ Cardinality(LateRecords \ own) = Cardinality(LateRecords) - Cardinality(own)
  <2>1. own \subseteq LateRecords /\ LateRecords \cap own = own
    OBVIOUS
  <2> HIDE DEF own
  <2>2. IsFiniteSet(own) /\ Cardinality(own) \in Nat
    BY <2>1, OldBooks, FS_Subset, FS_CardinalityType
  <2>3. IsFiniteSet(LateRecords \ own)
        /\ Cardinality(LateRecords \ own) = Cardinality(LateRecords) - Cardinality(LateRecords \cap own)
    BY OldBooks, FS_Difference
  <2> QED BY <2>1, <2>2, <2>3
<1>3. IsFiniteSet(LateRecords') /\ Cardinality(LateRecords') <= Cardinality(LateRecords \ own)
  <2>1. ASSUME NEW m \in LateRecords' PROVE m \in LateRecords \ own
    <3>1. m \in Publishers \X Ids \X Nat /\ m[3] \in 1..late'[m[1]][m[2]]
      BY DEF LateRecords
    <3>2. m[1] \in Publishers /\ m[2] \in Ids
      BY <3>1
    <3>3. m[1] # p /\ m[3] \in 1..late[m[1]][m[2]]
      BY <1>1, <3>1, <3>2
    <3> QED BY <3>1, <3>3 DEF LateRecords
  <2> HIDE DEF own
  <2> QED BY <1>2, <2>1, FS_Subset
<1>4. IsFiniteSet(moved) /\ Cardinality(moved) <= Cardinality(own) /\ Cardinality(moved) \in Nat
  <2>1. move \in Surjection(own, moved)
    BY DEF Surjection
  <2> HIDE DEF own, move, moved
  <2> QED BY <1>2, <2>1, FS_Surjection, FS_CardinalityType
<1>5. IsFiniteSet(extra) /\ Cardinality(extra) = IF pc[p] = "sent" THEN 1 ELSE 0
  BY FS_Singleton, FS_EmptySet
<1>6. ASSUME NEW m \in StrayRecords' PROVE m \in (StrayRecords \cup moved) \cup extra
  <2>1. PICK r \in Ids, n \in Nat : m = <<r, n>> /\ n \in 1..stray'[r]
    BY DEF StrayRecords
  <2>2. stray[r] \in Nat /\ late[p][r] \in Nat
        /\ stray'[r] = stray[r] + late[p][r] + IF pc[p] = "sent" /\ h = r THEN 1 ELSE 0
    BY <1>1
  <2>3. CASE n <= stray[r]
    <3>1. m \in Ids \X Nat /\ m[1] = r /\ m[2] = n /\ n \in 1..stray[r]
      BY <2>1, <2>3, <2>2
    <3>2. m \in StrayRecords
      BY <3>1 DEF StrayRecords
    <3> QED BY <3>2
  <2>4. CASE n > stray[r] /\ n <= stray[r] + late[p][r]
    <3> DEFINE x == <<p, r, n - stray[r]>>
    <3>1. n - stray[r] \in Nat /\ n - stray[r] \in 1..late[p][r] /\ stray[r] + (n - stray[r]) = n
      BY <1>1, <2>1, <2>4
    <3>2. x \in own /\ x[2] = r /\ x[3] = n - stray[r]
      BY <3>1 DEF LateRecords
    <3> HIDE DEF own, x
    <3>3. move[x] = m
      BY <2>1, <3>1, <3>2
    <3> QED BY <3>2, <3>3
  <2>5. CASE n > stray[r] + late[p][r]
    <3>1. pc[p] = "sent" /\ h = r /\ n = stray[r] + late[p][r] + 1
      BY <2>1, <2>5, <2>2
    <3>2. m \in extra
      BY <2>1, <3>1
    <3> QED BY <3>2
  <2>6. n <= stray[r] \/ (n > stray[r] /\ n <= stray[r] + late[p][r]) \/ n > stray[r] + late[p][r]
    BY <2>1, <2>2
  <2> HIDE DEF own, move, moved, extra
  <2> QED BY <2>3, <2>4, <2>5, <2>6
<1> HIDE DEF own, move, moved, extra
<1>7. IsFiniteSet(StrayRecords')
      /\ Cardinality(StrayRecords') <= Cardinality(StrayRecords) + Cardinality(moved) + Cardinality(extra)
  <2>1. /\ IsFiniteSet(StrayRecords \cup moved) /\ Cardinality(StrayRecords \cup moved) \in Nat
        /\ Cardinality(StrayRecords \cup moved) <= Cardinality(StrayRecords) + Cardinality(moved)
    BY <1>4, OldBooks, UnionBound, FS_CardinalityType
  <2>2. /\ IsFiniteSet(StrayRecords') /\ Cardinality(StrayRecords') \in Nat
        /\ Cardinality(StrayRecords') <= Cardinality(StrayRecords \cup moved) + Cardinality(extra)
    BY <1>5, <1>6, <2>1, UnionBound, FS_CardinalityType
  <2> QED BY <1>4, <1>5, <2>1, <2>2, OldBooks
<1>8. PICK l \in Nat, s \in Nat : l = Cardinality(LateRecords') /\ s = Cardinality(StrayRecords')
  BY <1>3, <1>7, FS_CardinalityType
<1>9. l + s <= Cardinality(LateRecords) + Cardinality(StrayRecords) + Cardinality(extra)
  <2>1. l <= Cardinality(LateRecords) - Cardinality(own)
        /\ s <= Cardinality(StrayRecords) + Cardinality(moved) + Cardinality(extra)
    BY <1>2, <1>3, <1>7, <1>8
  <2>2. Cardinality(extra) \in Nat
    BY <1>5
  <2> QED BY <1>2, <1>4, <2>1, <2>2, OldBooks
<1> QED BY <1>3, <1>5, <1>7, <1>8, <1>9

\* The fault of a process that ends pays for the record it waited for, or for the
\* acknowledged row that it did not mark.
LEMMA CrashCount ==
    ASSUME CountInv, NEW p \in Publishers, Crash(p) \/ CommitAnswerLost(p) PROVE CountInv'
<1>1. OutboxInv' /\ Die(p) /\ faults' = faults + 1
  BY CrashInv DEF Crash, CommitAnswerLost, Fault, CountInv
<1>2. Copies' = Copies /\ Distinct' = Distinct /\ \A v : InTopic(v)' <=> InTopic(v)
  BY <1>1, DieFacts DEF Copies, Distinct, InTopic, CountInv
<1>3. Finite'
  BY <1>1, <1>2, DieMovesRecords, OldBooks DEF Finite
<1>4. ASSUME NEW r \in Ids, ToRepeat(r)' PROVE ToRepeat(r) \/ (pc[p] = "acked" /\ r = hold[p])
  <2>1. \A q \in Publishers \ {p} : pc'[q] = pc[q] /\ hold'[q] = hold[q]
    BY <1>1, DieFacts DEF CountInv
  <2>2. Unpublished(r) /\ outbox'[r].review = outbox[r].review
    <3>1. CASE Crash(p)
      BY <1>4, <3>1 DEF Crash, ToRepeat, Unpublished
    <3>2. CASE CommitAnswerLost(p)
      <4>1. PICK x \in {"published", "failed"} : SetStatus(p, x) /\ pc[p] \in {"acked", "failing"}
        BY <3>2 DEF CommitAnswerLost
      <4>2. Unpublished(hold[p]) /\ outbox'[r].review = outbox[r].review
            /\ (r # hold[p] => outbox'[r] = outbox[r])
        BY <4>1, LockFacts, SetStatusFacts DEF CountInv
      <4> QED BY <1>4, <4>2 DEF ToRepeat, Unpublished
    <3> QED BY <3>1, <3>2
  <2> QED BY <1>2, <1>4, <2>1, <2>2 DEF ToRepeat
<1>5. PICK c \in Nat, l \in Nat, s \in Nat, u \in Nat, d \in Nat, f \in Nat : Figures(c, l, s, u, d, f)
  BY <1>1, <1>3, Books
<1>6. IF pc[p] = "acked" THEN u <= Cardinality(Repeats) + 1 ELSE u <= Cardinality(Repeats)
  <2>1. Repeats' \subseteq Repeats \cup {hold[p]} /\ (pc[p] # "acked" => Repeats' \subseteq Repeats)
    BY <1>4 DEF Repeats
  <2> QED BY <1>5, <2>1, IdsFinite, OneLess, FS_Subset DEF Figures
<1>7. /\ c = Cardinality(Copies) /\ d = Cardinality(Distinct) /\ f = faults + 1
      /\ l + s <= Cardinality(LateRecords) + Cardinality(StrayRecords) + IF pc[p] = "sent" THEN 1 ELSE 0
  BY <1>1, <1>2, <1>5, DieMovesRecords DEF Figures
<1>8. l + s + u <= Cardinality(LateRecords) + Cardinality(StrayRecords) + Cardinality(Repeats) + 1
  <2>1. CASE pc[p] = "acked"
    BY <1>6, <1>7, <2>1, OldBooks, IdsFinite
  <2>2. CASE pc[p] # "acked"
    BY <1>6, <1>7, <2>2, OldBooks, IdsFinite
  <2> QED BY <2>1, <2>2
<1>9. (c - Cardinality(Copies)) + (l - Cardinality(LateRecords)) + (s - Cardinality(StrayRecords))
        + (u - Cardinality(Repeats)) <= (d - Cardinality(Distinct)) + (f - faults)
  BY <1>7, <1>8, OldBooks, IdsFinite
<1> QED BY <1>1, <1>3, <1>5, <1>9, Balance

LEMMA CountInitially == Init => CountInv
<1> SUFFICES ASSUME Init PROVE CountInv
  OBVIOUS
<1>1. Copies = {}
  <2> SUFFICES ASSUME NEW m \in Copies PROVE FALSE
    OBVIOUS
  <2> QED BY CopyFacts DEF Init
<1>2. LateRecords = {}
  <2> SUFFICES ASSUME NEW m \in LateRecords PROVE FALSE
    OBVIOUS
  <2>1. m \in Publishers \X Ids \X Nat /\ m[3] \in 1..late[m[1]][m[2]]
    BY DEF LateRecords
  <2>2. late[m[1]][m[2]] = 0
    BY <2>1 DEF Init
  <2> QED BY <2>1, <2>2
<1>3. StrayRecords = {}
  <2> SUFFICES ASSUME NEW m \in StrayRecords PROVE FALSE
    OBVIOUS
  <2>1. m \in Ids \X Nat /\ m[2] \in 1..stray[m[1]]
    BY DEF StrayRecords
  <2>2. stray[m[1]] = 0
    BY <2>1 DEF Init
  <2> QED BY <2>1, <2>2
<1>4. Repeats = {} /\ Distinct = {}
  BY DEF Init, Repeats, ToRepeat, Unpublished, Distinct, InTopic, NoRow
<1>5. faults = 0
  BY DEF Init
<1> QED BY <1>1, <1>2, <1>3, <1>4, <1>5, InitInv, FS_EmptySet DEF CountInv, Finite

LEMMA CountInductive == CountInv /\ [Next]_vars => CountInv'
<1> SUFFICES ASSUME CountInv, [Next]_vars PROVE CountInv'
  OBVIOUS
<1>1. CASE \E i \in Instances : RequestStep(i)
  BY <1>1, RequestCount
<1>2. CASE \E p \in Publishers : PublisherStep(p)
  BY <1>2, QuietCount, BrokerCount DEF PublisherStep
<1>3. CASE StrayStep \/ \E p \in Publishers : LateStep(p)
  BY <1>3, ArrivalCount
<1>4. CASE \E p \in Publishers : FaultStep(p)
  BY <1>4, QuietCount, BrokerCount, TimeoutCount, CrashCount DEF FaultStep
<1>5. CASE UNCHANGED vars
  <2>1. UNCHANGED <<outbox, pc, hold, late, stray, topic, faults>> /\ faults' >= faults
    BY <1>5 DEF vars, pubVars, CountInv, OutboxInv, TypeOK
  <2>2. OutboxInv'
    BY <1>5, NextInv DEF CountInv
  <2>3. UNCHANGED <<LateRecords, StrayRecords, Repeats>>
    BY <2>1 DEF LateRecords, StrayRecords, Repeats, ToRepeat, Unpublished, InTopic
  <2> QED BY <2>1, <2>2, <2>3, QuietStep
<1> QED BY <1>1, <1>2, <1>3, <1>4, <1>5 DEF Next

\* Every copy of an event beyond the first has a fault of its own, whatever the order
\* of timeouts, late deliveries, crashes and retries.
THEOREM DuplicatesCostFaults == Spec => []DuplicatesNeedFaults
<1>1. CountInv => DuplicatesNeedFaults
  <2> SUFFICES ASSUME CountInv PROVE DuplicatesNeedFaults
    OBVIOUS
  <2>1. Cardinality(Copies) + Cardinality(LateRecords) + Cardinality(StrayRecords) + Cardinality(Repeats)
          <= Cardinality(Distinct) + faults
    BY DEF CountInv
  <2>2. Cardinality(Copies) <= Cardinality(Distinct) + faults
    BY <2>1, OldBooks, IdsFinite
  <2> QED BY <2>2 DEF DuplicatesNeedFaults, Distinct
<1>2. Spec => []CountInv
  BY CountInitially, CountInductive, PTL DEF Spec
<1> QED BY <1>1, <1>2, PTL

----------------------------------------------------------------------------
(* The pipeline: the same instance of FeedConsumer, with the facts proved  *)
(* about it.                                                               *)

FP == INSTANCE FeedConsumerProofs WITH
            Events <- 1..MaxReviews, CreatedEvents <- 1..MaxReviews, MaxLog <- MaxReviews

PipeInv == OutboxInv /\ FP!FeedInv

----------------------------------------------------------------------------
(* The definitions of the pipeline are those the facts are about.          *)

LEMMA SameFeedInit == Feed!Init <=> FP!Init
BY ZenonT(30) DEF Feed!NoOffset, FP!NoOffset, Feed!NoPartition, FP!NoPartition, Feed!Init, FP!Init

LEMMA SameFeedNext == Feed!FeedNext <=> FP!FeedNext
BY ZenonT(60)
   DEF
       Feed!IsFiniteSet, FP!IsFiniteSet, Feed!Cardinality, FP!Cardinality, Feed!Orphaned,
       FP!Orphaned, Feed!NoOffset, FP!NoOffset, Feed!StartOffset, FP!StartOffset,
       Feed!Rebalance, FP!Rebalance, Feed!GroupStep, FP!GroupStep, Feed!Join, FP!Join,
       Feed!Rejoin, FP!Rejoin, Feed!Save, FP!Save, Feed!Skip, FP!Skip, Feed!CommitOffsets,
       FP!CommitOffsets, Feed!CommitRefused, FP!CommitRefused, Feed!Poll, FP!Poll,
       Feed!LoopStep, FP!LoopStep, Feed!SaveFails, FP!SaveFails, Feed!Message, FP!Message,
       Feed!groupVars, FP!groupVars, Feed!SaveFailsSilently, FP!SaveFailsSilently,
       Feed!Fault, FP!Fault, Feed!NoPartition, FP!NoPartition, Feed!Exit, FP!Exit,
       Feed!graphVars, FP!graphVars, Feed!Crash, FP!Crash, Feed!FaultStep, FP!FaultStep,
       Feed!FeedNext, FP!FeedNext

LEMMA SameFinite == FP!IsFiniteSet(Consumers)
BY ConsumersAssumption DEF FP!IsFiniteSet, IsFiniteSet

LEMMA FeedInitially == FP!Init => FP!FeedInv
BY BoundsAssumption, SilenceAssumption, SameFinite, FP!FeedInitially

LEMMA FeedStep == ASSUME FP!FeedInv, FP!FeedNext PROVE FP!FeedInv'
BY BoundsAssumption, SilenceAssumption, SameFinite, FP!FeedStepInv

LEMMA FeedOthers ==
    ASSUME FP!FeedInv, FP!TypeOK', FP!Grows,
           UNCHANGED <<FP!groupVars, FP!loopVars, FP!graphVars>>
    PROVE  FP!FeedInv'
BY BoundsAssumption, SilenceAssumption, SameFinite, FP!OthersKeepFeed

----------------------------------------------------------------------------
(* Each side keeps the invariant of the other.                             *)

\* The outbox side writes the log only by appending to it.
LEMMA LogGrows ==
    ASSUME OutboxInv, Next PROVE UNCHANGED topic \/ \E r \in Ids : AppendCopy(r)
<1>1. ASSUME NEW p \in Publishers, pc[p] = "sent" PROVE hold[p] \in Ids
  BY <1>1 DEF OutboxInv, HoldInv, TypeOK
<1>2. ASSUME NEW i \in Instances, RequestStep(i) PROVE UNCHANGED topic
  BY <1>2 DEF RequestStep, FlushReview, InsertOutbox, Commit, Rollback
<1>3. ASSUME NEW p \in Publishers, PublisherStep(p)
      PROVE  UNCHANGED topic \/ \E r \in Ids : AppendCopy(r)
  BY <1>1, <1>3
     DEF PublisherStep, Start, Claim, Send, BrokerAck, MarkPublished, MarkFailed,
         Finish
<1>4. ASSUME NEW p \in Publishers, LateStep(p)
      PROVE  UNCHANGED topic \/ \E r \in Ids : AppendCopy(r)
  BY <1>4 DEF LateStep, LateAck, LateExpired
<1>5. ASSUME NEW p \in Publishers, FaultStep(p)
      PROVE  UNCHANGED topic \/ \E r \in Ids : AppendCopy(r)
  BY <1>1, <1>5
     DEF FaultStep, BrokerAckLost, BrokerRefuses, WaitTimeout, Crash, CommitAnswerLost,
         Die
<1>6. ASSUME StrayStep PROVE UNCHANGED topic \/ \E r \in Ids : AppendCopy(r)
  BY <1>6 DEF StrayStep, StrayAppended, StrayLost
<1> QED BY <1>2, <1>3, <1>4, <1>5, <1>6 DEF Next

LEMMA OutboxKeepsFeed ==
    ASSUME PipeInv, Next, UNCHANGED feedOnly PROVE PipeInv'
<1>1. OutboxInv'
  BY NextInv DEF PipeInv
<1>2. /\ topic \in [Partitions -> Seq(1..MaxReviews)] /\ topic' \in [Partitions -> Seq(1..MaxReviews)]
      /\ faults' \in 0..MaxFaults
  BY <1>1 DEF PipeInv, OutboxInv, TypeOK, Ids
<1>3. FP!TypeOK'
  BY <1>2 DEF PipeInv, FP!FeedInv, FP!TypeOK, feedOnly
<1>4. ASSUME NEW k \in Partitions
      PROVE  /\ Len(topic[k]) <= Len(topic'[k])
             /\ \A n \in 1..Len(topic[k]) : topic'[k][n] = topic[k][n]
  <2>1. CASE UNCHANGED topic
    BY <1>2, <2>1
  <2>2. ASSUME NEW r \in Ids, AppendCopy(r)
        PROVE  /\ Len(topic[k]) <= Len(topic'[k])
               /\ \A n \in 1..Len(topic[k]) : topic'[k][n] = topic[k][n]
    <3>1. PICK l \in Partitions : topic' = [topic EXCEPT ![l] = Append(@, outbox[r].review)]
      BY <2>2 DEF AppendCopy
    <3>2. /\ topic[k] \in Seq(1..MaxReviews) /\ topic[l] \in Seq(1..MaxReviews)
          /\ outbox[r].review \in 1..MaxReviews \cup {0}
      BY <1>2 DEF PipeInv, OutboxInv, TypeOK, Rows, Ids, NoId
    <3>3. topic'[k] = topic[k] \/ topic'[k] = Append(topic[k], outbox[r].review)
      BY <1>2, <3>1
    <3> QED BY <3>2, <3>3
  <2> QED BY <2>1, <2>2, LogGrows DEF PipeInv
<1>5. FP!Grows
  BY <1>4 DEF FP!Grows, feedOnly
<1>6. UNCHANGED <<FP!groupVars, FP!loopVars, FP!graphVars>>
  BY DEF feedOnly, FP!groupVars, FP!loopVars, FP!graphVars
<1> QED BY <1>1, <1>3, <1>5, <1>6, FeedOthers DEF PipeInv

\* A consumer reads the log and counts its faults; the rest of what the outbox
\* side keeps is not its own.
LEMMA FeedReadsLog == FP!FeedNext => UNCHANGED topic
BY DEF
       FP!Rebalance, FP!GroupStep, FP!Join, FP!Rejoin, FP!Save, FP!Skip, FP!CommitOffsets,
       FP!CommitRefused, FP!Poll, FP!LoopStep, FP!SaveFails, FP!Message, FP!groupVars,
       FP!SaveFailsSilently, FP!Fault, FP!Exit, FP!graphVars, FP!Crash, FP!FaultStep,
       FP!FeedNext

LEMMA FeedKeepsOutbox ==
    ASSUME PipeInv, FP!FeedNext, UNCHANGED outboxOnly PROVE PipeInv'
<1>1. FP!FeedInv'
  BY FeedStep DEF PipeInv
<1>2. faults' \in 0..MaxFaults /\ UNCHANGED topic
  BY <1>1, FeedReadsLog DEF FP!FeedInv, FP!TypeOK
<1>3. UNCHANGED <<reviewSeq, outboxSeq, tx, reviews, outbox, pc, hold, late, stray>>
  BY DEF outboxOnly, dbVars, pubVars
<1>4. TypeOK'
  BY <1>2, <1>3 DEF PipeInv, OutboxInv, TypeOK
<1>5. TxInv' /\ OneEventPerReview'
  BY <1>3 DEF PipeInv, OutboxInv, TxInv, OneEventPerReview, OpenReviews, OpenRows,
              Committed
<1>6. HoldInv' /\ FlightInv'
  BY <1>3 DEF PipeInv, OutboxInv, HoldInv, ClaimsAreExclusive, FlightInv, Committed,
              Unpublished
<1>7. LogInv'
  BY <1>2, <1>3 DEF PipeInv, OutboxInv, LogInv, NoPhantomEvents, PublishedIsInTopic, InTopic
<1> QED BY <1>1, <1>4, <1>5, <1>6, <1>7 DEF PipeInv, OutboxInv

LEMMA PipeInitially == PipelineInit => PipeInv
BY SameFeedInit, InitInv, FeedInitially DEF PipelineInit, PipeInv

LEMMA PipeInductive == PipeInv /\ [PipelineNext]_pipelineVars => PipeInv'
<1> SUFFICES ASSUME PipeInv, [PipelineNext]_pipelineVars PROVE PipeInv'
  OBVIOUS
<1>1. CASE Next /\ UNCHANGED feedOnly
  BY <1>1, OutboxKeepsFeed
<1>2. CASE Feed!FeedNext /\ UNCHANGED outboxOnly
  BY <1>2, SameFeedNext, FeedKeepsOutbox
<1>3. CASE UNCHANGED pipelineVars
  <2>1. UNCHANGED vars /\ UNCHANGED feedOnly /\ UNCHANGED topic /\ UNCHANGED faults
    BY <1>3 DEF pipelineVars, outboxOnly, vars, dbVars, pubVars
  <2>2. OutboxInv'
    BY <2>1, NextInv DEF PipeInv
  <2>3. FP!TypeOK' /\ FP!Grows
    BY <2>1 DEF PipeInv, FP!FeedInv, FP!TypeOK, FP!Grows, feedOnly
  <2>4. UNCHANGED <<FP!groupVars, FP!loopVars, FP!graphVars>>
    BY <2>1 DEF feedOnly, FP!groupVars, FP!loopVars, FP!graphVars
  <2> QED BY <2>2, <2>3, <2>4, FeedOthers DEF PipeInv
<1> QED BY <1>1, <1>2, <1>3 DEF PipelineNext

\* What holds of the outbox and of the consumers alone holds of the two together,
\* over every interleaving (ReviewPipeline).
THEOREM PipeInvariance == PipelineSpec => []PipeInv
BY PipeInitially, PipeInductive, PTL DEF PipelineSpec

----------------------------------------------------------------------------
(* Nothing is lost.  The row of a stored review is unpublished, or its     *)
(* event is in the log; and the log below a committed offset is in the     *)
(* graph, because nothing was dropped.                                     *)

LEMMA NothingLostInState == ASSUME SilentFailures = FALSE, PipeInv PROVE NothingLost
<1> SUFFICES ASSUME NEW v \in reviews
             PROVE  \/ v \in graph
                    \/ \E r \in 1..MaxReviews : Unpublished(r) /\ outbox[r].review = v
                    \/ \E k \in Partitions : \E n \in 1..Len(topic[k]) : topic[k][n] = v /\ n > committed[k]
  BY DEF NothingLost
<1>1. PICK r \in 1..MaxReviews : outbox[r].status # "absent" /\ outbox[r].review = v
  BY DEF PipeInv, OutboxInv, OneEventPerReview, Committed, Ids
<1>2. CASE outbox[r].status \in {"pending", "failed"}
  BY <1>1, <1>2 DEF Unpublished
<1>3. CASE outbox[r].status = "published"
  <2>1. PICK k \in Partitions : \E n \in 1..Len(topic[k]) : topic[k][n] = v
    BY <1>1, <1>3 DEF PipeInv, OutboxInv, LogInv, PublishedIsInTopic, InTopic, Ids
  <2>2. PICK n \in 1..Len(topic[k]) : topic[k][n] = v
    BY <2>1
  <2>3. CASE n > committed[k]
    BY <2>2, <2>3
  <2>4. CASE ~(n > committed[k])
    <3>1. /\ Len(topic[k]) \in Nat /\ committed[k] \in Nat \cup {-1}
          /\ v \in 1..MaxReviews
      BY DEF PipeInv, FP!FeedInv, FP!TypeOK, FP!NoOffset, OutboxInv, TypeOK, Ids
    <3>2. committed[k] \in FP!AppliedUpTo(k) /\ n \in 1..committed[k]
      BY <2>4, <3>1 DEF PipeInv, FP!FeedInv, FP!NoOffset
    <3>3. dropped = {}
      BY DEF PipeInv, FP!FeedInv
    <3> QED BY <2>2, <3>1, <3>2, <3>3 DEF FP!AppliedUpTo
  <2> QED BY <2>3, <2>4
<1>4. outbox[r].status \in {"absent", "pending", "failed", "published"}
  BY <1>1 DEF PipeInv, OutboxInv, TypeOK, Rows, Ids
<1> QED BY <1>1, <1>2, <1>3, <1>4

\* A stored review is in the graph, or its row is unpublished, or its event is in
\* the log where the next consumer reads it, over every crash and rebalance, as
\* long as Neo4j fails no write in silence (process_next_outbox_event,
\* consume_reviews).
THEOREM NothingIsLost == ASSUME SilentFailures = FALSE PROVE PipelineSpec => []NothingLost
<1>1. PipeInv => NothingLost
  BY NothingLostInState
<1> QED BY <1>1, PipeInvariance, PTL

----------------------------------------------------------------------------
(* The refinement.                                                         *)

LEMMA OutboxCreates ==
    OutboxInv /\ Next => UNCHANGED reviews \/ \E v \in 1..MaxReviews : reviews' = reviews \cup {v}
<1>1. ASSUME OutboxInv, NEW i \in Instances, Commit(i)
      PROVE  \E v \in 1..MaxReviews : reviews' = reviews \cup {v}
  <2>1. reviews' = reviews \cup {tx[i].review} /\ tx[i].stage # "none"
    BY <1>1 DEF Commit
  <2>2. tx[i].review \in 1..reviewSeq /\ reviewSeq \in 0..MaxReviews /\ MaxReviews \in Nat
    BY <1>1, <2>1, BoundsAssumption DEF OutboxInv, TypeOK, TxInv, OpenReviews
  <2>3. tx[i].review \in 1..MaxReviews
    BY <2>2
  <2> QED BY <2>1, <2>3
<1> QED
  BY <1>1
     DEF
       AppendCopy, FlushReview, InsertOutbox, Rollback, RequestStep,
       Start, Send, BrokerAck, MarkPublished, Finish, MarkFailed,
       Claim, PublisherStep, LateAck, LateExpired, LateStep, pubVars,
       BrokerAckLost, BrokerRefuses, WaitTimeout, Crash, SetStatus, Fault,
       NoId, Die, CommitAnswerLost, FaultStep, Ids, StrayAppended,
       dbVars, StrayLost, StrayStep, Next

\* The message a consumer works on is in the log, so it is a stored review.
LEMMA MessageIsStored ==
    ASSUME PipeInv, NEW c \in Consumers, state[c] = "processing" PROVE FP!Message(c) \in reviews
<1>1. current[c] \in Partitions /\ FP!Working(c, current[c])
  BY DEF PipeInv, FP!FeedInv, FP!Course, FP!Working
<1> DEFINE k == current[c]
           n == position[c][k]
<1>2. n - 1 \in FP!AppliedUpTo(k) /\ n <= Len(topic[k]) /\ n \in Nat /\ Len(topic[k]) \in Nat
  BY <1>1 DEF PipeInv, FP!FeedInv, FP!Course, FP!TypeOK
<1>3. n \in 1..Len(topic[k])
  BY <1>2 DEF FP!AppliedUpTo
<1>4. topic[k][n] \in reviews
  BY <1>1, <1>3 DEF PipeInv, OutboxInv, LogInv, NoPhantomEvents
<1> QED BY <1>4 DEF FP!Message

LEMMA FeedDelivers ==
    ASSUME PipeInv, FP!FeedNext PROVE UNCHANGED graph \/ \E v \in reviews : graph' = graph \cup {v}
<1>1. ASSUME NEW c \in Consumers, FP!Save(c) \/ FP!SaveFails(c)
      PROVE  UNCHANGED graph \/ \E v \in reviews : graph' = graph \cup {v}
  <2>1. /\ state[c] = "processing"
        /\ UNCHANGED graph \/ graph' = graph \cup {FP!Message(c)}
    BY <1>1 DEF FP!Save, FP!SaveFails
  <2> QED BY <2>1, MessageIsStored
<1> QED
  BY <1>1
     DEF
       FP!Rebalance, FP!GroupStep, FP!Join, FP!Rejoin, FP!Skip, FP!CommitOffsets,
       FP!CommitRefused, FP!Poll, FP!LoopStep, FP!groupVars, FP!SaveFailsSilently, FP!Fault,
       FP!Exit, FP!graphVars, FP!Crash, FP!FaultStep, FP!FeedNext

\* Every step of the pipeline stores a review, or makes a stored one visible, or
\* does neither: nothing becomes visible that was not stored, and what is visible
\* stays so (events.md).  This is EventDelivery without its fairness.
THEOREM Refinement == PipelineSpec => Delivery!Init /\ [][Delivery!Next]_(Delivery!vars)
<1>1. PipelineInit => Delivery!Init
  BY DEF PipelineInit, Init, Feed!Init, Delivery!Init
<1>2. PipeInv /\ [PipelineNext]_pipelineVars => [Delivery!Next]_(Delivery!vars)
  <2> SUFFICES ASSUME PipeInv, [PipelineNext]_pipelineVars PROVE Delivery!Next \/ UNCHANGED <<reviews, graph>>
    BY DEF Delivery!vars
  <2>1. ASSUME Next, UNCHANGED feedOnly PROVE Delivery!Next \/ UNCHANGED <<reviews, graph>>
    <3>1. UNCHANGED reviews \/ \E v \in 1..MaxReviews : reviews' = reviews \cup {v}
      BY <2>1, OutboxCreates DEF PipeInv
    <3> QED BY <2>1, <3>1 DEF Delivery!Next, Delivery!Create, feedOnly
  <2>2. ASSUME Feed!FeedNext, UNCHANGED outboxOnly PROVE Delivery!Next \/ UNCHANGED <<reviews, graph>>
    <3>1. UNCHANGED graph \/ \E v \in reviews : graph' = graph \cup {v}
      BY <2>2, SameFeedNext, FeedDelivers
    <3>2. reviews \subseteq 1..MaxReviews
      BY DEF PipeInv, OutboxInv, TypeOK, Ids
    <3> QED BY <2>2, <3>1, <3>2 DEF Delivery!Next, Delivery!Deliver, outboxOnly, dbVars
  <2>3. CASE UNCHANGED pipelineVars
    BY <2>3 DEF pipelineVars, outboxOnly, dbVars, feedOnly
  <2> QED BY <2>1, <2>2, <2>3 DEF PipelineNext
<1> QED BY <1>1, <1>2, PipeInvariance, PTL DEF PipelineSpec
====
