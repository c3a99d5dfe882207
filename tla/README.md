# Verification of the movie review platform

TLA+ models of the platform in `src/`, the TLC runs that check them on small
instances, and TLAPS proofs that hold for every instance.  The platform is a set
of small Python services behind an API gateway; a review travels from a Postgres
transaction through an outbox table and a Kafka topic to a Neo4j graph.  Most of
what can go wrong lies between two steps of two processes, so that is what is
modelled.

## The system

| Component | State it keeps | Operations | What makes it correct |
|---|---|---|---|
| reviews service (`reviews-service/app/repository.py`, two instances) | Postgres tables `reviews`, `outbox_events` | create a review with its event in one transaction; reads | a review and its event commit together |
| outbox publisher (`outbox_publisher.py`, two processes) | the row it has locked, the Kafka producer's buffer | claim the oldest unpublished row, send, wait, mark published or failed | no event is lost, a row is done only when its event is in the log |
| feed consumer (`feed-service/app/kafka_consumer.py`, two processes) | group membership, positions; Kafka's committed offsets | poll, write to Neo4j, commit | no offset is committed before its event is in the graph |
| feed graph (`feed-service/app/repository.py`) | Neo4j nodes and relations | save a review, follow, feed, recommendations | writes are idempotent, queries return what they promise |
| auth service (`auth-service/app`) | Postgres `users`, Redis token ids | register, login, verify, logout | unique users; a token is accepted from login until logout or expiry |
| Redis client (`common/redis_client.py`) | cached Sentinel client | find the master | every command goes to the current master |
| auth client (`common/auth_client.py`) | none | verify at one auth instance after another | 401 is final, an unreachable instance is not |
| API gateway (`api-gateway/app/main.py`) | none | resolve, shuffle, try every instance, combine answers | an instance loss is hidden, no request is carried out twice |
| config server (`config-server/app/main.py`) | registry in memory | register, heartbeat, lookup | live instances are listed, dead ones are not |
| service discovery client (`common/service_discovery.py`) | a heartbeat thread | register with retry, heartbeat every 10 s, resolve | a live instance comes back after the registry is lost |
| catalog service (`catalog-service/app`) | MongoDB collection | create, read, update, delete, search | concurrent updates keep each other's fields, what is gone stays gone |
| schema initialisation (`common/sqlalchemy.py`) | tables, an advisory lock | create the tables before anything else | no service registers without its tables; concurrent starts make one of them fail at most, once in the life of the database |
| retry helper (`common/retry.py`) | none | run until success or give up | the last error is raised, the delays are bounded |
| frontend (`frontend/app.py`) | Streamlit session | login, logout, seeding, pages | the user shown is the token's owner; a seed that succeeds is complete; cards show what was true |

Interaction.  The browser talks to the gateway only.  The gateway asks the config
server for the instances of a service and tries them in random order; services
verify tokens at the auth service, found in the same way.  The reviews service
writes its outbox; the publishers read it and write Kafka; the consumers read
Kafka and write Neo4j; the feed API reads Neo4j.  No service calls back.

What is hard to test here: two publishers on one table, a producer that keeps a
record after the caller gave up on it, a process that dies between two commits to
different systems, a consumer expelled from its group that does not know it,
a failover of an asynchronously replicated store, a request carried out by an
instance that then fails to answer and carried out again by the next one.  `PROJECT.json` lists these hazards at the
lines where they bite, with the properties that cover them.

## Modules

| Module | Models | Notes |
|---|---|---|
| `ReviewsOutbox` | `create_review_with_outbox`, `process_next_outbox_event`, `publish_event`, `run_forever` | two id sequences, Postgres transactions and row locks, the Kafka producer |
| `FeedConsumer` | `create_consumer`, `consume_reviews`, the failures of `save_review_event` | Kafka's group coordinator |
| `FeedConsumerProofs` | | proofs about `FeedConsumer` |
| `ReviewPipeline` | the two above, joined by the topic | extends the first, `Feed == INSTANCE` of the second, one budget of faults |
| `ReviewPipelineProofs` | | proofs about `ReviewsOutbox`, and about `ReviewPipeline` from those of its two sides |
| `EventDelivery` | abstract: what is stored becomes visible | implemented by `ReviewPipeline` |
| `FeedGraph` | `save_review_event`, `follow_user`, `get_feed_for_user`, `get_user_reviews`, `get_recommendations` | relationships with their multiplicity |
| `FeedGraphProofs` | | proofs about `FeedGraph` |
| `SocialView` | abstract: who follows whom and what was delivered decide what is shown | implemented by `FeedGraph` |
| `Accounts` | `register_user`, `create_user` | lookups, unique constraints, concurrent requests |
| `DemoSeed` | `seed_demo_world` and what it calls, `create_movie` | on top of `Accounts`; several browsers, stopped scripts, failing calls |
| `DemoSeedProofs` | | proofs about `DemoSeed` and `Accounts` |
| `AuthSessions` | `create_access_token`, `login_user`, `verify_token`, `logout_user` | Redis behind Sentinel: asynchronous replicas, failover, restarts |
| `AuthSessionsProofs` | | proofs about `AuthSessions` |
| `GatewayFailover` | `call_service`, `verify_authorization`, `verify_authorization_header`, `resolve_instances` for POST /reviews | instances that stop, hang and fail; the config server's list |
| `GatewayFailoverProofs` | | proofs about `GatewayFailover` |
| `ConfigRegistry` | `register_service`, `heartbeat`, `get_service_instances` of the config server; `start_registration_heartbeat`, `retry` | in seconds, with lost calls and restarts of both sides |
| `Membership` | abstract: which instances serve and which are listed | implemented by `ConfigRegistry`, the environment of `GatewayFailover` |
| `SchemaInit` | `init_schema_with_lock` | advisory lock, DDL transaction, lost connections |
| `ServiceStartup` | `startup` of the services: `SchemaInit`, then `ConfigRegistry` | both composed, one process for both |
| `ServiceStartupProofs` | | proofs about `ConfigRegistry`, and about `ServiceStartup` from them |
| `Catalog` | `create_movie`, `update_movie`, `delete_movie`, `get_movie_by_id` | a MongoDB collection and the requests on it |
| `ReviewPages` | the pages of the frontend with `reviews_enriched`, `feed_enriched`, `enrich_review_items` | on top of `Catalog` |
| `FrontendSession` | `init_state`, login, registration and logout, selection and navigation | one tab, and the tokens at the server |
| `FrontendProofs` | | proofs about `FrontendSession`, `Catalog` and `ReviewPages` |
| `MC...` | | symmetry sets and the statements of the documents that a run refutes |

### ReviewsOutbox

A request is four steps of a reviews-service instance: `FlushReview` (INSERT,
takes an id of the sequence of `reviews`), `InsertOutbox` (takes an id of the
sequence of `outbox_events`), `Commit` or `Rollback`.  Sequences are not
transactional, so aborted requests leave gaps and ids commit out of order.

A publisher is `down`, `idle`, `claimed`, `sent`, `acked` or `failing`, which are
the program points of `process_next_outbox_event` between two effects another
process can see.  `Claim` is the SELECT with `ORDER BY created_at, id FOR UPDATE
SKIP LOCKED`; `hold` is the row lock and lasts until the transaction ends
(`MarkPublished`, `MarkFailed`, or the end of the process).  `Send` hands the
record to the producer, which refuses a record above its size limit; the wait of
`future.get(timeout=10)` ends with `BrokerAck`, `BrokerRefuses` or `WaitTimeout`.
After a timeout the record stays in the producer (`late`) and may reach the log
at any later time (`LateAck`); after the death of the process it may still be on
the wire (`stray`).  `BrokerAckLost` is the producer's own resend.  An exception
other than `OutboxPublishError`, such as a failed COMMIT, ends the process:
`Crash` and `CommitAnswerLost`.  Docker restarts it: `Start`.

Left out: `attempts`, `last_error` and `published_at`, which no code reads; the
sleep of `run_forever`, which only delays the next `Claim`; the retention of the
topic, which no file configures.  `kafka-python` is not pinned, so the model does
not assume the idempotent producer of its latest releases: a resend may duplicate.

### FeedConsumer

The loop of a consumer is `Poll`, then `Save` or `Skip`, then `CommitOffsets`.
Every exception is raised again by `consume_reviews` and ends the process
(`SaveFails`, `CommitRefused`, `Crash`), which joins again with `Join`.
`Rebalance` is the coordinator's: it deals the partitions to everyone who polls,
each at its committed offset or, without one, at the beginning
(`auto_offset_reset="earliest"`).  It may expel a member that is busy for too
long; that member goes on as a zombie with its old positions until a commit is
refused or a heartbeat tells it (`Rejoin`).

`SilentFailures` decides whether Neo4j may fail a write after it accepted the
query.  The Python driver attaches that error to the result; the code never reads
the result, and closing the session drops it (`SaveFailsSilently`).  `dropped` is
a history variable: the events this happened to.  The runs of this module allow
it, and that of the pipeline does not, because it is the one way to lose an event.

### ReviewPipeline and EventDelivery

`ReviewPipeline` shares `topic` and `faults` between the two modules; a step is a
step of one of them.  Its refinement mapping to `EventDelivery` is
`created <- reviews, visible <- graph`: every step is a `Create`, a `Deliver` or
a stutter, and the fairness of the two loops implies that of `Deliver`.

### AuthSessions

A request is served by any auth instance, and all of them send each command to
the node Sentinel names, so an instance has no state of its own.  `Login` signs a
fresh token id, `StoreToken` is SETEX and the answer; `Verify` is the part of
`verify_token` before the lookup, `CheckToken` the lookup, `Answer` the rest;
`Logout` and `DeleteToken` split `logout_user` in the same way.  Nobody catches
the exceptions of the Redis client: `RedisUnreachable` and `RedisAnswerLost` (the
command was executed, its answer did not arrive) end the request with 500.

The commands the master executed are one `log`, and `seen[n]` says how much of it
node `n` has received: `Execute` appends, `Replicate` advances a replica.  A
`Failover` promotes the running replica that has received the most, and cuts the
log off at what it had.  `RestartMaster` is Docker being quicker than Sentinel with
`redis-master`, which reads everything from its append-only file.  A promoted
replica that ends has the `--replicaof` of its command line when it is back, and no
configuration it could have been rewritten in (`docker-compose.yml:427-431`): it is a
replica again, while Sentinel goes on naming it (`RestartDemoted`, `demoted`).  It
refuses writes, and answers lookups from its snapshot until the next `Failover`;
`stale` marks a request that was answered so.  `lost` is a history variable: the
commands that were undone.  The properties say what these events may change about
the answers of verify, how many nodes must be lost for it, and that nothing else
changes them.

Left out: tokens past their `exp` (`jwt.decode` refuses them before the lookup,
and the key outlives the token because its TTL starts later); network splits;
promotion of a node that has come back but has not synchronised yet; the direct
mode of the client without Sentinel, which the compose file does not use.

### GatewayFailover

A call is what the gateway does for one POST /reviews: it resolves the auth
instances and asks one after another (`Resolve`, `Verify`), then resolves the
reviews instances and sends them the request one after another (`Try`,
`TakeAnswer`, `GiveUp`, `Exhausted`).  `left` is what remains of the shuffled
list, `last` and `error` are the local variables `last_response` and
`last_error` of `call_service`.  A reviews instance that accepts the request has
a job of its own: it resolves the auth instances, asks them (`AskAuth`), and
stores the review (`Create`).  The job does not know whether the gateway still
waits: after `GiveUp` it goes on, and may store the review when another instance
has stored it too or when the client already has its answer.

The environment stops and restarts instances; an instance that ended stays
`listed` until `Expire`, the config server loses its list when it ends (these are
the actions of `Membership`, with a budget), Redis may be out, and the token may be logged
out at any moment.  Every auth instance has a Postgres connection of its own to look
the user of a token up (`auth-service/app/service.py:124`), so one may answer 500
while the other accepts.  `hurt` and `shaken` are history variables: the instances that
failed or were away during a call, and the calls that met an outage of the config
server or of Redis.  The properties bound failures and surplus reviews by them.  When Redis is out every auth instance
answers 500, and the gateway passes that on.

Left out: calls to other services (every route goes through the same two
functions); the gateway's own end, since it has no state.  The enriched pages are
in `ReviewPages`.  With a single instance listed the code
returns its 5xx without trying on, which is the answer an empty list gives too.

### ConfigRegistry and Membership

An instance is `down`, in a call (`register`, `heartbeat`), in the `delay` of
`retry` or in the `sleep` of `heartbeat_loop`.  `left` counts down what it does;
`Tick` lets a second pass for everybody unless something is due, so a call ends
within its timeout and a sleep when it is over.  The server handles a call at any
moment of it (`HandleRegister`, `HandleHeartbeat`), and the answer comes back
later (`Registered`, `Accepted`, `Rejected`) or not (`CallLost`).  `age` is the
time since `last_seen`; an entry is never deleted, only not listed any more.
`ConfigEnds` empties the registry.  `serving` starts when startup is complete,
which is after the first registration and before the first heartbeat.

While the server runs, the network loses at most one call of an instance between
two refreshes of its entry (`lost`); while it does not, every call fails.  Two
losses in a row can take 32 seconds with the timeouts of the code, more than
`STALE_AFTER_SECONDS`, and the promise below would be false.  With one the oldest
entry is 25 seconds old, which is what `SlackAssumption` says in general: a
registration that was answered at the end of its timeout is followed by a sleep,
a heartbeat that times out and a registration.

`Membership` is what the clients of the registry see: instances start and stop to
serve at any time, the list is lost with the server, and no instance that serves
is taken off the list of a server that runs.  The environment of
`GatewayFailover` takes exactly these steps, so what is shown there rests on the
promise shown here.

### SchemaInit and ServiceStartup

`init_schema_with_lock` is cut between its database calls: `Lock`, `Check` (the
inspection of `create_all`, which sees committed tables), `Create`, `Unlock`,
`Commit`.  The lock is released before the commit, so a second process may
`Check` before the first one's `Commit`, wait for it in `Create` and fail there;
the aborted transaction lets the unlock fail, too, and the process ends.  What the
module shows is that this happens once in the life of the database and is healed
by the restart.  Connections may be lost at any point (`DbLost`, which `retry`
repeats or gives up), processes end and start again.

`ServiceStartup` joins it to `ConfigRegistry`: an instance leaves `down` in the
registry only when its `init_db` has returned (`Ready`), and loses both when it
ends; the outbox publishers use the database and do not register.  A step of the
composition is a step of the registry, or leaves it alone, so its specification
implies that of `ConfigRegistry` and all its properties; the `startup` run checks
them on the composition, which covers `ConfigRegistry` as well.

### FeedGraph and SocialView

A relationship type is a function from pairs of nodes to the number of
relationships between them, because a Cypher query counts each of them; `Merge`
and the queries are written with these numbers.  `SaveReview` is the one query of
`save_review_event`, `FollowUser` that of `follow_user`; a query of the feed is an
operator that says which answers are possible, since rows with equal `created_at`
or equal score come in any order before `LIMIT` cuts them off.  Events arrive
repeatedly and in any order, as `ReviewPipeline` delivers them; `Store` is the
reviews service, of which the graph is a part that lags behind.

`SocialView` has sets instead: who follows whom and which reviews were delivered.
It defines what each query should answer, and the properties compare: the feed is
the newest due reviews, a user's page is their own, a recommendation is an item
of somebody who shares an item with the user, and its score counts the pairs of
such a user and an item they share.  The page calls this number a number of users
(`frontend/app.py:1061`), which is true exactly where nobody shares two items with the
reader; `RecommendationsAreShared` says that, too.

### Accounts and DemoSeed

`Register`, `LookUpEmail`, `LookUpName` and `CreateUser` are the database sessions
of `register_user`; only the constraints of the table stand between two of them.
`DemoSeed` has the script of a browser that seeds the demo world: it reads the
users and registers those it misses, reads the movies and creates those it
misses, reads the reviews and posts those it misses, then follows.  Each step is
one call to the gateway.  Streamlit stops a script between two calls when the user clicks
elsewhere (`Stop`), calls fail in the ways each loop treats differently
(`Raised`, `Swallowed`).  The gateway passes a call on to the next instance after a
timeout or a 5xx, and an instance may have carried it out before: a call that
succeeds may have had its effect twice, and one that fails once for every instance,
with all answers lost.  Another browser seeds at the same time, and a stranger
registers with a demo name or a demo email.

### Catalog and ReviewPages

A PUT is two calls to MongoDB, `UpdateOne` and `ReadBack`; `DeleteOne` answers by
what it deleted.  `overtaken` is a history variable: the fields of an update that
a later one has set again.

`ReviewPages` has one page of a browser on top of it.  It reads its own maps of
users and movies (an empty map if that fails), then asks for a section; for the
enriched ones the gateway verifies the token and reads items, users and movies, in
that order (`CallOrder`), while movies are changed and deleted, users register and
reviews are written.  `held` is a history variable: what the catalog held since the
page was opened.  Reviews of a movie that does not exist are accepted, as by the
code (`Bogus`).

### FrontendSession

One tab.  A handler is the list of its steps (requests and assignments to
`st.session_state`); a click stops a handler before any of them, except where it
does not touch the session.  Requests fail with or without their effect, tokens
expire.  A login goes from one auth instance to the next like any POST, so it may
issue a token at each of them, of which the session sees the last or none
(`Batches`, `AnsweredWith`); the seed logs its demo users in, one after another,
and forgets their tokens (`SeedSteps`, `PostDemoLogin`).  What an instance carries
out after the tab has given up is counted at once.  The properties count what a
wrong state needs: the user shown is not the owner of the token only after two stopped
handlers, and a token is left behind only by a stopped handler, a failed request (as many
as there are instances) or a demo login (`Causes`).

## Runs

| Run | Expects | Checks | Shows |
|---|---|---|---|
| `outbox_safety` | pass | `OneEventPerReview`, `PublishedIsInTopic`, `NoPhantomEvents`, `ClaimsAreExclusive`, `DuplicatesNeedFaults`, `PublishedIsFinal` | Two requests at once, two publishers, two partitions and three faults: stored reviews and outbox rows match, the log holds no event too many without a fault and none of an unstored review, and a published row is final and in the log. |
| `outbox_stranded` | violation | `PeerKeepsDraining` | Two rows whose payload does not fit in a Kafka record keep both publishers busy for ever, and younger rows are never claimed. |
| `feed_safety` | pass | `CommittedIsApplied`, `RewritesNeedFaults`, `OffsetsNeverGoBack` | Two consumers, two partitions, crashes, expelled members and silent failures of Neo4j: no offset is committed before the events below it are in the graph or dropped in silence, offsets never move back, and no message is written twice without a fault. |
| `feed_silent` | violation | `OffsetOnlyAfterWrite` | One write that fails after Neo4j accepted the query is lost: the code never reads the result and commits the offset. |
| `pipeline_delivery` | pass | `NothingLost`, `DeliversEveryReview` | Two requests that commit in either order, a publisher and two consumers together, two faults anywhere: a stored review is always in the graph, in an unpublished row, or in the log at or after the committed offset; and the pipeline implements EventDelivery, liveness included. |
| `auth_safety` | pass | `LoggedOutIsRejected`, `LoggedInIsAccepted` | Three Redis nodes, two concurrent requests and three crashes: verify errs only about tokens whose command a failover undid, or when a promoted replica was lost as well and answers from its snapshot. |
| `gateway_calls` | pass | `PeerHidesLoss`, `AnswerMatchesStore`, `EveryCallIsAnswered` | POST /reviews with two auth and two reviews instances and two crashes or outages: one healthy peer hides the loss of the other, only a failed instance stores a review the answer does not tell of, and the timeouts alone make the gateway answer. |
| `startup` | pass | `ListedAgainInTime`, `RegisteredHasTables`, `AtMostOneStartFails`, `ImplementsMembership` | Two instances and a publisher start, end and start again over one database and a config server that ends, too, and calls and connections are lost: the early unlock fails one start at most, nobody registers without tables, an instance that serves never goes stale and is listed again in time after the registry was lost. |
| `seed` | pass | `AccountsAreUnique`, `AnswersAreTrue`, `FinishedIsComplete`, `CopiesNeedRivals`, `AuthorsAreReal` | Two browsers seed the demo world at the same time or one after the other, scripts are stopped, a call goes wrong and a stranger takes a demo name or email: accounts stay unique, a seed that succeeds leaves the whole world, and the copies too many are no more than the rivals and, for each failed call, the instances that may have carried it out. |
| `pages` | pass | `OwnFieldsKept`, `GoneStaysGone`, `DeletedOnce`, `AuthorsAreNamed`, `UntitledIsGone`, `TitlesWereTrue` | Updates and deletes of a movie race each other, its creation, a registration, reviews, and a page put together from three services of which one call may fail: answers and cards stay true to what the stores held. |
| `graph` | pass | `TypeOK`, `FeedIsNewest`, `OwnOnlyWhilePending`, `RecommendationsAreShared`, `ImplementsView` | Every order, repetition and gap of eight review events and three follows: the graph depends on the set of them alone, and the three queries answer what SocialView defines without a graph. |
| `session` | pass | `ShownUserOwnsToken`, `OrphansAreAccounted`, `SelectionIsOwn` | Two people use one tab, clicks stop handlers between any two assignments, requests fail, the gateway repeats logins at the second auth instance, a seed logs in and tokens expire: the user shown is the token's owner short of two such clicks, and the tokens left behind are no more than the stops, the demo logins and, for each failure, the instances. |

Bounds.  `MaxReviews` bounds the ids handed out: two are needed for two rows that
compete, three for a row that starves behind two others.  `MaxFaults` bounds what
the environment does wrong: one fault stops one attempt, a second one its retry,
a third lets the late effects of the first two meet (two in the pipeline, whose two
sides have runs of their own with as many or more).  Two processes of each kind
is what `docker-compose.yml` starts; only the pipeline has a single publisher,
whose competition with a second one is the subject of `ReviewsOutbox`.  Two
partitions let two consumers work at the same time.  `Clock = {1, 2}` lets
`created_at` disagree with the order of the ids.

The Redis runs have the three nodes of the compose file, and three faults: a
failover, the end of the promoted node and one more that races both; two tokens
and two requests let a login, a logout and a verification of different tokens
interleave.  The gateway runs have the two instances per service of the compose
file and one call, because calls only share the environment, which may do
anything within its budget at any moment.

The `startup` run has two instances and an outbox publisher on one database, and
counts in units of five seconds: a call takes 1, a sleep 2, an entry is stale after
6, and the delay of two seconds is rounded up to 1.  Three attempts reach the
first, a middle and the last one.  Its constraint `PublisherFirst` leaves out the
states in which an instance registers while the publisher is at work on the
tables, which are there by then; the proofs do without it.  It has no budget: time, faults and restarts go on for ever, and the state space is
finite because ages stop at stale and `uptime` at `MaxUptime`, which is above every
bound that is checked.  The proofs hold in any unit.

The `graph` run has eight events and three follows of three users over four
items, with equal timestamps, a user who reviews an item twice, and limits of
three and one, so that both queries cut something off and both have ties to break;
the order in which they arrive, the repetitions and the gaps are not bounded.  The
`seed` run has two demo users, one demo movie and one text, so that all loops but
that of the movies go round; two clicks make two seeds at once or one after
another, or one seed of everything and one of the movies; one call goes wrong, and a
stranger takes a demo name or a demo email.  The `pages` run has one movie id and one
that is no movie's, one user, who may register late, updates of one field, of two
and of none, one failing call, and two things under way at a time (`TwoAtATime`):
two requests, or a request and a page; more movies would only multiply states, as no
action relates two of them.  The `session` run has two people, two auth instances, two
stopped handlers, one failed request and one demo login, and seven tokens, so that a
login always finds as many fresh ones as it may issue; the property that speaks of two
stops would not be tried with fewer, and one failed request already leaves two tokens.

The workload of the other runs is bounded, so they end with every loop waiting:
the configurations that reach that end say `CHECK_DEADLOCK FALSE`.

Fairness.  Containers have `restart: unless-stopped` and the loops have no exit,
so each process takes its own next step in the end (`WF` of one process's steps,
never of a particular branch).  Records in a producer are delivered or expire.
The gateway's wait ends by httpx's timeout, so its steps are fair and those of the
instances are not.  Nothing is assumed of requests or faults; `MaxFaults` makes faults cease, which
is what "after any finite number of faults" means.

The runs that expect a violation check one sentence of the documents that the
code does not keep; `findings` in `PROJECT.json` quotes it.

## Proofs

`ReviewPipelineProofs` proves first of the outbox, for any number of instances,
publishers, partitions, ids and faults, any clock values and payload sizes, that its
`Spec` implies the type invariant (`TypeSafety`), `OneEventPerReview`
(`ReviewsAndEventsMatch`), `PublishedIsInTopic` (`PublishedMeansStored`),
`NoPhantomEvents` (`NoEventWithoutReview`), `ClaimsAreExclusive`
(`LocksExclude`) and the action property `PublishedIsFinal` (`PublishedStays`).
The assumptions are those of the module: the bounds and the clock values are
natural numbers, `Sizes` is a set of Booleans.

None of these is inductive.  The invariant that is, `OutboxInv`, adds to
`TypeOK` and `OneEventPerReview`:

* `TxInv`: the ids an open transaction holds were handed out by the sequences,
  to nobody else, and are not committed yet.  Without it a commit could bring a
  second row for a review.
* `HoldInv`: a publisher holds a row exactly while it is between `Claim` and the
  end of its transaction; that row is committed and unpublished; no two
  publishers hold the same row.  This gives `LocksExclude`, and
  `PublishedStays`, because a status changes only under its lock.
* `FlightInv`: a record in a producer's buffer or on the wire belongs to a
  committed row.
* `LogInv`: every event of the log belongs to a committed review, and a row that
  is `acked` or `published` has its event in the log.

`Invariance` has one step for each action of `Next`; the other theorems follow
from it by temporal reasoning alone, but for `DuplicatesNeedFaults`
(`DuplicatesCostFaults`).  A timeout or a crash may show as a duplicate much later, so
that one needs the count of `CountInv`: the copies in the log, the records in flight
that nobody waits for, and the rows that will be sent again although their event is in
the log, are together no more than the events in the log and the faults.  One lemma per
kind of step shows that these figures stay in balance; where a process ends, its records
become stray one for one.

`AuthSessionsProofs` proves, for any number of Redis nodes, tokens, requests and
faults, that `Spec` implies `TypeOK` (`TypeSafety`), `LoggedOutIsRejected`
(`LogoutHolds`) and `LoggedInIsAccepted` (`LoginHolds`).  The assumptions are
`NodesAssumption` (the first master is a node) and `FaultsAssumption` (the bound is a
natural number).  The inductive invariant `SessionInv` adds to the two properties:

* `LogInv`: the log has no command twice, a deletion comes after the store it
  deletes, and both are of tokens that were handed out.  Uniqueness is what makes
  "the store was undone" a fact about the token: without it a second store of
  the same id could hide the loss of the first.
* `ReqInv`: a login in progress has a token of its own that no command mentions
  yet; every other request has an issued one.
* `TokenInv`: an issued token was stored, and a logged-out one is stored no more,
  unless the command that did it is in `lost`.
* `SeenInv`: a node that is down has nothing, so a promoted one was running.
* `MasterInv`: a node that serves has the whole log, so that only a lookup at a promoted
  replica that came back can be stale; and what has to be lost before there is one is
  counted: `redis-master`, then the replica that took its place.

The log changes in two ways: `ExecuteFacts` says what appending a command keeps,
`CutOffFacts` what cutting it off does; each request step cites one of them.

`GatewayFailoverProofs` proves, for any sets of auth and reviews instances, calls
and faults, that `Spec` implies `TypeOK` (`TypeSafety`), `PeerHidesLoss`
(`PeersHide`) and `AnswerMatchesStore` (`AnswersMatch`).  `InstancesAssumption`
(no instance belongs to both services) is not needed, only `FaultsAssumption`.
`GatewayInv` is a conjunction over the calls of

* `HealthInv`: an instance that did not fail during a call was up and listed all
  the time, and Redis and the config server ran unless the call is `shaken`.
* `LeftInv`: the healthy instances have still to be tried.  With an empty list
  this says that there are none, which is `PeerHidesLoss`.
* `LookupInv`: a healthy instance the gateway waits for has the healthy auth
  instances still to ask, so its 5xx has an excuse.
* `StoreInv`: a healthy instance works on a call only while the gateway waits for
  it, and what it has stored is in the answer or will be.  This gives
  `AnswerMatchesStore`, and is why a second review needs a failed instance.

A step of one call keeps what holds of the others (`OneCall`, `OthersKept`); the
steps of the gateway are answers or moves to the next instance (`AnswerStep`,
`MoveStep`), those of a job all have one form (`JobMove`), and those of the
environment only have to leave the history honest (`WorldStep`).

`ServiceStartupProofs` proves first of the registry, for any number of instances and any
times that satisfy `TimesAssumption` and `SlackAssumption`, that its `Spec` implies `TypeOK`
(`TypeSafety`), `ListedAgainInTime` (`RelistedInTime`) and `Promise!Spec`, which
is all of `Membership` (`Refinement`).  The invariant of each instance has three
parts:

* `Course`: the order of the steps of its thread, and how long each may take.
* `Fresh`: the latest age of its entry at the end of each phase.  A registration
  that is under way for a known instance means that a call was lost, so that it
  cannot be lost too.
* `Due`: the same for the uptime of a server that has no entry.

`Tick` moves a second from `left` to the age, so it keeps every limit; the other
steps start a phase whose limit is as much later as the phase may take, or set the
age back.  In `Refinement` every step is one of `Membership`'s, `Tick` being
`Expire` of the entries that become stale, and `Fresh` says that none of these
serves.

Its second part is about the composition with the tables.  `StartupIsRegistry` says that
every behaviour of it is one of the registry, so `StartupTypes`,
`StartupRelists` and `StartupRefinement` follow from what is proved there, under the
same assumptions.  `TablesFirst` (`RegisteredHasTables`) and `OneStartFails`
(`AtMostOneStartFails`) rest on an invariant of their own, for any processes: who is
between lock and unlock holds the lock, so one process at most can have missed
tables that are there by now; whoever is past the creation has created them or
found them; and after the first failure the tables are committed, so nobody misses
them again.

`FeedGraphProofs` proves, for any users, items, reviews, follows and limits
(`WorkloadAssumption`: every review has an author, an item and a time), that `Spec`
implies `TypeOK` (`TypeSafety`), `ImplementsView` (`GraphIsView`), `FeedIsNewest`
(`FeedShowsNewest`), `RecommendationsAreShared` (`RecommendationsShare`) and
`OwnOnlyWhilePending` (`OwnWhilePending`).  `GraphInv` adds to `TypeOK` that
`wrote`, `about` and `reviewed` say the same of a review whose event was merged, and
nothing of any other, and that finitely many reviews are stored, without which
the counts mean nothing.  The queries count rows, `SocialView` counts reviews and
shared items; the proofs give the bijections between them.

`FeedConsumerProofs` proves, for any partitions, messages and faults and finitely many
consumers, that `Spec` implies `TypeOK` (`TypeSafety`), `CommittedIsApplied`
(`OffsetsAreApplied`) and the action property `OffsetsNeverGoBack`
(`OffsetsOnlyAdvance`).  `AppliedUpTo(k)` is the set of offsets below which everything
is in the graph or dropped; it only grows.  `FeedInv` says that every committed offset
is in it, that so is the position of every consumer, zombies included, but for the
message in work (`Course`), and that a member is not behind the committed offsets of
its partitions, which no other member has (`Ahead`).  The first two make
a commit safe, and the third makes it advance.  `RewritesNeedFaults`
(`RewritesCostFaults`) is a count again: the writes, and the consumers that were expelled
and may write once more, are no more than the messages covered (their write is
committed, or a member has made it and has still to commit it) and the faults.  That a member
writes no message that is covered already is `Ahead` and the new `Owned`: the message in
hand is of a partition of its own, and not committed.

The second part of `ReviewPipelineProofs` takes the invariants of the outbox and of the
consumers together (`PipeInv`).  The outbox keeps its own by the lemmas of the first part,
the consumers by those of `FeedConsumerProofs`; the outbox keeps that of the consumers because
it only appends to the topic (`LogGrows`, `OutboxKeepsFeed`), and the consumers that of
the outbox because they only read it (`FeedKeepsOutbox`).  So `NothingLost` holds
(`NothingIsLost`), under the one assumption that Neo4j fails no write in silence: the row of
a stored review is unpublished or its event is in the log, and the log below a
committed offset is in the graph.  The same invariant gives the safety part of the
refinement to `EventDelivery` (`Refinement`): the message a consumer works on is a
stored review.  The lemmas `Same...` say that `FP`, the instance whose facts
are cited, has the steps of `Feed`, which the pipeline is made of.

`FrontendProofs` is about what a browser shows.  Of `FrontendSession` it proves, for any
accounts, tokens, movies and pages, that `Spec` implies `TypeOK` (`SessionTypes`),
`ShownUserOwnsToken` (`UserOwnsToken`), `OrphansAreAccounted` (`OrphansHaveCauses`) and
`SelectionIsOwn` (`SelectionsAreOwn`).  What can be left of a handler is one of twelve
sequences, so `SessionInv` says for each point of a handler what it knows there (`Script`),
that a login runs only where no token or no user was left (`LoginFindsGate`), and that a
user without a token was left by a stopped logout (`StaleUser`); a user who is not the
token's owner then takes a stopped login, too (`MismatchTakesTwo`).  The tokens left
behind are counted with a credit: one that is about to be lost (`Losing`) has the stop
or the failure that costs it already (`LossesHaveCauses`).  The causes are the stops, the
demo logins of the seeds, and the failures times the instances: a login that several
instances carried out leaves as many tokens less one, and a failure for it (`LossOfBatch`).
`SessionAssumption` is used; `TokensAssumption`, that a login finds its tokens, is not.

Of `ReviewPages` and `Catalog` it proves, for any ids, requests, updates, users and bounds,
that `PagesSpec` implies the six properties of the run `pages` (`FieldsAreKept`,
`GoneIsGone`, `OneDeletes`, `NamesAreThere`, `TitlesAreThere`, `TitlesAreTrue`).
`PagesInv` adds to them

* `Ordered`: what is in the collection was given out, and has the fields of a new movie;
* `Served`: where each request is, and what it can have answered by then;
* `Written`: an update that is done has its fields in the movie, if that is still there.
  Without it `OwnFieldsKept` says nothing of a movie's other fields, which an update
  by another request reads and keeps;
* `Peopled`: who wrote a review has registered, and what a review is about was given out;
* `Read` and `Joined`: what the page and the gateway have read so far is part of what is
  there; the users cover the authors of the reviews read before them, and an item without
  a title in the map read after them is deleted or no movie's.  This is where the order of the three calls counts;
* `Remembered`: the maps read hold nothing that is not in `held`.

`DemoSeedProofs` proves, for any browsers, demo users, movies, follows, texts and bounds, that
`Spec` implies `AccountsAreUnique` (`NamesAreUnique`), `AnswersAreTrue` (`AnswersHold`),
`FinishedIsComplete` (`SeedsAreComplete`), `AuthorsAreReal` (`AuthorsExist`) and
`CopiesNeedRivals` (`CopiesCostRivals`).  `DemoAssumption` states what the fixed tables
of the code satisfy (two demo users at least, no title twice, texts to choose from),
`PeopleAssumption` who is who.  The tables only grow (`Grew`), so a list that was read
stays a prefix of its table (`ReadsStay`) and `SeedInv` can say of each script alone what
its loops have achieved up to their index (`Progress`).  Others' steps keep that, its
own steps advance it by one index, because what a loop does next is the first thing left and
all it skips needs nothing.  For registrations "achieved" is only that the name or the
email is taken; that rows are unique and the stranger has one of them turns it into "has an
account" where the reviews and follows need it.

`CopiesNeedRivals` is a count, and the argument for it the hardest of the project.  What may still be
created without anything else going wrong is counted with the copies that are there:
`Creators(t)` are the running scripts that did not find the title and have yet to reach
it, `Posters(x)` those that do not know of the review.  The sum stays below
one and the overlaps and `Surplus`, which is as many copies for a fault as the gateway has
instances to try, since a click that adds a running script is an
overlap unless nobody else runs (`Rivals`), a creation takes its script from the set
(titles are distinct, keys are remembered), and the copies of a call that went wrong are its fault's,
even if its key comes round once more.  One
review needs more: a script that found no demo user posts as the viewer
what it has noted under the stranger's name, and may post the same again under the viewer's.  Such a
script was hurt before, and `Stand(x)` lets the fault that hurt it pay.

Induction over data is out of the prover's reach, but not the argument by a least
counterexample: `LeastOf` says that a set of numbers has a least member, and from
it follow what `First` returns, and, in `DemoOfFacts`, what the recursive function of `DemoOf`
computes.

Only model-checked: liveness (the fairness part of `DeliversEveryReview`, and
`EveryCallIsAnswered`), because the prover does not handle liveness under
fairness.  Every invariant of a passing run is also a theorem.

The type invariants of the modules with proofs are proved there; TLC checks only that
of `FeedGraph`, which says something about the code: no relationship is ever
doubled.  `Accounts` states its own as documentation, `DemoSeed`
and `ReviewPages` have none but the types in their inductive invariants.

## Not modelled, and the plan

Every component of `PROJECT.json` with behaviour over time has a module.  Not
modelled, and why:

* the layout of the frontend's pages, its style sheet and the tables of demo data;
  its follow button is `FollowUser` after a lookup;
* error handlers, response schemas and logging: mappings without state;
* the health pages, `check_service_registered` and `check_database`, which only read;
* the search of the catalog, which reads one collection in one call: what its regular
  expressions match is a question about MongoDB;
* `async_retry`, which nothing calls;
* Docker's networks and volumes, beyond the restarts the models assume.

Four sentences of the documents and of the page disagree with what the models show,
without a run that expects a violation of its own, because a property of a passing run
says exactly how far they hold:

* `specs/001-movie-review-platform/spec.md:142` has a token invalid after logout, and
  `plan.md:291` calls a just-issued token that is lost the worst a failover of Redis can
  do.  It can also bring a deleted token id back, and a promoted replica that restarts
  answers from its snapshot: `LoggedOutIsRejected` says when.
* `docs/architecture.md:424` has every protected endpoint answer 401 while Redis is out.
  `verify_token` catches `JWTError` only, so it fails with 500, and the gateway answers
  5xx: `PeerHidesLoss` excuses that with a call that is `shaken`.
* `spec.md:255` has the loss of an instance invisible to the caller; a POST that the
  lost instance has carried out is carried out twice (`api-gateway/app/main.py:95`).
  `AnswerMatchesStore` says that each surplus review has an instance that failed, and
  the same second try is behind the bounds of `CopiesNeedRivals` and
  `OrphansAreAccounted`.
* `frontend/app.py:1061` shows the score of a recommendation as the number of users who
  share the reader's taste.  It is `count(*)` over pairs of such a user and an item they
  share (`feed-service/app/repository.py:145`): one user with two shared movies counts
  as two users.  `RecommendationsAreShared` says that the number is right exactly where
  nobody shares two items.

What would add most next: `ReviewPages` over `FeedGraph`, so that the sections it shows
are those the queries answer; and theorems about the answer of `DemoOf` beyond what the
properties need.
