# A verification project for danube-py

`danube-py` is the asyncio client of the Danube messaging system: producers that
publish to plain or partitioned topics, consumers that feed a queue, and below
them topic lookup, connections, health checks and retries. This directory models
that client in TLA+. TLC checks the models on small instances; TLAPS proves their
safety, and that they implement abstract specifications, for all values of the
constants.

## 1. Inventory

| Part (`src/danube/`) | State | Operations | Talks to |
|---|---|---|---|
| `Producer` (producer.py) | `_producers`, `_message_router`, `_lock` | `create`, `send`, `send_with_key`, `close`, `_lookup_and_recreate` | TopicProducer, MessageRouter, LookupService |
| `TopicProducer` (topic_producer.py) | address triple, stub, `producer_id`, schema ids, `stop_event`, `_health_task` | `create`, `send`, `stop`, `_resolve_schema_metadata` | broker, LookupService, HealthCheckService, SchemaRegistryClient |
| `MessageRouter` (message_router.py) | `_last` (under a thread lock) | `round_robin`, `key_route` | |
| `RetryManager` (retry_manager.py) | the three options | `is_retryable`, `calculate_backoff`, `insert_proxy_header` | |
| `Consumer` (consumer.py) | `_consumers`, `_shutdown`, `_tasks`, the queue | `subscribe`, `receive`, `ack`, `nack`, `close`, one receive loop per partition | TopicConsumer, LookupService |
| `TopicConsumer` (topic_consumer.py) | address triple, stub, `consumer_id`, `stop_event`, `_health_task` | `subscribe`, `receive`, `send_ack`, `send_nack`, `stop` | broker, LookupService, HealthCheckService |
| `LookupService` (lookup_service.py) | request numbers | `handle_lookup`, `topic_partitions` | any broker |
| `HealthCheckService` (health_check.py) | request numbers; each loop captures id and address | `start_health_check` | the session's broker |
| `ConnectionManager` (connection_manager.py) | `ConnectionOptions` (shared with the builder), channel cache | `get_connection`, `resolve_token` | |
| `AuthService` (auth_service.py) | none | `attach_token_if_needed`, on every request | the application's token supplier |
| `DanubeClient`, `DanubeClientBuilder` (client.py) | uri, options | `service_url`, `with_*`, `build`, `schema` | all of the above |
| `ProducerBuilder`, `ConsumerBuilder` | fields, schema reference, list of key filters | `with_*`, `build` | |
| `SchemaRegistryClient` (schema_registry_client.py) | none; fields of `SchemaRegistrationBuilder` | one RPC per method | broker's registry |

**How they interact.** Everything runs on one asyncio loop: a coroutine runs
without interruption from one `await` that really suspends (an RPC, a sleep, a
full queue) to the next. `attach_token_if_needed` and `get_connection` never
suspend: nothing is awaited inside the connection manager's lock. What is shared
between coroutines: the `TopicProducer` of a partition (all senders, the creators
of `create()` and the health checks through `stop_event`), the router's counter,
the `TopicConsumer` (its receive loop, its health check, `close()`, `ack()`) and
the application's queue.

**What is hard here.** `send()` drops its lock before the retry loop, so two
tasks may re-create one `TopicProducer` at the same time. Lookup answers are
applied when they arrive, however old. A request whose RPC has failed may still
be carried out. A registration whose answer is lost makes the retry fail with
ALREADY_EXISTS. `asyncio.gather` abandons partitions half-way. Handles of health
checks are overwritten. A health check that meets an error ends in silence. Put,
cancellation and `stop_event` race in the receive loop. A schema reference is
resolved in two RPCs while versions come and go, by several tasks at once.
Options and filter lists are shared by reference with builders that are still in
use. `PROJECT.json` lists all
these hazards at their lines.

**What makes each part correct.** *Producer*: what is acknowledged is stored, in
the partition the call selected, in the order of a task's calls, and twice only
if the client could not know; calls return; `close()` ends all background work;
a healthy cluster is found again. *Router*: balance, and one partition per key.
*RetryManager*: every option combination gives a loop that sleeps and ends.
*Consumer*: no gaps, one health check per partition, a working `close()`; a loop
that has not ended reconnects, and brings in the end what is stored or nacked.
*Schema*: every message carries a version that the producer's reference admits.
*Setup*: channels and tokens are those configured, in whatever order the calls were
made, and no key that a consumer asked for is lost.

## 2. Modules

| Module | Models |
|---|---|
| `RetryManager` | option defaults, retryable codes, backoff window, routing header (operators) |
| `BackoffLoop`, `BackoffLoopProofs` | one retry loop over all option values |
| `MessageRouter` | `round_robin`, `key_route` (operators) |
| `Fnv1a` | the hash of `key_route` on 64-bit words of four limbs (operators) |
| `RouterUse`, `RouterUseProofs` | a router under calls of both kinds |
| `Cluster` | *external*: brokers, owners, sessions, crashes, moves, RPC faults |
| `Connection` | address triple, stub, route of an RPC, `stop()`; shared by both objects |
| `TopicProducer`, `TopicConsumer` | the two per-partition objects as records, and their stretches of code |
| `Producer`, `ProducerProofs` | the composition: application tasks, creators, lookups, health checks, requests in flight, partition logs |
| `ReliableLog`, `ProducerPromise` | what a producer promises, without how: the abstract specification that `Producer` implements, and the proof; proofs about order and duplicates |
| `ProducerRecovery`, `ProducerRecoveryProofs` | `Producer` with a history variable, for reconnection; proofs about retries and recovery |
| `Consumer` | subscribers, receive loops, streams, the queue, health checks |
| `Subscription`, `ConsumerProofs` | what a consumer promises, without how: the abstract specification that `Consumer` implements; the proof, and those of the invariants |
| `SchemaRegistry` | *partly external*: the versions of one subject, and the calls of the registry client that read or change them |
| `SchemaProducer`, `SchemaProducerProofs` | a `ProducerBuilder`, and a producer with a schema reference: registration, `_resolve_schema_metadata`, `send()`, for several tasks |
| `ConnectionManager` | options, token, credentials, key and cache of channels (operators; `auth_service.py` included) |
| `ClientSetup`, `ClientSetupProofs` | client, consumer and registration builders, and the requests of what they build |
| `MC*` | values for TLC |

`Producer` extends `TopicProducer` and `MessageRouter`; `TopicProducer` and
`TopicConsumer` extend `Connection`, which extends `Cluster`, which extends
`RetryManager`. `SchemaProducer` extends `RetryManager` and `SchemaRegistry`;
`ClientSetup` extends `ConnectionManager`.

**State and code.** `tp[p]` and `tc[p]` are the objects, field by field, without
what no property tells apart (payloads, attributes, names, request numbers).
`_health_task` is represented by the id of the session the task watches.
`health[p]` is the set of loops that still run, whether or not anybody has a
handle. `pc[t]` names the `await` a task is suspended at; each action is the
stretch of code that follows, up to the next one. `rpc[t]` is the address and
header of the lookup or registration in flight, captured when it was sent;
`net` holds SendMessage requests, likewise captured. Locals that survive an
`await` are variables (`attempts`, `createAttempts`, `partition`, `key`). A
lookup has two steps, the broker's answer (`ServeLookup`) and its use
(`LookupReturns`), so that answers can be stale. A SendMessage request stays in
`net` when its RPC fails at the client, and may be stored later (`SendFault`,
`StoreMessage`). Both CreateProducer and Subscribe can succeed at the broker with
the answer lost (`CreateLost`, `SubscribeLost`). `SchemaProducer` looks at the
part of a producer that `Producer` reduces to an outcome, and leaves out what
does not touch the schema: addresses, lookups, health checks, late requests.

History variables: `seen`, `taken`, `nacked` in `Consumer` (what the application
was given, took and sent back), `overlapped` in `SchemaProducer` (another
re-creation ran beside that of the task), `explicit`, `refreshing` and the `asked`
field of a consumer in `ClientSetup` (what the calls of the builders asked for).
No action reads them except `nacked`, which keeps the application from nacking a
message twice in a row.

**The environment** is an assumption of the client's view: an owner per
partition, at most one session per name, any broker that is up answers lookups,
sessions die with their broker or when the partition moves, logs survive, a new
stream begins at the first unacknowledged message. Without proxy mode
connections go straight to brokers; with it all go to the gateway, which follows
the header, or picks any broker when there is none. A broker without the topic
or session answers with some code of `RejectCodes`: the repository does not say
which. Every RPC is answered or fails: the code sets no deadlines, so this is
assumed of brokers and channel. A registration and the arrival of its answer are one
step (`CreateAccepted`, also in `SchemaProducer`, and `SubscribeAccepted`), unless
the answer is lost. So the model has no answer that arrives after its session was
lost and another task has registered, and then overwrites the id of the new session.

**Restrictions.** `create()`, `subscribe()` and `receive()` are called once, and
`close()` after the first two have returned or raised. `_recreate_producer`
cannot be reached (the stub is never `None` again) and has no action. All that
can fail when a stream is opened is the application's token supplier
(`SupplierRaises`); its exception is not a gRPC error, so of the except branches
around `consumer.receive()` only the last one, which ends the loop, is reached.
`Producer` takes the router's hash as a constant function `Hash`; `MCRouterUse`
takes the remainders of real hashes. A subject keeps its `schema_id`, so a schema
is told by its version. In `SchemaProducer`, which has no addresses, every failure of
a registry call counts as a fault; in `Producer` it does not while `client.uri` is
down. `with_token("")`, which enables TLS with an empty token (client.py:93-96), is
left out: `ClientSetupAssumption` keeps tokens apart from none.

Some operators are marked *A defect to detect*. No specification uses them; each
is a plausible mistake in the operator that follows it, and taking it instead
must break a property (`mutants` in `PROJECT.json`).

## 3. Runs

| Run | Instance | Checks |
|---|---|---|
| `producer_shared` | 2 tasks, plain topic, 2 brokers, 2 faults, 1 retry, fair | `AckedIsStored`, `DuplicatesNeedFaults`, `SendsNeedFaults`, `SendReturns`, `CloseStopsHealth` |
| `producer_partitions` | 2 partitions, gateway, schema, 2 calls with or without key, 1 fault | `TypeOK`, `IndInv`, `OnePartitionPerMessage`, `KeyStaysInPartition`, `CallOrderKept`, `KeepsPromise` |
| `recovery_proxied` | 3 brokers, gateway, 2 calls of one task, 2 crashes or moves | `CalmSendSucceeds` |
| `router_use` | 3 partitions, hashes of six real keys, 4 messages per partition and kind | `TypeOK`, `Balanced`, `RoundUnderWay`, `PublishedRoute` |
| `backoff` | all combinations of 7 values for the options | `TypeOK`, `RetryPossible`, `SleepInBounds` |
| `consumer_faults` | 1 partition, 3 messages, 2 faults, queue of 1, stream window 2, a supplier that raises | `IndInv`, `OneHealthCheck`, `ClosedForGood`, `NoGap`, `KeepsPromise` |
| `consumer_reconnect` | 2 partitions, one of which moves twice between live brokers, nacks, fair | `SessionsWatched`, `EndsByMoves`, `Reconnects`, `EverythingArrives`, `NackedComesAgain`, `NothingAfterClose` |
| `schema` | 2 tasks, 2 versions, all kinds of references, 2 faults, fair | `TypeOK`, `IndInv`, `VersionAsReferenced`, `OlderVersionNeedsOverlap`, `CallsReturn` |
| `client_setup` | 2 clients, 2 consumers, 2 addresses, 2 TLS configurations, a token, a supplier with 2 values | `IndInv`, `NoKeyLost`, `ChannelsAsConfigured`, `ChannelsKept`, `SupplierAskedEachTime` |
| `producer_close_leak` | 2 partitions, 1 fault | `CloseStopsAllHealthChecks`, violated |
| `recovery_direct` | 2 brokers, no gateway, 1 fault | `CalmSendSucceeds`, violated |
| `consumer_crash` | 1 partition, 1 crash and restart | `Reconnects`, violated |

**What the passing runs show.** *Producer.* An acknowledged message is stored; a
second copy needs an RPC that failed while its request went through, one per
copy; a task that awaits each call never finds a later message stored before an
earlier acknowledged one; keys stay in their partition through retries and
failovers. Seen through calls, results and logs the producer is `ReliableLog`
(`KeepsPromise`): a call picks a partition once, copies go there and nowhere else,
and a call returns only in the step that stores a copy. Both levels of the retry
loop end although each starts over after a re-creation: a call makes at most
`Retries + 1` requests, and as many again for each fault, also when other tasks
re-create the object it uses. Behind a gateway a call that meets a healthy cluster
from its start to its end does not raise, whatever came before. `close()` ends every
health check of a producer, zombies included, because all of them share
`stop_event`.

*Router.* Round robin is fair whatever keyed messages come between, and keys hash
to the published FNV-1a values and go to the partitions those give. That the limbs
multiply like 64-bit words is an assumption of `MCRouterUse` (`WrapsAround`) that TLC
evaluates, with limbs of three bits, where both sides can be computed.

*Consumer.* Seen through the log, the queue and the acknowledgements it is
`Subscription`: a message may be delivered as soon as it is stored and those
before it were delivered, any number of times, never into a full queue and never
after `close()`. A consumer that was closed stays closed even if a loop was
waiting in `put()` or re-subscribing; it never has two health checks for one
partition; messages dropped at a session change come again before later ones.
Where partitions only move, a loop whose session is gone always hears of it
(`SessionsWatched`), and nobody gives up unless the partition has moved on since the
lookup (`EndsByMoves`). A loop does give up then, and for good (see *Observations*).
As long as it has not (`Served`), it finds its partition again after both moves, and
everything that is stored, or was nacked, arrives, also if the session that took the
nack is lost. The one exception is a `put()` that is passed over for ever
(`PassedOver`): it waits while other loops fill the queue again and again.

*Schema.* Every message carries a version that the reference admits, whatever is
registered or deleted between the two calls of the registry, whichever re-creation
fails half-way, and however the builder is used afterwards. A re-creation goes back
to an older version only if the newer one was deleted or another re-creation ran
beside it.

*Setup.* New channels use the credentials configured so far, explicit ones before
the default that a token brings; a cached channel is never replaced; a supplier is
asked for every request. Builders may be used again after `build()`: a consumer
takes at least the keys it was built for, and possibly more (see *Observations*).

**Findings.** Each is a sentence of the repository that the code does not keep.

* `producer_close_leak` (producer.py:193). If `create()` fails for one
  partition, `_producers` stays empty and `close()` stops nothing.
  `Consumer.subscribe`/`close` (consumer.py:84, 132) have the same shape.
* `recovery_direct` (README.md:38). After a failover the only address ever asked
  for the owner is the last broker's. If that broker is gone for good, so is the
  producer, although `client.uri` is up.
* `consumer_crash` (README.md:38). The health check swallows the connection
  error; `stop_event` stays clear; the loop reopens the dead stream for ever and
  without a pause.

**Observations without a run.**

* If a partition moves once more between the answer to a lookup and Subscribe, the
  broker asked may answer NOT_FOUND. That is not retried, and consumer.py:198-200 ends
  the loop for good: the partition is silent while the cluster is healthy and the
  consumer in use. Two moves are enough; with `InUse` in place of `Served`,
  `Reconnects`, `EverythingArrives` and `NackedComesAgain` are all violated in
  `consumer_reconnect`.
* `asyncio.Queue.put` can be passed over. A `get()` wakes the oldest `put()` that
  waits, but a loop that runs first may take the room, and the woken `put()` then
  waits again, behind the others. Without `PassedOver`, `Reconnects` and
  `EverythingArrives` are violated.
* A token supplier that raises when a stream is opened ends the loop
  (consumer.py:172-174), with a line in the log. Its health check goes on until
  `close()`, and nothing starts the loop again.
* Two tasks whose retries are used up reconnect the same partition; the second
  gets ALREADY_EXISTS (topic_producer.py:97) and raises in a healthy cluster.
  `CalmSendSucceeds` is violated when `MCProducerRecoveryProxied.cfg` is given two
  senders.
* Two overlapping re-creations store the versions they resolved in the order in
  which the answers arrive, so the older one may stay (topic_producer.py:113):
  without `overlapped[t]` in it `OlderVersionNeedsOverlap` is violated.
* When the registry turns down `create()` the producer's name is registered
  already (topic_producer.py:101-115), and its health check runs: a second
  `create()` meets ALREADY_EXISTS.
* `build()` shares: clients of one builder share its options, also those set
  later (client.py:121), and a consumer that was built with key filters shares
  the builder's list (consumer.py:58), so a re-subscription asks for filters that
  were added for the next consumer. No key is lost by it (`NoKeyLost`), but a
  subscription may take more keys than it was built for, although "key filters
  restrict which messages a consumer receives"
  (integration_tests/test_key_shared.py:128).
* The comment at topic_producer.py:55-57 ("proxy routing headers are present from
  the very first RPC") does not hold when that first lookup fails, because the
  failure is swallowed.
* The order promised per key (producer.py:157-158) is one of first copies
  (`CallOrderKept`): a late second copy of a repeated request can be stored
  behind a later message.

**Bounds.** `MaxFaults` bounds crashes, moves of healthy partitions and RPC
faults together; restarts and moves off dead brokers are free. One fault per
leg of a protocol (registration, send, lookup) shows each failure path, two
their combination (a lost answer and then a failover). `MaxRetries = 1` lets each
loop go round once and give up; more retries only repeat the same stretch.
`MaxSends`/`MaxMsgs` of 2 or 3 are the least at which order and gaps exist; with
two messages sent ahead (`InFlight`) a session change finds one in the stream and
one on the way. A queue with room for one message makes `put()` wait. In
`consumer_reconnect` one message per partition is enough for two loops to compete
for the room in the queue. Its `MaxFaults = 2` are two moves, so that the second can
come at any point of the re-subscription after the first; `MCFairSpec` keeps to
behaviours in which one of the two partitions, which are alike, does all the moving. `MaxVersion = 2` gives an older, a newer and a deleted
version; a pinned version may be absent (2 at first), newer, equal or older than
the latest. `MaxConfigure = 2` lets a reference be set and replaced before or
after `build()`. In `client_setup` one channel per client (`MaxChannels`), two
clients and two consumers show sharing by reference; its two sides share no
variable, and TLC looks at behaviours in which one of them moves (`MCSpec`). All
other behaviours end when the application stops calling, hence
`CHECK_DEADLOCK FALSE` there.

**Fairness.** Weak fairness of each task's own steps and the answers to them
(asyncio resumes what is ready; an RPC is answered or fails), of the answer to a
message's outstanding requests, and of `HealthStops` (a loop wakes up at least
every interval and reads `stop_event`). For the consumer also of `HealthClose`
(a loop that a broker can answer is answered within its interval), of `Dispatch`
and `Redeliver` (brokers send what they have and what was nacked; a broker with
several messages in hand would have to be fair to each, which weak fairness says
only for an instance with one per partition), and of `Take` (the application drains
its queue). A `put()` that waits returns if there stays room in the queue; it is
given no strong fairness, because `asyncio.Queue` guarantees no turn to one whose
room another loop takes each time; hence the exception of `PassedOver`. In
`SchemaProducer` weak fairness of each task's steps. There is no fairness on
calls, on faults, on repairs, on new messages or versions, nor on the failure of a
health check.

## 4. Proofs

| Theorem | Module | States |
|---|---|---|
| `ProducerIndInv`, `ProducerTypeOK` | `ProducerProofs` | `Spec => []IndInv`, `Spec => []TypeOK` |
| `ProducerAckedIsStored`, `ProducerOnePartition`, `ProducerKeyStaysInPartition` | `ProducerProofs` | `Spec => []AckedIsStored` and so on |
| `ProducerStoppedForGood` | `ProducerProofs` | `Spec => [](StoppedForGood /\ CreateEnded)` |
| `ProducerKeepsPromise` | `ProducerPromise` | `Spec => KeepsPromise`, that is `Spec => Promise!Spec` |
| `ProducerCallOrderKept` | `ProducerPromise` | `Spec => []CallOrderKept` |
| `ProducerFaultsPay`, `ProducerDuplicatesNeedFaults` | `ProducerPromise` | `Spec => [](FaultsPay /\ RequestsNumbered)`, `Spec => []DuplicatesNeedFaults` |
| `ProducerRetriesPaid`, `ProducerSendsNeedFaults` | `ProducerRecoveryProofs` | `Spec => []RetriesPaid`, `Spec => []SendsNeedFaults` |
| `ProducerRecoveryInv`, `ProducerCalmSendSucceeds` | `ProducerRecoveryProofs` | if `Recoverable`: `RecoverySpec => []RecoveryInv`, `RecoverySpec => CalmSendSucceeds` |
| `RouterTypeOK`, `RouterRoundUnderWay`, `RouterBalanced` | `RouterUseProofs` | `Spec => []Balanced` and so on |
| `BackoffTypeOK`, `BackoffRetryPossible`, `BackoffSleepInBounds` | `BackoffLoopProofs` | `Spec => []RetryPossible` and so on, `Spec => SleepInBounds` |
| `ConsumerControlInv`, `ConsumerOneHealthCheck`, `ConsumerClosedForGood` | `ConsumerProofs` | `Spec => []ControlInv` and so on |
| `ConsumerIndInv`, `ConsumerTypeOK`, `ConsumerNoGap` | `ConsumerProofs` | `Spec => []IndInv` and so on |
| `ConsumerKeepsPromise`, `ConsumerNothingAfterClose` | `ConsumerProofs` | `Spec => KeepsPromise`, `Spec => NothingAfterClose` |
| `ConsumerSessionsWatched`, `ConsumerEndsByMoves` | `ConsumerProofs` | if `OnlyMoves`: `Spec => []SessionsWatched`, `Spec => EndsByMoves` |
| `SchemaProducerIndInv`, `SchemaProducerTypeOK`, `SchemaProducerVersionAsReferenced` | `SchemaProducerProofs` | `Spec => []IndInv` and so on |
| `SchemaProducerOlderVersion` | `SchemaProducerProofs` | `Spec => OlderVersionNeedsOverlap` |
| `ClientSetupIndInv`, `ClientSetupTypeOK`, `ClientSetupNoKeyLost` | `ClientSetupProofs` | `Spec => []IndInv` and so on |
| `ClientSetupChannelsKept`, `ClientSetupChannelsAsConfigured`, `ClientSetupSupplierAskedEachTime` | `ClientSetupProofs` | `Spec => ChannelsKept` and so on |

Assumptions: the named `ASSUME`s of the modules (partitions are numbered from 0,
hashes are naturals, options are integers, special values are distinct from
ordinary ones, the gateway is not a broker). Nothing else is assumed of the
number of brokers, partitions, tasks, keys, calls, messages, versions, retries or
faults, nor of the size of the queue. Only the theorems about recovery have
hypotheses of their own. Those about the producer have `Recoverable`. The instance of `recovery_proxied` satisfies
it, and so do instances with several partitions and with a schema. It says that

* connections go through a gateway (otherwise: `recovery_direct`);
* some broker never crashes, or there are more brokers than faults (otherwise a
  lookup may fail with all brokers down, and because `create()` swallows that failure
  the object goes on without proxy mode, hence without routing header);
* RPCs fail only when a broker is down or does not have what is asked for
  (otherwise the lost answer to a CreateProducer makes the next one meet
  ALREADY_EXISTS, which is not retried, in a healthy cluster);
* a broker turns down with a code that is retried (NOT_FOUND is not, and a call that
  meets it raises at once);
* one task sends (two may re-create the same object, see *Observations*).

Those about the consumer have `OnlyMoves`, which `consumer_reconnect` satisfies: no
broker crashes (otherwise: `consumer_crash`), no RPC fails for no reason (a health
check ends in silence, and a lost answer to Subscribe is followed by ALREADY_EXISTS),
and the token supplier raises nothing (its exception ends the loop).

*Producer.* The inductive invariant is `IndInv` in `Producer.tla`, which
`producer_partitions` also checks. A copy is in the right partition only if the
request it came from was (`RequestsRouted`), which needs that nobody changes the
partition of a call under way (`CallsUnderWay`, `PartitionsOfCalls`) and that
creators and senders keep to their own program points (`TaskStates`); a key
determines the partition (`KeysRouted`); types need that a routing header always
names a broker (`GoodProducers`). Each shared stretch of code has a lemma, each
action has one, and `TaskStepInv`/`DeliveryKept` carry what all harmless steps
have in common.

*The producer's promise.* `KeepsPromise` is a step simulation with the variables as
they are. Every step has one of five effects on calls, results and logs (nothing, a
call that begins, one that is turned down, a stored copy, one that raises), and
each effect is an abstract step or a stutter. The abstract guards speak of
results, those of the code of what tasks wait for; `CallStates` (a call is
pending exactly while its task is busy with it) connects the two and is
preserved together with `IndInv`.

*Order of the calls.* `CallOrderKept` is preserved by the same five effects. It can
break in two ways. A copy of call k is stored after an earlier call j was
acknowledged: then j is in the log (`AckedIsStored`). Or j is acknowledged while
a copy of k is in the log: then k has been called (`OnePartitionPerMessage`,
`PartitionsOfCalls`), which a task does only after j has ended (`CallStates`).
That requests of ended calls are still in flight does no harm.

*Duplicates.* `DuplicatesNeedFaults` is not inductive: a request that was given up
on is a second copy yet to come, and a stored copy whose call goes on retrying
makes a second one of the retry's. `FaultsPay` counts both with the second copies:
the sum is at most the number of faults. A fault adds one request given up on;
storing that request turns it into a second copy, or into a first copy not yet
acknowledged; storing the awaited request of such a message makes a second copy
and acknowledges the message. All other steps leave each set as it is or make it
smaller. `RequestsNumbered` (a message and the number of an attempt identify a
request) is needed to see that a task gives up on one request at a time.

*Retries.* The counter of `send()` says nothing about the number of its requests,
because it starts over after a re-creation. But a re-creation succeeds only where no
session is left, and after `create()` sessions are lost by faults only. So the number
of faults plus the live sessions of a partition (none or one) never shrinks, and a
re-creation adds one to it. `RequestsPaid` charges the requests of earlier rounds to
that sum and lets those of the present round (`Spent`) be at most `Retries + 1`.
When another task re-creates the object first, the CreateProducer of this one meets
ALREADY_EXISTS and it raises: nothing is charged twice. Taking a live session off the
sum leaves `SendsNeedFaults`.

*Recovery.* `CalmSendSucceeds` needs to know of every program point why a call
cannot raise there. `ObjectsFit` holds in all states, calm or not: a live session is the
one the object knows, at the broker the object names; a task that looks for the
owner, or registers, does so where the session is gone, through the gateway and in
proxy mode; the request it waits for is the one the object would send now.
`CalmCallsInformed` is about calls under way since the cluster was last disturbed: the
answer of their lookup names the owner, their first CreateProducer goes there, and
the retries of `create()` are never reached. Then each step that would raise
contradicts one of the two: the lookup finds a broker, the registration finds no older
session, and a send after it finds the session just made, before a retry runs out.
Each action has a lemma that carries `ObjectsFit` over.

*Close.* `CloseStopsHealth` is liveness, but what it rests on is safety and proved:
once a created producer is closed, `stop_event` of every object is set
(`StoppedForGood`), which is all that a health check waits for, also one that a
re-creation starts later. No code clears the event. That `create()` does not
succeed after a `close()` that found nothing to stop is `CreateEnded`: it has
failed on a partition whose creator is not started again.

*Router.* `Balanced` says nothing about whose turn it is; `RoundUnderWay`
(partitions after `_last` are one behind) does and is inductive.

*Backoff.* Once `__init__` has replaced non-positive options, the product
`base * (attempt + 1)` is positive, hence the window passed to `random.randint`
is never empty and lies between half the linear backoff and the cap.

*Consumer, control.* That one health check runs per partition is not inductive: a
Subscribe starts one, so none may be running while a session is set up
(`HealthChecks`). A loop sets one up only after `stop_event`, which the health
check sets as its last act; the other one who sets it, `close()`, leaves no loop
behind that could go on (`ClosedForGood`), which depends on where loops can be
after each call of the application (`TaskStates`). `ControlInv` is inductive
without a word about messages. The proof shows why `consumer_crash` is about
liveness only: a health check that ends in silence breaks none of this.

*Consumer, messages.* The code never compares two messages. That no message is
delivered before an earlier one rests on `StreamsInOrder`: what was not delivered
is in the hands of the loop, or before it on the stream, or the stream is a new one
that begins with the first unacknowledged message; and what is acknowledged was
delivered (`MessageStates`). It is preserved when a loop drops what it has read,
because it drops the stream as well. With it every step is one of `Subscription`
or a stutter (`ConsumerKeepsPromise`); `ConsumerNothingAfterClose` follows from
that. `consumer_faults` checks `IndInv`.

*Consumer, reconnection.* `SessionsWatched` is what the liveness of `Reconnects` rests
on, and `MovesInv` its inductive form. A live session is the one the object knows, at
the broker the object names, and the health check asks that broker (`Watched`): so
CLOSE is answered only for a session that is lost, and for every one that is. Since
`stop_event` is set only then, nobody looks for a broker while a session is alive, and
Subscribe, which goes where the last lookup led (`Addressed`), is turned down only
by a broker that the partition has left. While a session is set up anything may
happen to the addresses: there is neither a session nor a health check then.

*Schema.* The stored version is one that the reference admits (`VersionAdmitted`)
because every answer under way fits the call that was made (`TaskAdmitted`),
whatever the registry has done since, and the reference does not change after
`build()` (`NothingBeforeBuild`). For `OlderVersionNeedsOverlap` one must know that
a re-creation beside which no other ran has nobody to replace the version between
its answer and its use (`Alone`); that the answer for the latest version is not
older than a version that exists is `NewestVersion`. `schema` checks `IndInv`.

*Setup.* `OptionsInStep` says what the options hold of the calls made so far, in
whatever order: `ChannelsAsConfigured` and `SupplierAskedEachTime` follow for each
step. `FiltersKept` says that a list shared with the builder only grows and that
a consumer built without filters has one of its own; `NoKeyLost` follows.
`client_setup` checks `IndInv` on the behaviours of `MCSpec`, the proof is about
all of `Spec`.

**Only model-checked.** Liveness, since the prover has no rules for fairness and
ENABLED: `SendReturns`, `CloseStopsHealth`, `Reconnects`,
`EverythingArrives`, `NackedComesAgain`, `CallsReturn`. And `PublishedRoute`: the XOR
of the hash is defined by recursion, and the property is about particular keys.
`CallStates`, `FaultsPay`, `RequestsNumbered`, `RetriesPaid`, `RecoveryInv`, `MovesInv`,
`StoppedForGood`, `CreateEnded`, and `ControlInv` on its own, are in no run; the
theorems state them for all instances.

## 5. Not modelled

* What brokers decide: key matching, subscription types, compatibility of schemas,
  validation of payloads, delays and reasons of a nack. The requests are modelled,
  their effect at the broker only as far as the client can tell it.
* `ValueError` and file errors of the builders, which change nothing.
* Enumerations, data classes, exception types and generated code: no behaviour.
* Examples and integration tests: uses of the library.
* `ConnectionOptions.internal_broker`, which no code sets, and
  `Producer._recreate_producer`, which no state reaches.
* RPCs that are never answered: the code sets no deadlines, and no call could be
  shown to return.

## 6. Plan

Done: 1. `Cluster`, `RetryManager`, `Connection`; 2. `TopicProducer`, `Producer`
and its inductive invariant; 3. `BackoffLoop`, `RouterUse`; 4. `TopicConsumer`,
`Consumer`; 5. the abstract specification `ReliableLog` and the proof that
`Producer` implements it; 6. `Subscription`, nacks, publishing and the liveness of
the consumer; 7. `Fnv1a`; 8. `SchemaRegistry`, `SchemaProducer`; 9.
`ConnectionManager`, `ClientSetup`; 10. proofs of every invariant, action property
and implementation that the passing runs check, except `PublishedRoute`; 11. that
the retries of a call are paid for by faults, and that a producer behind a gateway
recovers; 12. that a consumer hears of a partition that moved.

What could be proved next: what `create()` leaves at the broker when the registry
turns it down, and from `SessionsWatched` and the fairness of `HealthClose` that a
loop reconnects, if a prover for fairness becomes available.
