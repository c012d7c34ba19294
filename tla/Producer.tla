------------------------------ MODULE Producer ------------------------------
(***************************************************************************)
(* danube/producer.py with the coroutines of danube/topic_producer.py,     *)
(* danube/message_router.py, danube/lookup_service.py and                  *)
(* danube/health_check.py that run under it.                               *)
(*                                                                         *)
(* One Producer object is shared by several application tasks (Senders)    *)
(* that call send() and send_with_key(), each one call after the other.    *)
(* create() starts one task per partition (asyncio.gather), named here by  *)
(* the partition. A task runs without interruption from one await of an    *)
(* RPC or a sleep to the next; pc[t] says what it is waiting for:          *)
(*                                                                         *)
(*   new, done, failed   a creator before, after, and after an exception   *)
(*   idle                a sender between two calls                        *)
(*   sending             the answer of SendMessage                         *)
(*   backoff             asyncio.sleep in the loop of Producer.send        *)
(*   relook              TopicLookup in Producer._lookup_and_recreate      *)
(*   lookup              the TopicLookup that opens TopicProducer.create   *)
(*   creating            the answer of CreateProducer                      *)
(*   schema              the answers of the schema registry                *)
(*   lookupAgain         TopicLookup in the loop of TopicProducer.create   *)
(*   createBackoff       asyncio.sleep in the loop of TopicProducer.create *)
(*                                                                         *)
(* Two branches of the code cannot be taken and have no action: send()     *)
(* raises UnrecoverableError only when the stub is None, which it never    *)
(* is again after create(), so _recreate_producer is not reached.          *)
(***************************************************************************)
EXTENDS TopicProducer, MessageRouter

CONSTANTS NumPartitions,   \* Producer._partitions; 0 is a plain topic
          Senders,         \* application tasks
          Keys,            \* routing keys
          Hash,            \* Hash[k]: _fnv1a_hash of routing key k
          MaxSends,        \* calls of send() per sender
          MaxRetries,      \* ProducerOptions.max_retries
          UseSchema,       \* whether the producer has a schema_ref
          NoAddr,          \* a lookup without an answer
          NoPart,          \* a message without a partition
          NoKey            \* a message without a routing key

ASSUME ProducerAssumption ==
    /\ NumPartitions \in Nat
    /\ Parts = IF NumPartitions = 0 THEN {0} ELSE 0 .. (NumPartitions - 1)
    /\ Hash \in [Keys -> Nat]
    /\ MaxSends \in Nat
    /\ MaxRetries \in Int
    /\ UseSchema \in BOOLEAN
    /\ Senders \cap Parts = {}
    /\ NoAddr \notin BrokerAddress
    /\ NoPart \notin Parts
    /\ NoKey \notin Keys

VARIABLES tp,          \* tp[p]: the TopicProducer of partition p
          health,      \* health[p]: the health check tasks that still run
          created,     \* self._producers is filled
          locked,      \* create() holds self._lock
          closed,      \* close() was called
          last,        \* MessageRouter._last
          pc,          \* what each task waits for
          rpc,         \* rpc[t]: route of the lookup or create that t awaits
          answer,      \* answer[t]: lookup answer on its way to t
          attempts,    \* local variable of Producer.send
          createAttempts,  \* local variable of TopicProducer.create
          sent,        \* number of calls each sender has made
          key,         \* routing_key, the argument of the call that sends m
          partition,   \* partition_id, the local of the call that sends m
          tries,       \* number of SendMessage requests made for m
          result,      \* what the call that sends m has come to
          net,         \* SendMessage requests no broker has handled yet
          log          \* log[p]: the messages stored in partition p

objectVars == <<tp, health, created, locked, closed, last>>
callVars == <<sent, key, partition, tries, result>>
vars == <<clusterVars, objectVars, pc, rpc, answer, attempts, createAttempts,
          callVars, net, log>>

Tasks == Parts \cup Senders
Msgs == Senders \X (1 .. MaxSends)
Cur(t) == <<t, sent[t]>>            \* the message that t is sending
Retries == Effective(MaxRetries, DEFAULT_MAX_RETRIES)

\* The partition whose TopicProducer task t is working with.
PartOf(t) == IF t \in Parts THEN t ELSE partition[Cur(t)]

Init ==
    /\ ClusterInit
    /\ tp = [p \in Parts |-> NewTopicProducer]
    /\ health = [p \in Parts |-> {}]
    /\ created = FALSE
    /\ locked = FALSE
    /\ closed = FALSE
    /\ last = FirstLast(NumPartitions)
    /\ pc = [t \in Tasks |-> IF t \in Parts THEN "new" ELSE "idle"]
    /\ rpc = [t \in Tasks |-> [url |-> NoUrl, header |-> NoHeader]]
    /\ answer = [t \in Tasks |-> NoAddr]
    /\ attempts = [t \in Senders |-> 0]
    /\ createAttempts = [t \in Tasks |-> 0]
    /\ sent = [t \in Senders |-> 0]
    /\ key = [m \in Msgs |-> NoKey]
    /\ partition = [m \in Msgs |-> NoPart]
    /\ tries = [m \in Msgs |-> 0]
    /\ result = [m \in Msgs |-> "new"]
    /\ net = {}
    /\ log = [p \in Parts |-> <<>>]

-----------------------------------------------------------------------------
(***************************************************************************)
(* Stretches of code shared by several actions. Each ends at an await.     *)
(***************************************************************************)

\* A defect to detect: the channel repeats the request by itself.
StartSendMessageTwice(t, m, p, q) ==
    /\ tries' = [tries EXCEPT ![m] = @ + 2]
    /\ net' = net \cup {SendRequest(q, p, m, tries[m] + i) : i \in 1 .. 2}
    /\ pc' = [pc EXCEPT ![t] = "sending"]

\* TopicProducer.send by t for message m, with object q of partition p.
StartSendMessage(t, m, p, q) ==
    /\ tries' = [tries EXCEPT ![m] = @ + 1]
    /\ net' = net \cup {SendRequest(q, p, m, tries[m] + 1)}
    /\ pc' = [pc EXCEPT ![t] = "sending"]

\* LookupService.lookup_topic at url, awaited at program point place.
StartLookup(t, url, place) ==
    /\ pc' = [pc EXCEPT ![t] = place]
    /\ rpc' = [rpc EXCEPT ![t] = [url |-> url, header |-> NoHeader]]
    /\ answer' = [answer EXCEPT ![t] = NoAddr]

\* _try_create up to the await of CreateProducer, with object q.
StartCreateProducer(t, q) ==
    LET c == Connect(q) IN
    /\ tp' = [tp EXCEPT ![PartOf(t)] = c]
    /\ rpc' = [rpc EXCEPT ![t] = Route(c)]
    /\ pc' = [pc EXCEPT ![t] = "creating"]
    /\ answer' = [answer EXCEPT ![t] = NoAddr]

\* A defect to detect: the exception is logged and not passed on.
EndCallSwallows(t, outcome) ==
    /\ result' = [result EXCEPT ![Cur(t)] = "ok"]
    /\ pc' = [pc EXCEPT ![t] = "idle"]

\* The call of sender t ends: with a result or with an exception.
EndCall(t, outcome) ==
    /\ result' = [result EXCEPT ![Cur(t)] = outcome]
    /\ pc' = [pc EXCEPT ![t] = "idle"]

\* TopicProducer.create raises: gather passes the exception of a creator on and
\* create() releases the lock, the other creators keep running; in a sender the
\* exception leaves send().
CreateRaises(t) ==
    \/ /\ t \in Parts
       /\ pc' = [pc EXCEPT ![t] = "failed"]
       /\ locked' = FALSE
       /\ UNCHANGED result
    \/ /\ t \in Senders
       /\ EndCall(t, "raised")
       /\ UNCHANGED locked

\* The except branch of TopicProducer.create for an error with this code.
CreateError(t, code) ==
    \/ /\ is_retryable(code)
       /\ createAttempts[t] + 1 <= Retries
       /\ createAttempts' = [createAttempts EXCEPT ![t] = @ + 1]
       /\ StartLookup(t, tp[PartOf(t)].connect_url, "lookupAgain")
       /\ UNCHANGED <<locked, result>>
    \/ /\ ~ is_retryable(code) \/ createAttempts[t] + 1 > Retries
       /\ CreateRaises(t)
       /\ UNCHANGED <<createAttempts, rpc, answer>>

\* TopicProducer.create returns, with object q: create() of a Producer is done
\* when its last creator is; send() goes round its loop with attempts = 0.
CreateReturns(t, q) ==
    \/ /\ t \in Parts
       /\ pc' = [pc EXCEPT ![t] = "done"]
       /\ created' = (\A p \in Parts : pc'[p] = "done")
       /\ locked' = (locked /\ ~ created')
       /\ UNCHANGED <<attempts, tries, net>>
    \/ /\ t \in Senders
       /\ attempts' = [attempts EXCEPT ![t] = 0]
       /\ StartSendMessage(t, Cur(t), PartOf(t), q)
       /\ UNCHANGED <<created, locked>>

-----------------------------------------------------------------------------
(***************************************************************************)
(* Calls of the application.                                               *)
(***************************************************************************)

\* Producer.create, up to the first await of each task that gather starts.
Create ==
    /\ ~ locked
    /\ \A p \in Parts : pc[p] = "new"
    /\ locked' = TRUE
    /\ pc' = [t \in Tasks |-> IF t \in Parts THEN "lookup" ELSE pc[t]]
    /\ rpc' = [t \in Tasks |-> IF t \in Parts
                               THEN [url |-> tp[t].connect_url, header |-> NoHeader]
                               ELSE rpc[t]]
    /\ UNCHANGED <<clusterVars, tp, health, created, closed, last, answer,
                   attempts, createAttempts, callVars, net, log>>

CreateCalled == \A p \in Parts : pc[p] # "new"

\* The router exists once create() has made it.
HasRouter == NumPartitions > 0 /\ CreateCalled

\* A defect to detect: the partition depends on the messages sent so far.
KeyPartitionMoves(k) == IF HasRouter THEN key_route(Hash[k] + last, NumPartitions) ELSE 0

\* _select_partition_for_key.
KeyPartition(k) == IF HasRouter THEN key_route(Hash[k], NumPartitions) ELSE 0

\* send() and send_with_key() once partition id p is selected: the range check,
\* then the first attempt of the loop, in one stretch.
CallSend(t, k, p) ==
    LET m == <<t, sent[t] + 1>> IN
    /\ pc[t] = "idle" /\ t \in Senders
    /\ sent[t] < MaxSends
    /\ ~ locked
    /\ sent' = [sent EXCEPT ![t] = @ + 1]
    /\ key' = [key EXCEPT ![m] = k]
    /\ attempts' = [attempts EXCEPT ![t] = 0]
    /\ \/ /\ ~ created             \* "partition ID out of range"
          /\ result' = [result EXCEPT ![m] = "raised"]
          /\ UNCHANGED <<partition, tries, net, pc>>
       \/ /\ created
          /\ result' = [result EXCEPT ![m] = "pending"]
          /\ partition' = [partition EXCEPT ![m] = p]
          /\ StartSendMessage(t, m, p, tp[p])
    /\ UNCHANGED <<clusterVars, tp, health, created, locked, closed, rpc,
                   answer, createAttempts, log>>

\* Producer.send.
Send(t) ==
    \/ /\ HasRouter
       /\ last' = round_robin(last, NumPartitions)
       /\ CallSend(t, NoKey, last')
    \/ /\ ~ HasRouter
       /\ CallSend(t, NoKey, 0)
       /\ UNCHANGED last

\* Producer.send_with_key.
SendWithKey(t, k) ==
    /\ CallSend(t, k, KeyPartition(k))
    /\ UNCHANGED last

\* Producer.close, called once create() has returned or raised. Until create()
\* has succeeded self._producers is empty and there is nothing to stop.
Close ==
    /\ ~ closed
    /\ CreateCalled /\ ~ locked
    /\ closed' = TRUE
    /\ tp' = IF created THEN [p \in Parts |-> Stop(tp[p])] ELSE tp
    /\ health' = IF created
                 THEN [p \in Parts |-> {h \in health[p] : h.id # tp[p].health_task}]
                 ELSE health
    /\ UNCHANGED <<clusterVars, created, locked, last, pc, rpc, answer,
                   attempts, createAttempts, callVars, net, log>>

-----------------------------------------------------------------------------
(***************************************************************************)
(* Topic lookup: LookupService.handle_lookup and what its callers do with  *)
(* the answer. The broker answers with the owner of that moment; the       *)
(* answer may be old when the task applies it.                             *)
(***************************************************************************)
InLookup(t) == pc[t] \in {"relook", "lookup", "lookupAgain"}

ServeLookup(t) ==
    /\ InLookup(t)
    /\ answer[t] = NoAddr
    /\ ~ Unreachable(rpc[t].url, rpc[t].header)
    /\ answer' = [answer EXCEPT ![t] = LookupAnswer(PartOf(t))]
    /\ UNCHANGED <<clusterVars, objectVars, pc, rpc, attempts, createAttempts,
                   callVars, net, log>>

\* A defect to detect: attempts = 0 is inside the loop.
AfterCreateLookupResets(t, q) ==
    /\ createAttempts' = [createAttempts EXCEPT ![t] = 0]
    /\ \/ pc[t] = "lookup" /\ StartCreateProducer(t, q)
       \/ /\ pc[t] = "lookupAgain"
          /\ tp' = [tp EXCEPT ![PartOf(t)] = q]
          /\ pc' = [pc EXCEPT ![t] = "createBackoff"]
          /\ answer' = [answer EXCEPT ![t] = NoAddr]
          /\ UNCHANGED rpc

\* What follows a lookup in TopicProducer.create, with object q: the first one
\* leads to CreateProducer, the one in the loop to the sleep. The first one
\* starts the loop, with attempts = 0.
AfterCreateLookup(t, q) ==
    \/ /\ pc[t] = "lookup"
       /\ createAttempts' = [createAttempts EXCEPT ![t] = 0]
       /\ StartCreateProducer(t, q)
    \/ /\ pc[t] = "lookupAgain"
       /\ tp' = [tp EXCEPT ![PartOf(t)] = q]
       /\ pc' = [pc EXCEPT ![t] = "createBackoff"]
       /\ answer' = [answer EXCEPT ![t] = NoAddr]
       /\ UNCHANGED <<rpc, createAttempts>>

LookupReturns(t) ==
    LET q == SetAddress(tp[PartOf(t)], answer[t]) IN
    /\ InLookup(t)
    /\ answer[t] # NoAddr
    /\ \/ AfterCreateLookup(t, q)
       \/ /\ pc[t] = "relook"     \* _lookup_and_recreate goes on to create()
          /\ tp' = [tp EXCEPT ![PartOf(t)] = q]
          /\ StartLookup(t, q.connect_url, "lookup")
          /\ UNCHANGED createAttempts
    /\ UNCHANGED <<clusterVars, health, created, locked, closed, last, attempts,
                   callVars, net, log>>

\* The lookup fails (no broker at that url, an error, or a Failed answer):
\* create() goes on with the address it has, _lookup_and_recreate raises the
\* error that send() has met.
LookupFails(t) ==
    /\ InLookup(t)
    /\ answer[t] = NoAddr
    /\ \/ Unreachable(rpc[t].url, rpc[t].header) /\ UNCHANGED faults
       \/ ~ Unreachable(rpc[t].url, rpc[t].header) /\ RpcFault
    /\ \/ /\ AfterCreateLookup(t, tp[PartOf(t)])
          /\ UNCHANGED result
       \/ /\ pc[t] = "relook"
          /\ EndCall(t, "raised")
          /\ UNCHANGED <<tp, rpc, answer, createAttempts>>
    /\ UNCHANGED <<alive, owner, sess, nextId, health, created, locked, closed,
                   last, attempts, sent, key, partition, tries, net, log>>

-----------------------------------------------------------------------------
(***************************************************************************)
(* CreateProducer.                                                         *)
(***************************************************************************)

\* The broker that is asked serves the topic and does not know the name.
Accepts(t, b) ==
    /\ b \in Reach(rpc[t].url, rpc[t].header) \cap alive
    /\ b = owner[PartOf(t)]
    /\ sess[PartOf(t)] = 0

\* The broker registers the producer and its answer arrives: the id is stored
\* and a health check starts, at the address the object has by now.
CreateAccepted(t) ==
    LET p == PartOf(t)
        q == Created(tp[p], nextId)
    IN
    /\ pc[t] = "creating"
    /\ \E b \in Brokers : Accepts(t, b)
    /\ Register(p)
    /\ tp' = [tp EXCEPT ![p] = q]
    /\ health' = [health EXCEPT ![p] = @ \cup {HealthTask(q)}]
    /\ \/ /\ UseSchema
          /\ pc' = [pc EXCEPT ![t] = "schema"]
          /\ UNCHANGED <<created, locked, attempts, tries, net>>
       \/ /\ ~ UseSchema
          /\ CreateReturns(t, q)
    /\ UNCHANGED <<alive, owner, faults, closed, last, rpc, answer,
                   createAttempts, sent, key, partition, result, log>>

\* The broker registers the producer but the answer is lost.
CreateLost(t) ==
    /\ pc[t] = "creating"
    /\ \E b \in Brokers : Accepts(t, b)
    /\ Register(PartOf(t))
    /\ Fault
    /\ \E code \in FaultCodes : CreateError(t, code)
    /\ UNCHANGED <<alive, owner, tp, health, created, closed, last, attempts,
                   sent, key, partition, tries, net, log>>

\* CreateProducer fails without effect: nobody answers, the broker does not
\* serve the topic, it knows the name already (UnrecoverableError), or a fault.
CreateRefused(t) ==
    /\ pc[t] = "creating"
    /\ \/ /\ Unreachable(rpc[t].url, rpc[t].header)
          /\ CreateError(t, "UNAVAILABLE")
          /\ UNCHANGED faults
       \/ /\ \E b \in Reach(rpc[t].url, rpc[t].header) \cap alive : b # owner[PartOf(t)]
          /\ \E code \in RejectCodes : CreateError(t, code)
          /\ UNCHANGED faults
       \/ /\ owner[PartOf(t)] \in Reach(rpc[t].url, rpc[t].header) \cap alive
          /\ sess[PartOf(t)] # 0
          /\ CreateError(t, "ALREADY_EXISTS")
          /\ UNCHANGED faults
       \/ /\ Fault
          /\ \E code \in FaultCodes : CreateError(t, code)
    /\ UNCHANGED <<alive, owner, sess, nextId, tp, health, created, closed, last,
                   attempts, sent, key, partition, tries, net, log>>

\* _resolve_schema_metadata answers.
SchemaResolved(t) ==
    /\ pc[t] = "schema"
    /\ CreateReturns(t, tp[PartOf(t)])
    /\ UNCHANGED <<clusterVars, tp, health, closed, last, rpc, answer,
                   createAttempts, sent, key, partition, result, log>>

\* _resolve_schema_metadata fails: nobody answers at client.uri, where the
\* registry is asked, or an RPC error, or a ValueError because the version asked
\* for does not exist. The producer is registered all the same.
SchemaFails(t) ==
    /\ pc[t] = "schema"
    /\ \/ /\ Unreachable(ServiceUrl, NoHeader)
          /\ CreateError(t, "UNAVAILABLE")
          /\ UNCHANGED faults
       \/ /\ Fault
          /\ \E code \in FaultCodes \cup {"ValueError"} : CreateError(t, code)
    /\ UNCHANGED <<alive, owner, sess, nextId, tp, health, created, closed, last,
                   attempts, sent, key, partition, tries, net, log>>

\* The sleep of TopicProducer.create ends.
WakeCreate(t) ==
    /\ pc[t] = "createBackoff"
    /\ StartCreateProducer(t, tp[PartOf(t)])
    /\ UNCHANGED <<clusterVars, health, created, locked, closed, last, attempts,
                   createAttempts, callVars, net, log>>

-----------------------------------------------------------------------------
(***************************************************************************)
(* SendMessage.                                                            *)
(***************************************************************************)

\* Whether sender t is waiting for the answer to request r.
Awaits(t, r) == pc[t] = "sending" /\ r.msg = Cur(t) /\ r.try = tries[Cur(t)]

\* A defect to detect: the counter is compared before it is incremented.
SendErrorComparesFirst(t, code) ==
    \/ /\ ~ is_retryable(code)
       /\ EndCall(t, "raised")
       /\ UNCHANGED <<attempts, rpc, answer>>
    \/ /\ is_retryable(code)
       /\ attempts' = [attempts EXCEPT ![t] = @ + 1]
       /\ \/ /\ attempts[t] <= Retries
             /\ pc' = [pc EXCEPT ![t] = "backoff"]
             /\ UNCHANGED <<rpc, answer>>
          \/ /\ attempts[t] > Retries
             /\ StartLookup(t, tp[PartOf(t)].connect_url, "relook")
       /\ UNCHANGED result

\* The except branch of Producer.send for an error with this code.
SendError(t, code) ==
    \/ /\ ~ is_retryable(code)
       /\ EndCall(t, "raised")
       /\ UNCHANGED <<attempts, rpc, answer>>
    \/ /\ is_retryable(code)
       /\ attempts' = [attempts EXCEPT ![t] = @ + 1]
       /\ \/ /\ attempts[t] + 1 <= Retries
             /\ pc' = [pc EXCEPT ![t] = "backoff"]
             /\ UNCHANGED <<rpc, answer>>
          \/ /\ attempts[t] + 1 > Retries
             /\ StartLookup(t, tp[PartOf(t)].connect_url, "relook")
       /\ UNCHANGED result

\* A broker stores the message of request r, perhaps after its sender has given
\* up on the request: a status code does not take a request back.
StoreMessage(r) ==
    /\ r \in net
    /\ owner[r.part] \in Reach(r.route.url, r.route.header) \cap alive
    /\ r.producer_id = sess[r.part]
    /\ log' = [log EXCEPT ![r.part] = Append(@, r.msg)]
    /\ net' = net \ {r}
    /\ \/ /\ Awaits(r.msg[1], r)
          /\ EndCall(r.msg[1], "ok")
       \/ /\ ~ Awaits(r.msg[1], r)
          /\ UNCHANGED <<pc, result>>
    /\ UNCHANGED <<clusterVars, objectVars, rpc, answer, attempts,
                   createAttempts, sent, key, partition, tries>>

\* A broker that does not own the partition, or does not know the producer id,
\* turns request r down; with nobody at the address the channel does.
RejectMessage(r) ==
    /\ r \in net
    /\ \E code \in RejectCodes \cup {"UNAVAILABLE"} :
          /\ \/ /\ Unreachable(r.route.url, r.route.header)
                /\ code = "UNAVAILABLE"
             \/ /\ \E b \in Reach(r.route.url, r.route.header) \cap alive :
                      b # owner[r.part] \/ r.producer_id # sess[r.part]
                /\ code \in RejectCodes
          /\ \/ /\ Awaits(r.msg[1], r)
                /\ SendError(r.msg[1], code)
             \/ /\ ~ Awaits(r.msg[1], r)
                /\ UNCHANGED <<pc, result, attempts, rpc, answer>>
    /\ net' = net \ {r}
    /\ UNCHANGED <<clusterVars, objectVars, createAttempts, sent, key, partition,
                   tries, log>>

\* The RPC fails at the client; the request may still reach a broker.
SendFault(t) ==
    /\ pc[t] = "sending"
    /\ Fault
    /\ \E code \in FaultCodes : SendError(t, code)
    /\ UNCHANGED <<alive, owner, sess, nextId, objectVars, createAttempts, sent,
                   key, partition, tries, net, log>>

\* A defect to detect: a retry goes to the partition whose turn it is.
WakeSendElsewhere(t) ==
    /\ pc[t] = "backoff"
    /\ StartSendMessage(t, Cur(t), last, tp[last])
    /\ UNCHANGED <<clusterVars, objectVars, rpc, answer, attempts,
                   createAttempts, sent, key, partition, result, log>>

\* The sleep of Producer.send ends: same partition, whatever its object is now.
WakeSend(t) ==
    /\ pc[t] = "backoff"
    /\ StartSendMessage(t, Cur(t), PartOf(t), tp[PartOf(t)])
    /\ UNCHANGED <<clusterVars, objectVars, rpc, answer, attempts,
                   createAttempts, sent, key, partition, result, log>>

-----------------------------------------------------------------------------
(***************************************************************************)
(* Health checks: one loop per successful CreateProducer. A round that     *)
(* finds all well changes nothing.                                         *)
(***************************************************************************)
EndHealthTask(p, h) == health' = [health EXCEPT ![p] = @ \ {h}]

\* The broker answers CLOSE: it has no such session.
HealthClose(p, h) ==
    /\ h \in health[p]
    /\ ~ tp[p].stop_event
    /\ \E b \in Reach(h.route.url, h.route.header) \cap alive :
          b # owner[p] \/ h.id # sess[p]
    /\ tp' = [tp EXCEPT ![p].stop_event = TRUE]
    /\ EndHealthTask(p, h)
    /\ UNCHANGED <<clusterVars, created, locked, closed, last, pc, rpc, answer,
                   attempts, createAttempts, callVars, net, log>>

\* A round of the loop fails: the exception is swallowed and the loop ends.
HealthFails(p, h) ==
    /\ h \in health[p]
    /\ \/ /\ Unreachable(h.route.url, h.route.header)
          /\ UNCHANGED faults
       \/ RpcFault
    /\ EndHealthTask(p, h)
    /\ UNCHANGED <<alive, owner, sess, nextId, tp, created, locked, closed, last,
                   pc, rpc, answer, attempts, createAttempts, callVars, net, log>>

\* The loop wakes up, at the latest after HEALTH_CHECK_INTERVAL_SECS, and finds
\* stop_event set.
HealthStops(p, h) ==
    /\ h \in health[p]
    /\ tp[p].stop_event
    /\ EndHealthTask(p, h)
    /\ UNCHANGED <<clusterVars, tp, created, locked, closed, last, pc, rpc,
                   answer, attempts, createAttempts, callVars, net, log>>

-----------------------------------------------------------------------------
Environment ==
    /\ ClusterStep
    /\ UNCHANGED <<objectVars, pc, rpc, answer, attempts, createAttempts,
                   callVars, net, log>>

\* Steps a task takes by itself or because a broker or the channel answers.
TaskStep(t) ==
    \/ ServeLookup(t) \/ LookupReturns(t)
    \/ CreateAccepted(t) \/ SchemaResolved(t)
    \/ WakeCreate(t) \/ WakeSend(t)
    \/ LookupFails(t) \/ CreateRefused(t)

Answer(r) == StoreMessage(r) \/ RejectMessage(r)

HealthStep(p, h) ==
    HealthClose(p, h) \/ HealthFails(p, h) \/ HealthStops(p, h)

Next ==
    \/ Create
    \/ \E t \in Senders : Send(t) \/ \E k \in Keys : SendWithKey(t, k)
    \/ Close
    \/ \E t \in Tasks : TaskStep(t) \/ CreateLost(t) \/ SchemaFails(t)
    \/ \E t \in Senders : SendFault(t)
    \/ \E r \in net : Answer(r)
    \/ \E p \in Parts : \E h \in health[p] : HealthStep(p, h)
    \/ Environment

Spec == Init /\ [][Next]_vars

\* A task runs on, a request is answered or fails, a health check loop wakes up
\* to see stop_event. Calls of the application, faults and repairs may never
\* happen.
Fairness ==
    /\ \A t \in Tasks : WF_vars(TaskStep(t))
    /\ \A m \in Msgs : WF_vars(\E r \in net : r.msg = m /\ Answer(r))
    /\ \A p \in Parts : WF_vars(\E h \in health[p] : HealthStops(p, h))

FairSpec == Spec /\ Fairness
-----------------------------------------------------------------------------
(***************************************************************************)
(* Properties.                                                             *)
(***************************************************************************)
PCs == {"new", "done", "failed", "idle", "sending", "backoff", "relook",
        "lookup", "creating", "schema", "lookupAgain", "createBackoff"}

RequestType == [msg : Msgs, try : Nat, part : Parts, route : RouteType,
                producer_id : Nat]

ObjectTypeOK ==
    /\ tp \in [Parts -> TopicProducerType]
    /\ health \in [Parts -> SUBSET [id : Nat, route : RouteType]]
    /\ created \in BOOLEAN
    /\ locked \in BOOLEAN
    /\ closed \in BOOLEAN
    /\ last \in Int

TaskTypeOK ==
    /\ pc \in [Tasks -> PCs]
    /\ rpc \in [Tasks -> RouteType]
    /\ answer \in [Tasks -> BrokerAddress \cup {NoAddr}]
    /\ attempts \in [Senders -> Nat]
    /\ createAttempts \in [Tasks -> Nat]

CallTypeOK ==
    /\ sent \in [Senders -> 0 .. MaxSends]
    /\ key \in [Msgs -> Keys \cup {NoKey}]
    /\ partition \in [Msgs -> Parts \cup {NoPart}]
    /\ tries \in [Msgs -> Nat]
    /\ result \in [Msgs -> {"new", "pending", "ok", "raised"}]

MessageTypeOK ==
    /\ net \in SUBSET RequestType
    /\ log \in [Parts -> Seq(Msgs)]

\* The type invariant.
TypeOK == ClusterTypeOK /\ ObjectTypeOK /\ TaskTypeOK /\ CallTypeOK /\ MessageTypeOK

Busy(t) == pc[t] # "idle"

\* When send() or send_with_key() has returned, the message is in the log of
\* the partition the call had selected, whatever retries, re-creations and
\* failovers came in between: the at-least-once half of reliable dispatch.
AckedIsStored ==
    \A m \in Msgs : result[m] = "ok" =>
        \E i \in DOMAIN log[partition[m]] : log[partition[m]][i] = m

\* Producer.send selects a partition once, before its loop: all the copies
\* that retries may leave behind are in one and the same partition.
OnePartitionPerMessage ==
    \A p \in Parts : \A i \in DOMAIN log[p] : partition[log[p][i]] = p

\* The retries of send() do not duplicate messages on their own: a second copy
\* needs an RPC that failed at the client while its request went through, and
\* there is one such failure for each. How many attempts, re-creations and
\* failovers there were does not matter.
SecondCopies ==
    UNION {{<<p, i>> : i \in {j \in DOMAIN log[p] :
                                \E h \in 1 .. (j - 1) : log[p][h] = log[p][j]}}
           : p \in Parts}

DuplicatesNeedFaults == Cardinality(SecondCopies) <= faults

\* A task that awaits each send() before the next one finds its messages in the
\* order of the calls: no copy of a later message of the same partition is in
\* the log before the first copy of an earlier one that was acknowledged.
CallOrderKept ==
    \A t \in Senders, p \in Parts : \A j, k \in 1 .. MaxSends :
        /\ j < k
        /\ result[<<t, j>>] = "ok"
        /\ partition[<<t, j>>] = p
        => \A i \in DOMAIN log[p] : log[p][i] = <<t, k>> =>
              \E h \in 1 .. (i - 1) : log[p][h] = <<t, j>>

\* send_with_key: all messages with one routing key are in one partition's log,
\* whichever task sent them and however often they were retried.
KeyStaysInPartition ==
    \A p, q \in Parts : \A i \in DOMAIN log[p], j \in DOMAIN log[q] :
        /\ key[log[p][i]] = key[log[q][j]]
        /\ key[log[p][i]] # NoKey
        => p = q

(***************************************************************************)
(* The inductive invariant behind the properties above.                    *)
(***************************************************************************)

\* A routing header names a broker: in proxy mode the address is a broker's.
GoodProducer(q) ==
    q \in TopicProducerType /\ (q.proxy => q.broker_addr \in Brokers)

GoodProducers == \A p \in Parts : GoodProducer(tp[p])

\* Creators and senders are never at each other's program points, and the
\* producer is usable only when every creator is done.
TaskStates ==
    /\ \A p \in Parts : pc[p] \notin {"idle", "sending", "backoff", "relook"}
    /\ \A t \in Senders : pc[t] \notin {"new", "done", "failed"}
    /\ created => \A p \in Parts : pc[p] = "done"

\* A sender that is not idle is in a call that has selected a partition.
CallsUnderWay ==
    \A t \in Senders : Busy(t) =>
        /\ sent[t] >= 1
        /\ partition[Cur(t)] \in Parts

\* A request goes to the partition its call has selected.
RequestsRouted == \A r \in net : partition[r.msg] = r.part

\* Only calls that were made have a partition.
PartitionsOfCalls == \A m \in Msgs : partition[m] # NoPart => m[2] <= sent[m[1]]

\* A call with a routing key selects the partition that the key hashes to.
KeysRouted ==
    \A m \in Msgs : key[m] # NoKey /\ partition[m] # NoPart =>
        partition[m] = IF NumPartitions > 0
                       THEN key_route(Hash[key[m]], NumPartitions) ELSE 0

Delivery ==
    /\ RequestsRouted
    /\ PartitionsOfCalls
    /\ KeysRouted
    /\ OnePartitionPerMessage
    /\ AckedIsStored

\* What every step of the producer preserves.
IndInv == TypeOK /\ GoodProducers /\ TaskStates /\ CallsUnderWay /\ Delivery

(***************************************************************************)
(* The specification that the producer implements, with the partitions,    *)
(* results and logs as they are.                                           *)
(***************************************************************************)
Promise == INSTANCE ReliableLog WITH
    partition <- partition, result <- result, log <- log

\* Seen from outside, send() and send_with_key() are calls that pick a partition
\* once, append copies there and return only with one of them: retries, lookups,
\* re-creations and health checks, of however many tasks, are stuttering.
KeepsPromise == Promise!Spec

\* A call is pending exactly while its task is busy with it, and a task has made
\* its first sent[t] calls.
CallStates ==
    \A m \in Msgs :
        /\ result[m] = "pending" <=> Busy(m[1]) /\ m[2] = sent[m[1]]
        /\ result[m] = "new" <=> m[2] > sent[m[1]]

(***************************************************************************)
(* Why DuplicatesNeedFaults holds: every fault pays for one copy that may  *)
(* turn out to be a second one. It is owed by a request that was given up  *)
(* on, then by the copy that this request leaves of a message that is not  *)
(* acknowledged yet, then by the second copy.                              *)
(***************************************************************************)
Awaited(r) == Awaits(r.msg[1], r)
GivenUp == {r \in net : ~ Awaited(r)}

StoredIn(p, m) == \E i \in DOMAIN log[p] : log[p][i] = m
Unacknowledged == {m \in Msgs : result[m] # "ok" /\ \E p \in Parts : StoredIn(p, m)}

\* A message and the number of an attempt identify a request.
RequestsNumbered ==
    \A r \in net :
        /\ r.try <= tries[r.msg]
        /\ \A s \in net : s.msg = r.msg /\ s.try = r.try => s = r

FaultsPay ==
    /\ IsFiniteSet(SecondCopies) /\ IsFiniteSet(GivenUp) /\ IsFiniteSet(Unacknowledged)
    /\ Cardinality(SecondCopies) + Cardinality(GivenUp) + Cardinality(Unacknowledged)
          <= faults

(***************************************************************************)
(* Why the retries of send() end. attempts starts over after every         *)
(* re-creation, so the counter by itself bounds nothing; but a re-creation *)
(* succeeds only where a session was lost, and sessions are lost by faults.*)
(***************************************************************************)

\* A call of send() makes at most Retries + 1 requests, and that many more for
\* each fault, whatever the other tasks do to the object it shares with them.
SendsNeedFaults == \A m \in Msgs : tries[m] <= (Retries + 1) * (1 + faults)

\* A crash takes the sessions with it.
DeadOwnersForget == \A p \in Parts : owner[p] \notin alive => sess[p] = 0

\* A partition whose creator has registered it has lost its session by a fault.
SessionsLostByFaults ==
    \A p \in Parts : pc[p] \in {"schema", "done"} => sess[p] # 0 \/ faults > 0

Sessions(p) == IF sess[p] = 0 THEN 0 ELSE 1

\* The requests of the call of t that count since its last re-creation.
Spent(t) == CASE pc[t] = "sending" -> attempts[t] + 1
              [] pc[t] = "backoff" -> attempts[t]
              [] pc[t] = "schema"  -> 0
              [] OTHER             -> Retries + 1

\* The requests of a call under way are paid for: those before the last
\* re-creation by faults, one of which a live session has yet to meet.
Paid(p) == (Retries + 1) * (faults + Sessions(p) - 1)

RequestsPaid ==
    \A t \in Senders : Busy(t) =>
        /\ pc[t] \in {"sending", "backoff"} => attempts[t] <= Retries
        /\ tries[Cur(t)] <= Paid(PartOf(t)) + Spent(t)

\* A call that was not made has made no request.
NoRequestYet == \A m \in Msgs : m[2] > sent[m[1]] => tries[m] = 0

RetriesPaid ==
    /\ DeadOwnersForget
    /\ SessionsLostByFaults
    /\ RequestsPaid
    /\ NoRequestYet
    /\ SendsNeedFaults

(***************************************************************************)
(* Liveness, and what docstrings of the code say.                          *)
(***************************************************************************)

\* Every call of send() and send_with_key() returns or raises: the two nested
\* retry loops, which both start over after a re-creation, do not go on for
\* ever once faults have ceased.
SendReturns == \A t \in Senders : Busy(t) ~> ~ Busy(t)

NoHealthTask == \A p \in Parts : health[p] = {}

\* close() of a producer that was created: all health checks come to an end and
\* none stays, also those whose handle a re-creation has overwritten and those
\* a send() still under way starts later.
CloseStopsHealth == (closed /\ created) ~> []NoHealthTask

\* The safety half of it: from close() on stop_event of every object is set, which
\* is all that HealthStops waits for, and no re-creation clears it.
StoppedForGood == closed /\ created => \A p \in Parts : tp[p].stop_event

\* create() that has returned without self._producers has failed on a partition,
\* whose creator is not started again: closed and not created is for good, too.
CreateEnded ==
    /\ closed => CreateCalled
    /\ CreateCalled /\ ~ created /\ (~ locked \/ closed) => \E p \in Parts : pc[p] = "failed"

\* "Stop all background health check tasks for this producer" (Producer.close),
\* whether create() has succeeded or not.
CloseStopsAllHealthChecks == closed ~> NoHealthTask
=============================================================================
