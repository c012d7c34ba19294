------------------------------ MODULE Consumer ------------------------------
(***************************************************************************)
(* danube/consumer.py with the coroutines of danube/topic_consumer.py,     *)
(* danube/lookup_service.py and danube/health_check.py that run under it.  *)
(*                                                                         *)
(* subscribe() asks for the partitions of the topic and starts one task    *)
(* per partition (asyncio.gather); receive() starts one loop per partition *)
(* that feeds the application's queue. A partition thus has one task at a  *)
(* time, and pc[p] says what it waits for:                                 *)
(*                                                                         *)
(*   new, ready, failed   a subscriber before, after, after an exception   *)
(*   lookup               the TopicLookup that opens subscribe             *)
(*   subscribing          the answer of Subscribe                          *)
(*   lookupAgain          TopicLookup in the loop of subscribe             *)
(*   backoff              asyncio.sleep in the loop of subscribe           *)
(*   streaming            the next message of the stream                   *)
(*   putting              room in the queue                                *)
(*   ended                nothing: the loop has returned or was cancelled  *)
(*                                                                         *)
(* Opening the stream awaits nothing, and a broker that turns it down shows*)
(* in the async for that follows: all that can fail in consumer.receive()  *)
(* is the application's token supplier.                                    *)
(***************************************************************************)
EXTENDS TopicConsumer

CONSTANTS MaxMsgs,      \* bound on the messages stored in each partition
          Capacity,     \* RECEIVE_CHANNEL_BUFFER
          InFlight,     \* bound on messages sent and not yet read, per stream
          MaxRetries,   \* ConsumerOptions.max_retries
          NoAddr,       \* a lookup without an answer
          SupplierRaises \* whether the token supplier may raise an exception

ASSUME ConsumerAssumption ==
    /\ Parts # {}
    /\ MaxMsgs \in Nat
    /\ Capacity \in Nat \ {0}
    /\ InFlight \in Nat \ {0}
    /\ MaxRetries \in Int
    /\ NoAddr \notin BrokerAddress
    /\ SupplierRaises \in BOOLEAN

VARIABLES tc,        \* tc[p]: the TopicConsumer of partition p
          health,    \* health[p]: the health check tasks that still run
          phase,     \* what the application's calls have come to
          shutdown,  \* self._shutdown is set
          pc,        \* what the task of each partition waits for
          rpc,       \* rpc[p]: route of the lookup or Subscribe that p awaits
          answer,    \* answer[p]: lookup answer on its way to p
          attempts,  \* local variable of TopicConsumer.subscribe
          stream,    \* stream[p]: the stream the loop of p reads
          held,      \* held[p]: the message whose put() waits
          queue,     \* the application's queue
          seen,      \* messages that were put into the queue
          taken,     \* messages the application took off the queue
          nacked,    \* messages nacked and not put into the queue since
          stored,    \* stored[p]: number of messages in the log of p
          acked,     \* messages the brokers know to be acknowledged
          due        \* messages the brokers have to send again

objectVars == <<tc, health, phase, shutdown>>
taskVars == <<pc, rpc, answer, attempts, stream, held>>
messageVars == <<queue, seen, taken, nacked, stored, acked, due>>
vars == <<clusterVars, objectVars, taskVars, messageVars>>

Msgs == Parts \X (1 .. MaxMsgs)
Retries == Effective(MaxRetries, DEFAULT_MAX_RETRIES)

NoRoute == [url |-> NoUrl, header |-> NoHeader]
NoStream == [id |-> 0, route |-> NoRoute, next |-> 0, buf |-> <<>>]

Init ==
    /\ ClusterInit
    /\ tc = [p \in Parts |-> NewTopicConsumer]
    /\ health = [p \in Parts |-> {}]
    /\ phase = "new"
    /\ shutdown = FALSE
    /\ pc = [p \in Parts |-> "new"]
    /\ rpc = [p \in Parts |-> NoRoute]
    /\ answer = [p \in Parts |-> NoAddr]
    /\ attempts = [p \in Parts |-> 0]
    /\ stream = [p \in Parts |-> NoStream]
    /\ held = [p \in Parts |-> 0]
    /\ queue = <<>>
    /\ seen = {}
    /\ taken = {}
    /\ nacked = {}
    /\ stored = [p \in Parts |-> 0]
    /\ acked = {}
    /\ due = {}

-----------------------------------------------------------------------------
(***************************************************************************)
(* Stretches of code shared by several actions. Each ends at an await.     *)
(***************************************************************************)

\* LookupService.lookup_topic at the address of object q.
StartLookup(p, q, place) ==
    /\ pc' = [pc EXCEPT ![p] = place]
    /\ rpc' = [rpc EXCEPT ![p] = [url |-> q.connect_url, header |-> NoHeader]]
    /\ answer' = [answer EXCEPT ![p] = NoAddr]

\* _try_subscribe up to the await of Subscribe, with object q.
StartSubscribe(p, q) ==
    LET c == Connect(q) IN
    /\ tc' = [tc EXCEPT ![p] = c]
    /\ rpc' = [rpc EXCEPT ![p] = Route(c)]
    /\ pc' = [pc EXCEPT ![p] = "subscribing"]
    /\ answer' = [answer EXCEPT ![p] = NoAddr]

\* TopicConsumer.subscribe raises: gather passes the exception of a subscriber
\* on while the others keep running; the receive loop returns without a word.
SubscribeRaises(p) ==
    \/ /\ phase = "receiving"
       /\ pc' = [pc EXCEPT ![p] = "ended"]
       /\ UNCHANGED phase
    \/ /\ phase \in {"subscribing", "failed"}
       /\ pc' = [pc EXCEPT ![p] = "failed"]
       /\ phase' = "failed"

\* The except branch of TopicConsumer.subscribe for an error with this code.
SubscribeError(p, code) ==
    \/ /\ is_retryable(code)
       /\ attempts[p] + 1 <= Retries
       /\ attempts' = [attempts EXCEPT ![p] = @ + 1]
       /\ StartLookup(p, tc[p], "lookupAgain")
       /\ UNCHANGED phase
    \/ /\ ~ is_retryable(code) \/ attempts[p] + 1 > Retries
       /\ SubscribeRaises(p)
       /\ UNCHANGED <<attempts, rpc, answer>>

\* The receive loop opens a stream with object q. An exception of the token
\* supplier is neither an UnrecoverableError nor a gRPC error, hence not
\* retryable: it ends the loop. The branches for those errors are not reached.
OpenOrEnd(p, q) ==
    \/ /\ pc' = [pc EXCEPT ![p] = "streaming"]
       /\ stream' = [stream EXCEPT ![p] = OpenStream(q)]
    \/ /\ SupplierRaises
       /\ pc' = [pc EXCEPT ![p] = "ended"]
       /\ UNCHANGED stream

\* TopicConsumer.subscribe returns, with object q: Consumer.subscribe() is done
\* when its last subscriber is; the receive loop opens a new stream.
SubscribeReturns(p, q) ==
    \/ /\ phase = "receiving"
       /\ OpenOrEnd(p, q)
       /\ UNCHANGED phase
    \/ /\ phase \in {"subscribing", "failed"}
       /\ pc' = [pc EXCEPT ![p] = "ready"]
       /\ phase' = IF \A q2 \in Parts : pc'[q2] = "ready" THEN "subscribed" ELSE phase
       /\ UNCHANGED stream

\* A defect to detect: stop_event is cleared before it is read.
LeaveStreamCleared(p) ==
    \/ /\ shutdown
       /\ pc' = [pc EXCEPT ![p] = "ended"]
       /\ UNCHANGED <<tc, rpc, answer, stream>>
    \/ /\ ~ shutdown
       /\ tc' = [tc EXCEPT ![p].stop_event = FALSE]
       /\ OpenOrEnd(p, tc[p])
       /\ UNCHANGED <<rpc, answer>>

\* _partition_receive_loop once the async for is left: what it does next
\* depends on the two events; with neither set it opens the stream anew, at the
\* same address and for the same consumer_id.
LeaveStream(p) ==
    \/ /\ shutdown
       /\ pc' = [pc EXCEPT ![p] = "ended"]
       /\ UNCHANGED <<tc, rpc, answer, stream>>
    \/ /\ ~ shutdown /\ tc[p].stop_event
       /\ tc' = [tc EXCEPT ![p].stop_event = FALSE]
       /\ StartLookup(p, tc[p], "lookup")
       /\ stream' = [stream EXCEPT ![p] = NoStream]
    \/ /\ ~ shutdown /\ ~ tc[p].stop_event
       /\ OpenOrEnd(p, tc[p])
       /\ UNCHANGED <<tc, rpc, answer>>

-----------------------------------------------------------------------------
(***************************************************************************)
(* Calls of the application.                                               *)
(***************************************************************************)

\* Consumer.subscribe, up to the await of TopicPartitions at client.uri.
Subscribe ==
    /\ phase = "new"
    /\ phase' = "partitions"
    /\ UNCHANGED <<clusterVars, tc, health, shutdown, taskVars, messageVars>>

\* TopicPartitions answers, and gather starts one task per partition.
PartitionsReturn ==
    /\ phase = "partitions"
    /\ ~ Unreachable(ServiceUrl, NoHeader)
    /\ phase' = "subscribing"
    /\ pc' = [p \in Parts |-> "lookup"]
    /\ rpc' = [p \in Parts |-> [url |-> tc[p].connect_url, header |-> NoHeader]]
    /\ UNCHANGED <<clusterVars, tc, health, shutdown, answer, attempts, stream,
                   held, messageVars>>

\* TopicPartitions fails or names no partition: subscribe() raises.
PartitionsFail ==
    /\ phase = "partitions"
    /\ \/ Unreachable(ServiceUrl, NoHeader) /\ UNCHANGED faults
       \/ ~ Unreachable(ServiceUrl, NoHeader) /\ RpcFault
    /\ phase' = "failed"
    /\ UNCHANGED <<alive, owner, sess, nextId, tc, health, shutdown, taskVars,
                   messageVars>>

\* Consumer.receive, with the first stretch of each loop it starts.
Receive ==
    /\ phase = "subscribed"
    /\ phase' = "receiving"
    /\ \/ /\ shutdown
          /\ pc' = [p \in Parts |-> "ended"]
          /\ UNCHANGED stream
       \/ /\ ~ shutdown
          /\ \E opened \in SUBSET Parts :
                /\ SupplierRaises \/ opened = Parts
                /\ pc' = [p \in Parts |-> IF p \in opened THEN "streaming" ELSE "ended"]
                /\ stream' = [p \in Parts |->
                                IF p \in opened THEN OpenStream(tc[p]) ELSE stream[p]]
    /\ UNCHANGED <<clusterVars, tc, health, shutdown, rpc, answer, attempts,
                   held, messageVars>>

\* The application takes the next message off the queue.
Take ==
    /\ queue # <<>>
    /\ taken' = taken \cup {Head(queue)}
    /\ queue' = Tail(queue)
    /\ UNCHANGED <<clusterVars, objectVars, taskVars, seen, nacked, stored, acked,
                   due>>

\* A request about message m that is sent now reaches the broker that owns its
\* partition: it goes to the address its TopicConsumer has now, which may not be
\* the one the message came from.
ReachesOwner(m) ==
    LET r == Route(tc[m[1]])
    IN  owner[m[1]] \in Reach(r.url, r.header) \cap alive

\* TopicConsumer.send_ack: the broker keeps the message no longer.
send_ack(m) == ReachesOwner(m) /\ acked' = acked \cup {m} /\ due' = due \ {m}

\* Consumer.ack; an ack that fails raises and changes nothing.
Ack(m) ==
    /\ m \in taken \ acked
    /\ send_ack(m)
    /\ nacked' = nacked \ {m}
    /\ UNCHANGED <<clusterVars, objectVars, taskVars, queue, seen, taken, stored>>

\* A defect to detect: the TopicConsumer of the message is not found, and nack()
\* returns without a request.
NackUnsent(m) ==
    /\ m \in taken \ (acked \cup nacked)
    /\ nacked' = nacked \cup {m}
    /\ UNCHANGED <<clusterVars, objectVars, taskVars, queue, seen, taken, stored,
                   acked, due>>

\* TopicConsumer.send_nack: the broker will send the message again.
send_nack(m) == ReachesOwner(m) /\ due' = due \cup {m}

\* Consumer.nack; a nack that fails raises and changes nothing.
Nack(m) ==
    /\ m \in taken \ (acked \cup nacked)
    /\ send_nack(m)
    /\ nacked' = nacked \cup {m}
    /\ UNCHANGED <<clusterVars, objectVars, taskVars, queue, seen, taken, stored,
                   acked>>

\* Defects to detect: stop() does not cancel the health check, close() does not
\* cancel the receive loops.
HealthLeftRunning == health
LoopsLeftRunning == pc

\* What Consumer.close leaves running: the health checks whose handle is not the
\* one that stop() cancels, and no receive loop.
HealthAfterStop == [p \in Parts |-> {h \in health[p] : h.id # tc[p].health_task}]

LoopsAfterCancel == IF phase = "receiving" THEN [p \in Parts |-> "ended"] ELSE pc

\* Consumer.close, called once subscribe() has returned or raised. The objects
\* are in self._consumers only when it has returned. Cancelling the loops ends
\* them wherever they wait, put() included.
Close ==
    /\ ~ shutdown
    /\ phase \in {"subscribed", "failed", "receiving"}
    /\ shutdown' = TRUE
    /\ \/ /\ phase = "failed"
          /\ UNCHANGED <<tc, health, pc>>
       \/ /\ phase # "failed"
          /\ tc' = [p \in Parts |-> Stop(tc[p])]
          /\ health' = HealthAfterStop
          /\ pc' = LoopsAfterCancel
    /\ UNCHANGED <<clusterVars, phase, rpc, answer, attempts, stream, held,
                   messageVars>>

-----------------------------------------------------------------------------
(***************************************************************************)
(* Topic lookup and Subscribe, in the task of partition p.                 *)
(***************************************************************************)
InLookup(p) == pc[p] \in {"lookup", "lookupAgain"}

ServeLookup(p) ==
    /\ InLookup(p)
    /\ answer[p] = NoAddr
    /\ ~ Unreachable(rpc[p].url, rpc[p].header)
    /\ answer' = [answer EXCEPT ![p] = LookupAnswer(p)]
    /\ UNCHANGED <<clusterVars, objectVars, pc, rpc, attempts, stream, held,
                   messageVars>>

\* What follows a lookup, with object q: the first one leads to Subscribe with
\* attempts = 0, the one in the loop to the sleep.
AfterLookup(p, q) ==
    \/ /\ pc[p] = "lookup"
       /\ attempts' = [attempts EXCEPT ![p] = 0]
       /\ StartSubscribe(p, q)
    \/ /\ pc[p] = "lookupAgain"
       /\ tc' = [tc EXCEPT ![p] = q]
       /\ pc' = [pc EXCEPT ![p] = "backoff"]
       /\ answer' = [answer EXCEPT ![p] = NoAddr]
       /\ UNCHANGED <<rpc, attempts>>

LookupReturns(p) ==
    /\ InLookup(p)
    /\ answer[p] # NoAddr
    /\ AfterLookup(p, SetAddress(tc[p], answer[p]))
    /\ UNCHANGED <<clusterVars, health, phase, shutdown, stream, held, messageVars>>

\* The lookup fails and _lookup_new_broker swallows the error.
LookupFails(p) ==
    /\ InLookup(p)
    /\ answer[p] = NoAddr
    /\ \/ Unreachable(rpc[p].url, rpc[p].header) /\ UNCHANGED faults
       \/ ~ Unreachable(rpc[p].url, rpc[p].header) /\ RpcFault
    /\ AfterLookup(p, tc[p])
    /\ UNCHANGED <<alive, owner, sess, nextId, health, phase, shutdown, stream,
                   held, messageVars>>

\* The broker that is asked serves the topic and does not know the consumer.
Accepts(p) ==
    /\ owner[p] \in Reach(rpc[p].url, rpc[p].header) \cap alive
    /\ sess[p] = 0

\* The broker registers the consumer and its answer arrives: the id is stored
\* and a health check starts.
SubscribeAccepted(p) ==
    LET q == Subscribed(tc[p], nextId) IN
    /\ pc[p] = "subscribing"
    /\ Accepts(p)
    /\ Register(p)
    /\ tc' = [tc EXCEPT ![p] = q]
    /\ health' = [health EXCEPT ![p] = @ \cup {HealthTask(q)}]
    /\ SubscribeReturns(p, q)
    /\ UNCHANGED <<alive, owner, faults, shutdown, rpc, answer, attempts, held,
                   messageVars>>

\* The broker registers the consumer but the answer is lost.
SubscribeLost(p) ==
    /\ pc[p] = "subscribing"
    /\ Accepts(p)
    /\ Register(p)
    /\ Fault
    /\ \E code \in FaultCodes : SubscribeError(p, code)
    /\ UNCHANGED <<alive, owner, tc, health, shutdown, stream, held, messageVars>>

\* Subscribe fails without effect: nobody answers, the broker does not serve the
\* topic, it knows the consumer already (UnrecoverableError), or a fault.
SubscribeRefused(p) ==
    /\ pc[p] = "subscribing"
    /\ \/ /\ Unreachable(rpc[p].url, rpc[p].header)
          /\ SubscribeError(p, "UNAVAILABLE")
          /\ UNCHANGED faults
       \/ /\ \E b \in Reach(rpc[p].url, rpc[p].header) \cap alive : b # owner[p]
          /\ \E code \in RejectCodes : SubscribeError(p, code)
          /\ UNCHANGED faults
       \/ /\ owner[p] \in Reach(rpc[p].url, rpc[p].header) \cap alive
          /\ sess[p] # 0
          /\ SubscribeError(p, "ALREADY_EXISTS")
          /\ UNCHANGED faults
       \/ /\ Fault
          /\ \E code \in FaultCodes : SubscribeError(p, code)
    /\ UNCHANGED <<alive, owner, sess, nextId, tc, health, shutdown, stream, held,
                   messageVars>>

\* The sleep of TopicConsumer.subscribe ends.
Wake(p) ==
    /\ pc[p] = "backoff"
    /\ StartSubscribe(p, tc[p])
    /\ UNCHANGED <<clusterVars, health, phase, shutdown, attempts, stream, held,
                   messageVars>>

-----------------------------------------------------------------------------
(***************************************************************************)
(* The stream of ReceiveMessages and the loop that reads it.               *)
(***************************************************************************)
Reading(p) == pc[p] \in {"streaming", "putting"}

\* The stream of p is that of the session the owner of p has now.
Live(p) ==
    /\ owner[p] \in Reach(stream[p].route.url, stream[p].route.header) \cap alive
    /\ stream[p].id = sess[p]

\* The broker sends the messages that are not acknowledged, in their order,
\* beginning with the first one when a stream is new.
Dispatch(p) ==
    /\ Reading(p) /\ Live(p)
    /\ Len(stream[p].buf) < InFlight
    /\ \E m \in 1 .. stored[p] :
          /\ m >= stream[p].next
          /\ <<p, m>> \notin acked
          /\ \A n \in 1 .. (m - 1) : n >= stream[p].next => <<p, n>> \in acked
          /\ stream' = [stream EXCEPT ![p].next = m + 1,
                                      ![p].buf = Append(@, m)]
    /\ UNCHANGED <<clusterVars, objectVars, pc, rpc, answer, attempts, held,
                   messageVars>>

\* The broker sends message m again, on the stream on which it has sent it before.
Redeliver(m) ==
    LET p == m[1] IN
    /\ m \in due
    /\ Reading(p) /\ Live(p)
    /\ m[2] < stream[p].next
    /\ Len(stream[p].buf) < InFlight
    /\ stream' = [stream EXCEPT ![p].buf = Append(@, m[2])]
    /\ due' = due \ {m}
    /\ UNCHANGED <<clusterVars, objectVars, pc, rpc, answer, attempts, held, queue,
                   seen, taken, nacked, stored, acked>>

\* A defect to detect: a message that finds the queue full is discarded.
PutNoWait(m) ==
    IF Len(queue) < Capacity
    THEN queue' = Append(queue, m) /\ seen' = seen \cup {m} /\ nacked' = nacked \ {m}
    ELSE UNCHANGED <<queue, seen, nacked>>

\* queue.put, when there is room.
Put(m) ==
    /\ Len(queue) < Capacity
    /\ queue' = Append(queue, m)
    /\ seen' = seen \cup {m}
    /\ nacked' = nacked \ {m}

\* The loop reads a message and finds no event set: it puts the message into
\* the queue or waits for room.
ReceiveMessage(p) ==
    LET m == Head(stream[p].buf) IN
    /\ pc[p] = "streaming"
    /\ stream[p].buf # <<>>
    /\ ~ shutdown /\ ~ tc[p].stop_event
    /\ stream' = [stream EXCEPT ![p].buf = Tail(@)]
    /\ \/ /\ Put(<<p, m>>)
          /\ UNCHANGED <<pc, held>>
       \/ /\ Len(queue) = Capacity
          /\ pc' = [pc EXCEPT ![p] = "putting"]
          /\ held' = [held EXCEPT ![p] = m]
          /\ UNCHANGED <<queue, seen, nacked>>
    /\ UNCHANGED <<clusterVars, objectVars, rpc, answer, attempts, taken, stored,
                   acked, due>>

\* The loop reads a message and finds shutdown or stop_event set: the message is
\* dropped and the stream left.
DropMessage(p) ==
    /\ pc[p] = "streaming"
    /\ stream[p].buf # <<>>
    /\ shutdown \/ tc[p].stop_event
    /\ LeaveStream(p)
    /\ UNCHANGED <<clusterVars, health, phase, shutdown, attempts, held,
                   messageVars>>

\* put() finds room.
PutReturns(p) ==
    /\ pc[p] = "putting"
    /\ Put(<<p, held[p]>>)
    /\ pc' = [pc EXCEPT ![p] = "streaming"]
    /\ held' = [held EXCEPT ![p] = 0]
    /\ UNCHANGED <<clusterVars, objectVars, rpc, answer, attempts, stream, taken,
                   stored, acked, due>>

\* The stream ends or breaks: the broker does not know the session (any more),
\* nobody answers, or a fault. Messages not yet read may be lost with it.
StreamEnds(p) ==
    /\ pc[p] = "streaming"
    /\ \/ ~ Live(p) /\ UNCHANGED faults
       \/ Live(p) /\ RpcFault
    /\ LeaveStream(p)
    /\ UNCHANGED <<alive, owner, sess, nextId, health, phase, shutdown, attempts,
                   held, messageVars>>

-----------------------------------------------------------------------------
(***************************************************************************)
(* Health checks: a round that finds all well changes nothing.             *)
(***************************************************************************)
\* A defect to detect: the loop goes on after CLOSE or an error.
HealthTaskGoesOn(p, h) == UNCHANGED health

\* The coroutine of a health check returns.
EndHealthTask(p, h) == health' = [health EXCEPT ![p] = @ \ {h}]

\* The broker that is asked has no such session.
Outdated(p, h) ==
    \E b \in Reach(h.route.url, h.route.header) \cap alive :
        b # owner[p] \/ h.id # sess[p]

\* A defect to detect: the loop ends at CLOSE without setting the event.
HealthCloseSilent(p, h) ==
    /\ h \in health[p]
    /\ ~ tc[p].stop_event
    /\ Outdated(p, h)
    /\ EndHealthTask(p, h)
    /\ UNCHANGED <<clusterVars, tc, phase, shutdown, taskVars, messageVars>>

\* The broker answers CLOSE.
HealthClose(p, h) ==
    /\ h \in health[p]
    /\ ~ tc[p].stop_event
    /\ Outdated(p, h)
    /\ tc' = [tc EXCEPT ![p].stop_event = TRUE]
    /\ EndHealthTask(p, h)
    /\ UNCHANGED <<clusterVars, phase, shutdown, taskVars, messageVars>>

\* A round of the loop fails: the exception is swallowed and the loop ends.
HealthFails(p, h) ==
    /\ h \in health[p]
    /\ \/ Unreachable(h.route.url, h.route.header) /\ UNCHANGED faults
       \/ RpcFault
    /\ EndHealthTask(p, h)
    /\ UNCHANGED <<alive, owner, sess, nextId, tc, phase, shutdown, taskVars,
                   messageVars>>

\* The loop wakes up and finds stop_event set.
HealthStops(p, h) ==
    /\ h \in health[p]
    /\ tc[p].stop_event
    /\ EndHealthTask(p, h)
    /\ UNCHANGED <<clusterVars, tc, phase, shutdown, taskVars, messageVars>>

-----------------------------------------------------------------------------
Environment ==
    /\ ClusterStep
    /\ UNCHANGED <<objectVars, taskVars, messageVars>>

\* A producer stores a message in partition p (StoreCopy of ReliableLog).
Publish(p) ==
    /\ stored[p] < MaxMsgs
    /\ stored' = [stored EXCEPT ![p] = @ + 1]
    /\ UNCHANGED <<clusterVars, objectVars, taskVars, queue, seen, taken, nacked,
                   acked, due>>

\* Steps the task of p takes by itself or because a broker answers.
TaskStep(p) ==
    \/ ServeLookup(p) \/ LookupReturns(p) \/ LookupFails(p)
    \/ SubscribeAccepted(p) \/ SubscribeRefused(p) \/ Wake(p)
    \/ ReceiveMessage(p) \/ DropMessage(p) \/ PutReturns(p) \/ StreamEnds(p)

Next ==
    \/ Subscribe \/ PartitionsReturn \/ PartitionsFail
    \/ Receive \/ Take \/ Close
    \/ \E m \in Msgs : Ack(m) \/ Nack(m) \/ Redeliver(m)
    \/ \E p \in Parts : TaskStep(p) \/ SubscribeLost(p) \/ Dispatch(p) \/ Publish(p)
    \/ \E p \in Parts : \E h \in health[p] :
          HealthClose(p, h) \/ HealthFails(p, h) \/ HealthStops(p, h)
    \/ Environment

Spec == Init /\ [][Next]_vars

\* A task runs on, a health check that a broker can answer is answered within
\* its interval, brokers send what they have and what was nacked. A put() that
\* waits returns if there stays room: asyncio.Queue wakes it when a message is
\* taken, but it looks again when it runs, and if another loop was quicker it
\* waits once more, behind the others. Calls of the application, new messages,
\* faults and repairs may never happen.
Fairness ==
    /\ \A p \in Parts :
          /\ WF_vars(TaskStep(p))
          /\ WF_vars(\E h \in health[p] : HealthClose(p, h) \/ HealthStops(p, h))
          /\ WF_vars(Dispatch(p))
    /\ \A m \in Msgs : WF_vars(Redeliver(m))

\* The application keeps reading its queue.
FairSpec == Spec /\ Fairness /\ WF_vars(Take)
-----------------------------------------------------------------------------
(***************************************************************************)
(* Properties.                                                             *)
(***************************************************************************)
PCs == {"new", "ready", "failed", "lookup", "subscribing", "lookupAgain",
        "backoff", "streaming", "putting", "ended"}

HealthTaskType == [id : Nat, route : RouteType]
StreamType == [id : Nat, route : RouteType, next : Nat, buf : Seq(Nat)]

ObjectTypeOK ==
    /\ tc \in [Parts -> TopicConsumerType]
    /\ health \in [Parts -> SUBSET HealthTaskType]
    /\ phase \in {"new", "partitions", "subscribing", "subscribed", "failed", "receiving"}
    /\ shutdown \in BOOLEAN

TaskTypeOK ==
    /\ pc \in [Parts -> PCs]
    /\ rpc \in [Parts -> RouteType]
    /\ answer \in [Parts -> BrokerAddress \cup {NoAddr}]
    /\ attempts \in [Parts -> Nat]
    /\ stream \in [Parts -> StreamType]
    /\ held \in [Parts -> Nat]

MessageTypeOK ==
    /\ queue \in Seq(Msgs)
    /\ seen \in SUBSET Msgs
    /\ taken \in SUBSET Msgs
    /\ nacked \in SUBSET Msgs
    /\ stored \in [Parts -> 0 .. MaxMsgs]
    /\ acked \in SUBSET Msgs
    /\ due \in SUBSET Msgs

\* The type invariant.
TypeOK == ClusterTypeOK /\ ObjectTypeOK /\ TaskTypeOK /\ MessageTypeOK

\* However often a partition is subscribed to anew, at most one health check
\* runs for it, and it watches the session the loop reads from: the handle
\* that stop() cancels is the handle of the only one.
OneHealthCheck ==
    \A p \in Parts : \A h \in health[p] :
        /\ h.id = tc[p].consumer_id
        /\ h.id = tc[p].health_task

\* After close() of a consumer that subscribed nothing is left running: neither a
\* receive loop, also one that was in the middle of a new subscription, nor a
\* health check, and none can start any more.
ClosedForGood ==
    shutdown /\ phase \in {"subscribed", "receiving"} =>
        \A p \in Parts : health[p] = {} /\ pc[p] \in {"ready", "ended"}

\* The queue does not grow once close() was called, whoever waited in put().
NothingAfterClose == [][shutdown => seen' = seen /\ Len(queue') <= Len(queue)]_vars

\* The application sees the messages of a partition without a gap: a message the
\* loop drops because the broker closed the session comes again before any later
\* one does.
NoGap == \A m \in seen : \A n \in 1 .. (m[2] - 1) : <<m[1], n>> \in seen

\* A proxied object names a broker in the routing header of its RPCs.
GoodConsumer(q) == q.proxy => q.broker_addr \in Brokers

\* Where the task of a partition can be while its session is being set up.
SettingUp == {"lookup", "subscribing", "lookupAgain", "backoff"}

\* What the application has called says what the tasks can be doing.
TaskStates ==
    /\ phase \in {"new", "partitions"} => \A p \in Parts : pc[p] = "new"
    /\ phase \in {"new", "partitions", "subscribing"} => ~ shutdown
    /\ phase = "subscribing" => \A p \in Parts : pc[p] \in SettingUp \cup {"ready"}
    /\ phase = "failed" =>
          \/ \A p \in Parts : pc[p] = "new"
          \/ /\ \A p \in Parts : pc[p] \in SettingUp \cup {"ready", "failed"}
             /\ \E p \in Parts : pc[p] = "failed"
    /\ phase = "subscribed" => \A p \in Parts : pc[p] = "ready"
    /\ phase = "receiving" =>
          \A p \in Parts : pc[p] \in SettingUp \cup {"streaming", "putting", "ended"}

\* A partition is subscribed to anew only when its health check has ended: only
\* the health check itself and close() set stop_event.
HealthChecks ==
    \A p \in Parts :
        /\ pc[p] \in SettingUp \cup {"new"} => health[p] = {} /\ ~ tc[p].stop_event
        /\ tc[p].stop_event => health[p] = {}
        /\ \A h1, h2 \in health[p] : h1 = h2

\* Message n of partition p has been delivered, or the loop of p has it in its
\* hands, or reads it before position i of its stream.
Before(p, i, n) ==
    \/ <<p, n>> \in seen
    \/ pc[p] = "putting" /\ held[p] = n
    \/ \E j \in 1 .. (i - 1) : stream[p].buf[j] = n

\* The loop of p reads no message before the earlier ones of the partition: they
\* were delivered, also on an earlier stream, or come before it on this one.
InOrder(p) ==
    Reading(p) =>
        /\ stream[p].next <= stored[p] + 1
        /\ \A n \in 1 .. (stream[p].next - 1) : Before(p, Len(stream[p].buf) + 1, n)
        /\ \A i \in DOMAIN stream[p].buf :
              /\ stream[p].buf[i] \in 1 .. stored[p]
              /\ \A n \in 1 .. (stream[p].buf[i] - 1) : Before(p, i, n)
        /\ pc[p] = "putting" =>
              /\ held[p] \in 1 .. stored[p]
              /\ \A n \in 1 .. (held[p] - 1) : <<p, n>> \in seen

StreamsInOrder == \A p \in Parts : InOrder(p)

\* A message was delivered before it was taken, and taken before it was
\* acknowledged or nacked.
MessageStates ==
    /\ \A i \in DOMAIN queue : queue[i] \in seen
    /\ taken \subseteq seen
    /\ acked \cup nacked \cup due \subseteq taken

\* What tasks, sessions and health checks do is inductive without the messages,
\* and what happens to the messages is inductive together with it.
ControlInv ==
    /\ ClusterTypeOK /\ ObjectTypeOK /\ TaskTypeOK
    /\ \A p \in Parts : GoodConsumer(tc[p])
    /\ TaskStates /\ HealthChecks /\ OneHealthCheck /\ ClosedForGood

IndInv ==
    /\ ControlInv /\ MessageTypeOK
    /\ MessageStates /\ StreamsInOrder /\ NoGap

\* The broker that owns p and the configured one (client.uri) are up.
Healthy(p) == owner[p] \in alive /\ ~ Unreachable(ServiceUrl, NoHeader)

Listening(p) == Reading(p) /\ Live(p)

\* The application receives, and the cluster is healthy for partition p.
InUse(p) == phase = "receiving" /\ ~ shutdown /\ Healthy(p)

(***************************************************************************)
(* What the reconnection of a consumer rests on, where partitions only     *)
(* move: no broker crashes, no RPC fails for no reason and the token       *)
(* supplier raises nothing.                                                *)
(***************************************************************************)
OnlyMoves == Crashing = {} /\ FaultCodes = {} /\ ~ SupplierRaises

\* A loop whose session is gone finds out: either stop_event is set already, or
\* its health check still runs and will be answered CLOSE.
SessionsWatched ==
    \A p \in Parts :
        Reading(p) /\ ~ Live(p) =>
            tc[p].stop_event \/ \E h \in health[p] : Outdated(p, h)

\* Neither a subscriber nor a loop gives up unless the partition has moved away
\* from the broker that its lookup has just named, or the consumer is closed.
EndsByMoves ==
    [][\A p \in Parts :
          pc[p] \notin {"failed", "ended"} /\ pc'[p] \in {"failed", "ended"} =>
              shutdown' \/ tc[p].broker_addr # owner[p]]_vars

\* The addresses lead to one broker, whichever way RPCs go there.
Located(q) ==
    /\ q.broker_addr \in Brokers
    /\ q.proxy = Proxied
    /\ q.connect_url = IF Proxied THEN ServiceUrl ELSE q.broker_addr

\* After the first lookup the object of p leads to a broker, Subscribe goes there,
\* and so does the stream that is opened for the session.
Addressed(p) ==
    /\ answer[p] # NoAddr =>
          /\ answer[p].proxy = Proxied
          /\ answer[p].connect_url = IF Proxied THEN ServiceUrl ELSE answer[p].broker_url
    /\ pc[p] \in {"subscribing", "backoff", "ready", "streaming", "putting"} =>
          Located(tc[p])
    /\ pc[p] \in {"subscribing", "ready", "streaming", "putting"} =>
          tc[p].stub = tc[p].connect_url
    /\ pc[p] = "subscribing" => rpc[p] = Route(tc[p])
    /\ Reading(p) => stream[p].id = tc[p].consumer_id /\ stream[p].route = Route(tc[p])

\* A live session is the one that the object knows, and its health check asks the
\* broker that the object names. It is set up anew only when it is lost.
Watched(p) ==
    /\ sess[p] # 0 => /\ Located(tc[p])
                      /\ tc[p].broker_addr = owner[p]
                      /\ tc[p].consumer_id = sess[p]
    /\ pc[p] \in SettingUp \cup {"new"} => sess[p] = 0
    /\ tc[p].stop_event => sess[p] = 0 \/ shutdown
    /\ \A h \in health[p] : h.route = HealthRoute(tc[p])
    /\ pc[p] = "ready" \/ Reading(p) => tc[p].stop_event \/ health[p] # {}

MovesInv == alive = Brokers /\ \A p \in Parts : Addressed(p) /\ Watched(p)

(***************************************************************************)
(* What the consumer implements: closed is the event self._shutdown, all   *)
(* else has its name there.                                                *)
(***************************************************************************)
Promise == INSTANCE Subscription WITH
    stored <- stored, queue <- queue, seen <- seen, taken <- taken,
    acked <- acked, closed <- shutdown

\* Seen from outside, whatever sessions, streams, lookups and health checks do in
\* between, a consumer delivers what is stored, in order and without gaps, waits
\* while the queue is full, acknowledges only what was taken and stops at close().
KeepsPromise == Promise!Spec

(***************************************************************************)
(* Liveness.                                                               *)
(***************************************************************************)

\* The consumer is in use and partition p still has a loop.
Served(p) == InUse(p) /\ pc[p] # "ended"

\* The put() of p waits for ever while other loops fill the queue again and again:
\* asyncio.Queue does not rule it out (see Fairness).
PassedOver(p) ==
    /\ <>[](pc[p] = "putting")
    /\ []<><<Len(queue') > Len(queue)>>_vars

\* "Automatic Reconnection - Resilient connection handling" (README.md:38): once
\* the cluster is healthy for good, a loop that has not ended (consumer.py:198-200;
\* EndsByMoves says when it does) has a live stream again in the end, however many
\* sessions it lost before, unless its put() is passed over for ever.
Reconnects ==
    \A p \in Parts :
        <>[]Served(p) => <>[]Listening(p) \/ PassedOver(p)

\* "at-least-once delivery" (README.md:30), from the log to the application: no
\* message that is stored stays away for ever, whatever sessions came and went
\* before, while the consumer is in use and the partition has a loop. Only a
\* put() that is passed over for ever keeps a message away.
EverythingArrives ==
    \A m \in Msgs :
        \/ []<>(Served(m[1]) => m[2] > stored[m[1]] \/ m \in taken)
        \/ PassedOver(m[1])

\* "nacking a message triggers redelivery" (test_reliable_nack.py:1), also when
\* the sessions that were to deliver it again are lost: while the consumer is in
\* use and the partition has a loop no message stays nacked for ever, unless its
\* put() is passed over.
NackedComesAgain ==
    \A m \in Msgs :
        \/ []<>(Served(m[1]) => m \notin nacked)
        \/ PassedOver(m[1])
=============================================================================
