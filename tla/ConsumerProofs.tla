--------------------------- MODULE ConsumerProofs ---------------------------
(***************************************************************************)
(* Safety of Consumer, for any brokers, partitions, faults, retry options, *)
(* number of messages and size of the queue: first what its tasks and its  *)
(* health checks do, then what becomes of its messages.                    *)
(*                                                                         *)
(* That at most one health check runs for a partition (OneHealthCheck) is  *)
(* not inductive: a Subscribe that succeeds starts one, so there must be   *)
(* none while a session is being set up (HealthChecks). A loop sets up a   *)
(* new session only after stop_event, which the health check sets as its   *)
(* last act, or close(); and close() leaves no loop behind that could go   *)
(* on. The latter is ClosedForGood, which in turn needs to know where the  *)
(* tasks can be for each of the application's calls (TaskStates).          *)
(* ControlInv is the conjunction of these, with the types.                 *)
(***************************************************************************)
EXTENDS Consumer, TLAPS

\* An object that is well typed and names a broker if it is proxied.
Sound(q) == q \in TopicConsumerType /\ GoodConsumer(q)

\* TopicConsumer.__init__ makes a sound object.
LEMMA NewTopicConsumerSound == Sound(NewTopicConsumer)
BY DEF Sound, GoodConsumer, NewTopicConsumer, TopicConsumerType, Urls

\* A lookup answer keeps an object sound: in proxy mode it names a broker.
LEMMA SetAddressSound ==
    ASSUME NEW q, Sound(q), NEW a \in BrokerAddress
    PROVE  /\ Sound(SetAddress(q, a))
           /\ SetAddress(q, a).stop_event = q.stop_event
BY DEF Sound, GoodConsumer, SetAddress, TopicConsumerType, BrokerAddress, Urls

\* _connect keeps an object sound: the stub is for its connect_url.
LEMMA ConnectSound ==
    ASSUME NEW q, Sound(q)
    PROVE  Sound(Connect(q)) /\ Connect(q).stop_event = q.stop_event
BY DEF Sound, GoodConsumer, Connect, get_connection, TopicConsumerType

\* Storing the id of a new session keeps an object sound.
LEMMA SubscribedSound ==
    ASSUME NEW q, Sound(q), NEW id \in Nat
    PROVE  /\ Sound(Subscribed(q, id))
           /\ Subscribed(q, id).stop_event = q.stop_event
           /\ Subscribed(q, id).consumer_id = id
           /\ Subscribed(q, id).health_task = id
BY DEF Sound, GoodConsumer, Subscribed, TopicConsumerType

\* Setting or clearing stop_event keeps an object sound.
LEMMA StopEventSound ==
    ASSUME NEW q, Sound(q), NEW e \in BOOLEAN
    PROVE  /\ Sound([q EXCEPT !.stop_event = e])
           /\ [q EXCEPT !.stop_event = e].stop_event = e
           /\ [q EXCEPT !.stop_event = e].consumer_id = q.consumer_id
           /\ [q EXCEPT !.stop_event = e].health_task = q.health_task
BY DEF Sound, GoodConsumer, TopicConsumerType

\* stop() keeps an object sound.
LEMMA StopSound ==
    ASSUME NEW q, Sound(q)
    PROVE  Sound(Stop(q)) /\ Stop(q).stop_event
BY DEF Sound, GoodConsumer, Stop, TopicConsumerType

\* An RPC of a sound object goes to a url, with a broker in the header or none.
LEMMA RouteTyped ==
    ASSUME NEW q, Sound(q)
    PROVE  Route(q) \in RouteType
BY DEF Sound, GoodConsumer, Route, RouteType, TopicConsumerType, insert_proxy_header, Headers

\* So does a TopicLookup, which never carries the header.
LEMMA LookupRouteTyped ==
    ASSUME NEW q, Sound(q)
    PROVE  [url |-> q.connect_url, header |-> NoHeader] \in RouteType
BY DEF Sound, RouteType, TopicConsumerType, Headers

\* The health check of a sound object captures its id and a route.
LEMMA HealthTaskTyped ==
    ASSUME NEW q, Sound(q)
    PROVE  HealthTask(q) \in HealthTaskType /\ HealthTask(q).id = q.consumer_id
BY DEF Sound, GoodConsumer, HealthTask, HealthTaskType, HealthRoute, RouteType,
       TopicConsumerType, get_connection, insert_proxy_header, Headers

\* A new stream has no messages yet.
LEMMA OpenStreamTyped ==
    ASSUME NEW q, Sound(q)
    PROVE  /\ OpenStream(q) \in StreamType
           /\ OpenStream(q).next = 0
           /\ OpenStream(q).buf = <<>>
BY RouteTyped DEF OpenStream, StreamType, Sound, TopicConsumerType

\* Nor has the place-holder of a partition without one.
LEMMA NoStreamTyped == NoStream \in StreamType /\ NoRoute \in RouteType
BY DEF NoStream, StreamType, NoRoute, RouteType, Headers

\* RetryManager.__init__: the number of retries in force is positive.
LEMMA RetriesPositive == Retries \in Nat \ {0}
BY ConsumerAssumption DEF Retries, Effective, DEFAULT_MAX_RETRIES

-----------------------------------------------------------------------------
(***************************************************************************)
(* The brokers.                                                            *)
(***************************************************************************)

\* The fault counter stays within its bound.
LEMMA FaultTyped == ClusterTypeOK /\ (Fault \/ RpcFault) => faults' \in 0 .. MaxFaults
BY ClusterAssumption DEF Fault, RpcFault, ClusterTypeOK

\* The broker's side of Subscribe.
LEMMA RegisterTyped ==
    ASSUME ClusterTypeOK, NEW p \in Parts, Register(p)
    PROVE  /\ sess' \in [Parts -> Nat]
           /\ nextId' \in Nat \ {0}
           /\ nextId \in Nat
BY DEF Register, ClusterTypeOK

\* Crashes, restarts and moves.
LEMMA ClusterStepTyped == ClusterTypeOK /\ ClusterStep => ClusterTypeOK'
<1> SUFFICES ASSUME ClusterTypeOK, ClusterStep PROVE ClusterTypeOK'
  OBVIOUS
<1>1. ASSUME NEW b \in Brokers, Crash(b) PROVE ClusterTypeOK'
  BY <1>1, ClusterAssumption DEF ClusterTypeOK, Crash, Fault, DropSessions
<1>2. ASSUME NEW b \in Brokers, Restart(b) PROVE ClusterTypeOK'
  BY <1>2 DEF ClusterTypeOK, Restart
<1>3. ASSUME NEW p \in Parts, NEW b \in Brokers, Move(p, b) PROVE ClusterTypeOK'
  BY <1>3, ClusterAssumption DEF ClusterTypeOK, Move, Fault
<1> QED
  BY <1>1, <1>2, <1>3 DEF ClusterStep

\* A lookup is answered with addresses.
LEMMA LookupAnswerTyped ==
    ASSUME ClusterTypeOK, NEW p \in Parts
    PROVE  LookupAnswer(p) \in BrokerAddress
BY ClusterAssumption DEF LookupAnswer, BrokerAddress, Urls, ClusterTypeOK

-----------------------------------------------------------------------------
(***************************************************************************)
(* ControlInv without the locals of the tasks, and how steps keep it.      *)
(***************************************************************************)
ObjectsOK == ObjectTypeOK /\ \A p \in Parts : GoodConsumer(tc[p])

ControlStates == TaskStates /\ HealthChecks /\ OneHealthCheck /\ ClosedForGood

\* The locals of the coroutines stay what they are declared to be.
LocalsTyped ==
    /\ rpc' \in [Parts -> RouteType]
    /\ answer' \in [Parts -> BrokerAddress \cup {NoAddr}]
    /\ attempts' \in [Parts -> Nat]
    /\ stream' \in [Parts -> StreamType]
    /\ held' \in [Parts -> Nat]

\* The parts of ControlInv.
LEMMA ControlParts ==
    ControlInv <=> ClusterTypeOK /\ ObjectsOK /\ TaskTypeOK /\ ControlStates
BY DEF ControlInv, ObjectsOK, ControlStates

\* The object of a partition is sound.
LEMMA SoundObject ==
    ASSUME ObjectsOK, NEW p \in Parts
    PROVE  Sound(tc[p])
BY DEF ObjectsOK, ObjectTypeOK, Sound

\* Replacing the object of one partition by a sound one.
LEMMA ObjectReplaced ==
    ASSUME ObjectsOK, NEW p \in Parts, NEW q, Sound(q),
           tc' = [tc EXCEPT ![p] = q]
    PROVE  /\ tc' \in [Parts -> TopicConsumerType]
           /\ \A r \in Parts : GoodConsumer(tc'[r])
           /\ tc'[p] = q
           /\ \A r \in Parts \ {p} : tc'[r] = tc[r]
BY DEF ObjectsOK, ObjectTypeOK, Sound

\* A task that sets up its session goes on to the next await: there is no health
\* check that could notice, and the consumer was not closed.
LEMMA SettingUpMoves ==
    ASSUME ControlInv, NEW p \in Parts, NEW s \in SettingUp, pc[p] \in SettingUp,
           pc' = [pc EXCEPT ![p] = s],
           NEW q, Sound(q), q.stop_event = tc[p].stop_event,
           tc' = [tc EXCEPT ![p] = q],
           UNCHANGED <<health, phase, shutdown>>
    PROVE  ObjectsOK' /\ ControlStates' /\ pc' \in [Parts -> PCs]
<1>1. /\ tc' \in [Parts -> TopicConsumerType]
      /\ \A r \in Parts : GoodConsumer(tc'[r])
      /\ tc'[p] = q
      /\ \A r \in Parts \ {p} : tc'[r] = tc[r]
  BY ObjectReplaced, ControlParts
<1>2. ObjectsOK'
  BY <1>1 DEF ControlInv, ObjectsOK, ObjectTypeOK
<1>3. pc \in [Parts -> PCs] /\ pc' \in [Parts -> PCs]
  BY DEF ControlInv, TaskTypeOK, SettingUp, PCs
<1>4. pc'[p] = s /\ \A r \in Parts \ {p} : pc'[r] = pc[r]
  BY <1>3
<1>5. TaskStates'
  BY <1>4 DEF ControlInv, TaskStates, SettingUp
<1>6. HealthChecks'
  BY <1>1, <1>4 DEF ControlInv, HealthChecks
<1>7. health[p] = {}
  BY DEF ControlInv, HealthChecks
<1>8. OneHealthCheck'
  BY <1>1, <1>7 DEF ControlInv, OneHealthCheck
<1>9. ClosedForGood'
  BY <1>4 DEF ControlInv, ClosedForGood, SettingUp
<1> QED
  BY <1>2, <1>3, <1>5, <1>6, <1>8, <1>9 DEF ControlStates

\* A receive loop goes on reading, waits in put(), or returns.
LEMMA LoopMoves ==
    ASSUME ControlInv, NEW p \in Parts, NEW s \in {"streaming", "putting", "ended"},
           phase = "receiving", pc[p] # "ended",
           pc[p] \in SettingUp => s = "ended",
           pc' = [pc EXCEPT ![p] = s],
           UNCHANGED objectVars
    PROVE  ObjectsOK' /\ ControlStates' /\ pc' \in [Parts -> PCs]
<1>1. UNCHANGED <<tc, health, phase, shutdown>>
  BY DEF objectVars
<1>2. pc \in [Parts -> PCs] /\ pc' \in [Parts -> PCs]
  BY DEF ControlInv, TaskTypeOK, PCs
<1>3. pc'[p] = s /\ \A r \in Parts \ {p} : pc'[r] = pc[r]
  BY <1>2
<1>4. ObjectsOK' /\ OneHealthCheck'
  BY <1>1 DEF ControlInv, ObjectsOK, ObjectTypeOK, OneHealthCheck
<1>5. TaskStates'
  BY <1>1, <1>3 DEF ControlInv, TaskStates, SettingUp
<1>6. HealthChecks'
  BY <1>1, <1>3 DEF ControlInv, HealthChecks, SettingUp
<1>7. ClosedForGood'
  BY <1>1, <1>3 DEF ControlInv, ClosedForGood, TaskStates, SettingUp
<1> QED
  BY <1>2, <1>4, <1>5, <1>6, <1>7 DEF ControlStates

\* A step that changes neither objects nor what tasks wait for.
LEMMA ControlKept ==
    ASSUME ControlInv, UNCHANGED <<objectVars, pc>>
    PROVE  ObjectsOK' /\ ControlStates' /\ pc' \in [Parts -> PCs]
<1>1. UNCHANGED <<tc, health, phase, shutdown, pc>>
  BY DEF objectVars
<1> QED
  BY <1>1 DEF ControlInv, ObjectsOK, ObjectTypeOK, TaskTypeOK, ControlStates, TaskStates,
     HealthChecks, OneHealthCheck, ClosedForGood

-----------------------------------------------------------------------------
(***************************************************************************)
(* The shared stretches of code, one lemma each.                           *)
(***************************************************************************)

\* Starting a TopicLookup touches nothing but locals of the task.
LEMMA StartLookupTyped ==
    ASSUME ControlInv, NEW p \in Parts, NEW q, Sound(q), NEW s, StartLookup(p, q, s)
    PROVE  /\ pc' = [pc EXCEPT ![p] = s]
           /\ rpc' \in [Parts -> RouteType]
           /\ answer' \in [Parts -> BrokerAddress \cup {NoAddr}]
<1>1. [url |-> q.connect_url, header |-> NoHeader] \in RouteType
  BY LookupRouteTyped
<1> QED
  BY <1>1 DEF StartLookup, ControlInv, TaskTypeOK

\* _try_subscribe up to its RPC: the object stays sound, the task awaits.
LEMMA StartSubscribeControl ==
    ASSUME ControlInv, NEW p \in Parts, pc[p] \in SettingUp,
           NEW q, Sound(q), q.stop_event = tc[p].stop_event,
           StartSubscribe(p, q), UNCHANGED <<health, phase, shutdown>>
    PROVE  /\ ObjectsOK' /\ ControlStates' /\ pc' \in [Parts -> PCs]
           /\ rpc' \in [Parts -> RouteType]
           /\ answer' \in [Parts -> BrokerAddress \cup {NoAddr}]
<1>1. Sound(Connect(q)) /\ Connect(q).stop_event = tc[p].stop_event
  BY ConnectSound
<1>2. Route(Connect(q)) \in RouteType
  BY <1>1, RouteTyped
<1>3. /\ tc' = [tc EXCEPT ![p] = Connect(q)]
      /\ rpc' = [rpc EXCEPT ![p] = Route(Connect(q))]
      /\ pc' = [pc EXCEPT ![p] = "subscribing"]
      /\ answer' = [answer EXCEPT ![p] = NoAddr]
  BY DEF StartSubscribe
<1>4. ObjectsOK' /\ ControlStates' /\ pc' \in [Parts -> PCs]
  BY <1>1, <1>3, SettingUpMoves, "subscribing" \in SettingUp DEF SettingUp
<1> QED
  BY <1>2, <1>3, <1>4 DEF ControlInv, TaskTypeOK

\* What follows a lookup: Subscribe, or the sleep before it.
LEMMA AfterLookupControl ==
    ASSUME ControlInv, NEW p \in Parts, InLookup(p),
           NEW q, Sound(q), q.stop_event = tc[p].stop_event,
           AfterLookup(p, q), ClusterTypeOK',
           UNCHANGED <<health, phase, shutdown, stream, held>>
    PROVE  ControlInv'
<1>1. pc[p] \in SettingUp
  BY DEF InLookup, SettingUp
<1>2. CASE /\ attempts' = [attempts EXCEPT ![p] = 0]
           /\ StartSubscribe(p, q)
  <2>1. /\ ObjectsOK' /\ ControlStates' /\ pc' \in [Parts -> PCs]
        /\ rpc' \in [Parts -> RouteType]
        /\ answer' \in [Parts -> BrokerAddress \cup {NoAddr}]
    BY <1>1, <1>2, StartSubscribeControl
  <2>2. TaskTypeOK'
    BY <1>2, <2>1 DEF ControlInv, TaskTypeOK
  <2> QED
    BY <2>1, <2>2, ControlParts DEF ControlInv, ObjectsOK, ControlStates
<1>3. CASE /\ tc' = [tc EXCEPT ![p] = q]
           /\ pc' = [pc EXCEPT ![p] = "backoff"]
           /\ answer' = [answer EXCEPT ![p] = NoAddr]
           /\ UNCHANGED <<rpc, attempts>>
  <2>1. ObjectsOK' /\ ControlStates' /\ pc' \in [Parts -> PCs]
    BY <1>1, <1>3, SettingUpMoves, "backoff" \in SettingUp DEF SettingUp
  <2>2. TaskTypeOK'
    BY <1>3, <2>1 DEF ControlInv, TaskTypeOK
  <2> QED
    BY <2>1, <2>2 DEF ControlInv, ObjectsOK, ControlStates
<1> QED
  BY <1>2, <1>3 DEF AfterLookup

\* subscribe() raises: gather notes the first failure, a loop just returns.
LEMMA SubscribeRaisesControl ==
    ASSUME ControlInv, NEW p \in Parts, pc[p] \in SettingUp, SubscribeRaises(p),
           UNCHANGED <<tc, health, shutdown>>
    PROVE  ObjectsOK' /\ ControlStates' /\ pc' \in [Parts -> PCs]
<1>1. CASE phase = "receiving" /\ pc' = [pc EXCEPT ![p] = "ended"] /\ UNCHANGED phase
  BY <1>1, LoopMoves DEF SettingUp, objectVars
<1>2. CASE /\ phase \in {"subscribing", "failed"}
           /\ pc' = [pc EXCEPT ![p] = "failed"]
           /\ phase' = "failed"
  <2>1. pc \in [Parts -> PCs] /\ pc' \in [Parts -> PCs]
    BY <1>2 DEF ControlInv, TaskTypeOK, PCs
  <2>2. pc'[p] = "failed" /\ \A r \in Parts \ {p} : pc'[r] = pc[r]
    BY <1>2, <2>1
  <2>3. ObjectsOK' /\ OneHealthCheck'
    BY <1>2 DEF ControlInv, ObjectsOK, ObjectTypeOK, OneHealthCheck
  <2>4. TaskStates'
    BY <1>2, <2>2 DEF ControlInv, TaskStates, SettingUp
  <2>5. HealthChecks'
    BY <2>2 DEF ControlInv, HealthChecks, SettingUp
  <2>6. ClosedForGood'
    BY <1>2 DEF ClosedForGood
  <2> QED
    BY <2>1, <2>3, <2>4, <2>5, <2>6 DEF ControlStates
<1> QED
  BY <1>1, <1>2 DEF SubscribeRaises

\* The except branch of TopicConsumer.subscribe: look up again, or raise.
LEMMA SubscribeErrorControl ==
    ASSUME ControlInv, NEW p \in Parts, pc[p] = "subscribing", NEW code,
           SubscribeError(p, code), ClusterTypeOK',
           UNCHANGED <<tc, health, shutdown, stream, held>>
    PROVE  ControlInv'
<1>1. pc[p] \in SettingUp /\ Sound(tc[p])
  BY SoundObject, ControlParts DEF SettingUp
<1>2. CASE /\ attempts[p] + 1 <= Retries
           /\ attempts' = [attempts EXCEPT ![p] = @ + 1]
           /\ StartLookup(p, tc[p], "lookupAgain")
           /\ UNCHANGED phase
  <2>1. /\ pc' = [pc EXCEPT ![p] = "lookupAgain"]
        /\ rpc' \in [Parts -> RouteType]
        /\ answer' \in [Parts -> BrokerAddress \cup {NoAddr}]
    BY <1>1, <1>2, StartLookupTyped
  <2>2. attempts' \in [Parts -> Nat]
    BY <1>2 DEF ControlInv, TaskTypeOK
  <2>3. tc' = [tc EXCEPT ![p] = tc[p]]
    BY DEF ControlInv, ObjectTypeOK
  <2>4. ObjectsOK' /\ ControlStates' /\ pc' \in [Parts -> PCs]
    BY <1>1, <1>2, <2>1, <2>3, SettingUpMoves, "lookupAgain" \in SettingUp DEF SettingUp
  <2>5. TaskTypeOK'
    BY <2>1, <2>2, <2>4 DEF ControlInv, TaskTypeOK
  <2> QED
    BY <2>4, <2>5 DEF ControlInv, ObjectsOK, ControlStates
<1>3. CASE SubscribeRaises(p) /\ UNCHANGED <<attempts, rpc, answer>>
  <2>1. ObjectsOK' /\ ControlStates' /\ pc' \in [Parts -> PCs]
    BY <1>1, <1>3, SubscribeRaisesControl
  <2>2. TaskTypeOK'
    BY <1>3, <2>1 DEF ControlInv, TaskTypeOK
  <2> QED
    BY <2>1, <2>2 DEF ControlInv, ObjectsOK, ControlStates
<1> QED
  BY <1>2, <1>3 DEF SubscribeError

\* The loop opens a stream with a sound object, or the token supplier raises.
LEMMA OpenOrEndTyped ==
    ASSUME ControlInv, NEW p \in Parts, NEW q, Sound(q), OpenOrEnd(p, q)
    PROVE  /\ \E s \in {"streaming", "ended"} : pc' = [pc EXCEPT ![p] = s]
           /\ stream' \in [Parts -> StreamType]
<1>1. OpenStream(q) \in StreamType /\ stream \in [Parts -> StreamType]
  BY OpenStreamTyped DEF ControlInv, TaskTypeOK
<1>2. CASE /\ pc' = [pc EXCEPT ![p] = "streaming"]
           /\ stream' = [stream EXCEPT ![p] = OpenStream(q)]
  BY <1>1, <1>2
<1>3. CASE /\ pc' = [pc EXCEPT ![p] = "ended"]
           /\ UNCHANGED stream
  BY <1>1, <1>3
<1> QED
  BY <1>2, <1>3 DEF OpenOrEnd

\* The loop leaves its stream: it returns, subscribes anew because the health
\* check has ended with stop_event, or opens the next stream.
LEMMA LeaveStreamControl ==
    ASSUME ControlInv, NEW p \in Parts, pc[p] = "streaming", LeaveStream(p), ClusterTypeOK',
           UNCHANGED <<health, phase, shutdown, attempts, held>>
    PROVE  ControlInv'
<1>1. phase = "receiving" /\ Sound(tc[p])
  BY SoundObject, ControlParts DEF ControlInv, ObjectTypeOK, TaskStates, SettingUp
<1>2. CASE /\ pc' = [pc EXCEPT ![p] = "ended"]
           /\ UNCHANGED <<tc, rpc, answer, stream>>
  <2>1. ObjectsOK' /\ ControlStates' /\ pc' \in [Parts -> PCs]
    BY <1>1, <1>2, LoopMoves DEF objectVars
  <2>2. TaskTypeOK'
    BY <1>2, <2>1 DEF ControlInv, TaskTypeOK
  <2> QED
    BY <2>1, <2>2 DEF ControlInv, ObjectsOK, ControlStates
<1>3. CASE /\ ~ shutdown /\ tc[p].stop_event
           /\ tc' = [tc EXCEPT ![p].stop_event = FALSE]
           /\ StartLookup(p, tc[p], "lookup")
           /\ stream' = [stream EXCEPT ![p] = NoStream]
  <2> DEFINE q == [tc[p] EXCEPT !.stop_event = FALSE]
  <2>1. /\ pc' = [pc EXCEPT ![p] = "lookup"]
        /\ rpc' \in [Parts -> RouteType]
        /\ answer' \in [Parts -> BrokerAddress \cup {NoAddr}]
    BY <1>1, <1>3, StartLookupTyped
  <2>2. Sound(q) /\ ~ q.stop_event
    BY <1>1, StopEventSound
  <2>3. tc' = [tc EXCEPT ![p] = q]
    BY <1>3
  <2> HIDE DEF q
  <2>4. /\ tc' \in [Parts -> TopicConsumerType]
        /\ \A r \in Parts : GoodConsumer(tc'[r])
        /\ tc'[p] = q
        /\ \A r \in Parts \ {p} : tc'[r] = tc[r]
    BY <2>2, <2>3, ObjectReplaced, ControlParts
  <2>5. pc \in [Parts -> PCs] /\ pc' \in [Parts -> PCs]
    BY <2>1 DEF ControlInv, TaskTypeOK, PCs
  <2>6. pc'[p] = "lookup" /\ \A r \in Parts \ {p} : pc'[r] = pc[r]
    BY <2>1, <2>5
  <2>7. health[p] = {}
    BY <1>3 DEF ControlInv, HealthChecks
  <2>8. TaskStates'
    BY <1>1, <2>6 DEF ControlInv, TaskStates, SettingUp
  <2>9. HealthChecks'
    BY <2>2, <2>4, <2>6, <2>7 DEF ControlInv, HealthChecks
  <2>10. OneHealthCheck'
    BY <2>4, <2>7 DEF ControlInv, OneHealthCheck
  <2>11. ClosedForGood'
    BY <1>3 DEF ClosedForGood
  <2>12. stream' \in [Parts -> StreamType]
    BY <1>3, NoStreamTyped DEF ControlInv, TaskTypeOK
  <2>13. TaskTypeOK' /\ ObjectTypeOK'
    BY <2>1, <2>4, <2>5, <2>12 DEF ControlInv, TaskTypeOK, ObjectTypeOK
  <2> QED
    BY <2>4, <2>8, <2>9, <2>10, <2>11, <2>13 DEF ControlInv
<1>4. CASE OpenOrEnd(p, tc[p]) /\ UNCHANGED <<tc, rpc, answer>>
  <2>1. PICK s \in {"streaming", "ended"} : pc' = [pc EXCEPT ![p] = s]
    BY <1>1, <1>4, OpenOrEndTyped
  <2>2. stream' \in [Parts -> StreamType]
    BY <1>1, <1>4, OpenOrEndTyped
  <2>3. ObjectsOK' /\ ControlStates' /\ pc' \in [Parts -> PCs]
    BY <1>1, <1>4, <2>1, LoopMoves DEF objectVars, SettingUp
  <2>4. TaskTypeOK'
    BY <1>4, <2>2, <2>3 DEF ControlInv, TaskTypeOK
  <2> QED
    BY <2>3, <2>4 DEF ControlInv, ObjectsOK, ControlStates
<1> QED
  BY <1>2, <1>3, <1>4 DEF LeaveStream

-----------------------------------------------------------------------------
(***************************************************************************)
(* One lemma per action.                                                   *)
(***************************************************************************)

\* Initially nothing has been called, and no health check runs.
LEMMA InitControl == Init => ControlInv
<1> SUFFICES ASSUME Init PROVE ControlInv
  OBVIOUS
<1>1. ClusterTypeOK
  BY ClusterAssumption DEF Init, ClusterInit, ClusterTypeOK
<1>2. ObjectsOK
  BY NewTopicConsumerSound DEF Init, ObjectsOK, ObjectTypeOK, Sound
<1>3. TaskTypeOK
  BY NoStreamTyped DEF Init, TaskTypeOK, PCs
<1>4. ControlStates
  BY DEF Init, ControlStates, TaskStates, HealthChecks, OneHealthCheck, ClosedForGood,
     NewTopicConsumer
<1> QED
  BY <1>1, <1>2, <1>3, <1>4, ControlParts

\* Consumer.subscribe and its TopicPartitions request.
LEMMA PartitionsControl ==
    ASSUME ControlInv, Subscribe \/ PartitionsReturn \/ PartitionsFail
    PROVE  ControlInv'
<1>1. CASE Subscribe
  <2>1. UNCHANGED <<clusterVars, tc, health, shutdown, taskVars>> /\ phase = "new"
        /\ phase' = "partitions"
    BY <1>1 DEF Subscribe
  <2>2. ClusterTypeOK' /\ ObjectTypeOK' /\ TaskTypeOK'
    BY <2>1 DEF ControlInv, ClusterTypeOK, ObjectTypeOK, TaskTypeOK, clusterVars, taskVars
  <2>3. ControlStates'
    BY <2>1 DEF ControlInv, ControlStates, TaskStates, HealthChecks, OneHealthCheck,
       ClosedForGood, taskVars
  <2> QED
    BY <2>1, <2>2, <2>3 DEF ControlInv, ControlStates
<1>2. CASE PartitionsReturn
  <2>1. /\ UNCHANGED <<clusterVars, tc, health, shutdown, answer, attempts, stream, held>>
        /\ phase = "partitions" /\ phase' = "subscribing"
        /\ pc' = [p \in Parts |-> "lookup"]
        /\ rpc' = [p \in Parts |-> [url |-> tc[p].connect_url, header |-> NoHeader]]
    BY <1>2 DEF PartitionsReturn
  <2>2. rpc' \in [Parts -> RouteType]
    BY <2>1, LookupRouteTyped, SoundObject, ControlParts
  <2>3. ClusterTypeOK' /\ ObjectTypeOK' /\ TaskTypeOK'
    BY <2>1, <2>2 DEF ControlInv, ClusterTypeOK, ObjectTypeOK, TaskTypeOK, clusterVars, PCs
  <2>4. \A p \in Parts : health[p] = {} /\ ~ tc[p].stop_event
    BY <2>1 DEF ControlInv, TaskStates, HealthChecks
  <2>5. ControlStates'
    BY <2>1, <2>4 DEF ControlInv, ControlStates, TaskStates, HealthChecks, OneHealthCheck,
       ClosedForGood, SettingUp
  <2> QED
    BY <2>1, <2>3, <2>5 DEF ControlInv, ControlStates
<1>3. CASE PartitionsFail
  <2>1. UNCHANGED <<alive, owner, sess, nextId, tc, health, shutdown, taskVars>>
        /\ phase = "partitions" /\ phase' = "failed"
    BY <1>3 DEF PartitionsFail
  <2>2. faults' \in 0 .. MaxFaults
    BY <1>3, FaultTyped DEF PartitionsFail, ControlInv, ClusterTypeOK
  <2>3. ClusterTypeOK' /\ ObjectTypeOK' /\ TaskTypeOK'
    BY <2>1, <2>2 DEF ControlInv, ClusterTypeOK, ObjectTypeOK, TaskTypeOK, taskVars
  <2>4. ControlStates'
    BY <2>1 DEF ControlInv, ControlStates, TaskStates, HealthChecks, OneHealthCheck,
       ClosedForGood, taskVars
  <2> QED
    BY <2>1, <2>3, <2>4 DEF ControlInv, ControlStates
<1> QED
  BY <1>1, <1>2, <1>3

\* Consumer.receive starts the loops, unless the consumer was closed before.
LEMMA ReceiveControl == ControlInv /\ Receive => ControlInv'
<1> SUFFICES ASSUME ControlInv, Receive PROVE ControlInv'
  OBVIOUS
<1>1. /\ phase = "subscribed" /\ phase' = "receiving"
      /\ UNCHANGED <<clusterVars, tc, health, shutdown, rpc, answer, attempts, held>>
  BY DEF Receive
<1>2. /\ pc' \in [Parts -> {"streaming", "ended"}]
      /\ shutdown => pc' = [p \in Parts |-> "ended"]
      /\ stream' \in [Parts -> StreamType]
  <2>1. CASE /\ shutdown
             /\ pc' = [p \in Parts |-> "ended"]
             /\ UNCHANGED stream
    BY <2>1 DEF ControlInv, TaskTypeOK
  <2>2. ASSUME ~ shutdown, NEW opened \in SUBSET Parts,
               pc' = [p \in Parts |-> IF p \in opened THEN "streaming" ELSE "ended"],
               stream' = [p \in Parts |-> IF p \in opened THEN OpenStream(tc[p]) ELSE stream[p]]
        PROVE  /\ pc' \in [Parts -> {"streaming", "ended"}]
               /\ stream' \in [Parts -> StreamType]
    <3>1. \A p \in Parts : OpenStream(tc[p]) \in StreamType
      BY OpenStreamTyped, SoundObject, ControlParts
    <3> QED
      BY <2>2, <3>1 DEF ControlInv, TaskTypeOK
  <2> QED
    BY <2>1, <2>2 DEF Receive
<1>3. ClusterTypeOK' /\ ObjectTypeOK' /\ TaskTypeOK'
  BY <1>1, <1>2 DEF ControlInv, ClusterTypeOK, ObjectTypeOK, TaskTypeOK, clusterVars, PCs
<1>4. \A p \in Parts : pc'[p] \in {"streaming", "ended"} /\ (shutdown => pc'[p] = "ended")
  BY <1>2
<1>5. TaskStates'
  BY <1>1, <1>4 DEF TaskStates
<1>6. HealthChecks' /\ OneHealthCheck'
  BY <1>1, <1>4 DEF ControlInv, HealthChecks, OneHealthCheck, SettingUp
<1>7. ClosedForGood'
  BY <1>1, <1>4 DEF ControlInv, ClosedForGood
<1> QED
  BY <1>1, <1>3, <1>5, <1>6, <1>7 DEF ControlInv

\* close() of a consumer that subscribed stops every object, cancels the one
\* health check of each and ends all loops.
LEMMA CloseControl == ControlInv /\ Close => ControlInv'
<1> SUFFICES ASSUME ControlInv, Close PROVE ControlInv'
  OBVIOUS
<1>1. /\ phase \in {"subscribed", "failed", "receiving"} /\ shutdown'
      /\ UNCHANGED <<clusterVars, phase, rpc, answer, attempts, stream, held>>
      /\ shutdown' = TRUE
  BY DEF Close
<1>2. CASE phase = "failed" /\ UNCHANGED <<tc, health, pc>>
  <2>1. ClusterTypeOK' /\ ObjectTypeOK' /\ TaskTypeOK'
    BY <1>1, <1>2 DEF ControlInv, ClusterTypeOK, ObjectTypeOK, TaskTypeOK, clusterVars
  <2>2. ControlStates'
    BY <1>1, <1>2 DEF ControlInv, ControlStates, TaskStates, HealthChecks, OneHealthCheck,
       ClosedForGood
  <2> QED
    BY <1>2, <2>1, <2>2 DEF ControlInv, ControlStates
<1>3. CASE /\ phase # "failed"
           /\ tc' = [p \in Parts |-> Stop(tc[p])]
           /\ health' = HealthAfterStop
           /\ pc' = LoopsAfterCancel
  <2>1. \A p \in Parts : Sound(tc'[p]) /\ tc'[p].stop_event
    BY <1>3, StopSound, SoundObject, ControlParts
  <2>2. tc' \in [Parts -> TopicConsumerType] /\ \A p \in Parts : GoodConsumer(tc'[p])
    BY <1>3, <2>1 DEF Sound
  <2>3. \A p \in Parts : health'[p] = {}
    BY <1>3 DEF HealthAfterStop, ControlInv, OneHealthCheck
  <2>4. health' \in [Parts -> SUBSET HealthTaskType]
    BY <1>3, <2>3 DEF HealthAfterStop
  <2>5. \A p \in Parts : pc'[p] = IF phase = "receiving" THEN "ended" ELSE pc[p]
    BY <1>3 DEF LoopsAfterCancel
  <2>6. pc' \in [Parts -> PCs]
    BY <1>3 DEF LoopsAfterCancel, ControlInv, TaskTypeOK, PCs
  <2>7. ClusterTypeOK' /\ ObjectTypeOK' /\ TaskTypeOK'
    BY <1>1, <2>2, <2>4, <2>6 DEF ControlInv, ClusterTypeOK, ObjectTypeOK, TaskTypeOK, clusterVars
  <2>8. TaskStates' /\ ClosedForGood'
    BY <1>1, <1>3, <2>3, <2>5 DEF ControlInv, TaskStates, ClosedForGood
  <2>9. HealthChecks' /\ OneHealthCheck'
    BY <1>1, <1>3, <2>1, <2>3, <2>5 DEF ControlInv, TaskStates, HealthChecks, OneHealthCheck,
       SettingUp
  <2> QED
    BY <2>2, <2>7, <2>8, <2>9 DEF ControlInv
<1> QED
  BY <1>2, <1>3 DEF Close

\* The answer of a lookup is on its way.
LEMMA ServeLookupControl ==
    ASSUME ControlInv, NEW p \in Parts, ServeLookup(p)
    PROVE  ControlInv'
<1>1. LookupAnswer(p) \in BrokerAddress
  BY LookupAnswerTyped DEF ControlInv
<1>2. /\ UNCHANGED <<clusterVars, objectVars, pc, rpc, attempts, stream, held>>
      /\ answer' = [answer EXCEPT ![p] = LookupAnswer(p)]
  BY DEF ServeLookup
<1>3. ClusterTypeOK' /\ TaskTypeOK'
  BY <1>1, <1>2 DEF ControlInv, ClusterTypeOK, TaskTypeOK, clusterVars
<1> QED
  BY <1>2, <1>3, ControlKept DEF ControlInv, ObjectsOK, ControlStates

\* A lookup returns, with an answer or without one.
LEMMA LookupControl ==
    ASSUME ControlInv, NEW p \in Parts, LookupReturns(p) \/ LookupFails(p)
    PROVE  ControlInv'
<1>1. Sound(tc[p])
  BY SoundObject, ControlParts
<1>2. CASE LookupReturns(p)
  <2>1. answer[p] \in BrokerAddress
    BY <1>2 DEF LookupReturns, ControlInv, TaskTypeOK
  <2>2. ClusterTypeOK'
    BY <1>2 DEF LookupReturns, ControlInv, ClusterTypeOK, clusterVars
  <2> QED
    BY <1>1, <1>2, <2>1, <2>2, SetAddressSound, AfterLookupControl DEF LookupReturns
<1>3. CASE LookupFails(p)
  <2>1. ClusterTypeOK'
    BY <1>3, FaultTyped DEF LookupFails, ControlInv, ClusterTypeOK
  <2> QED
    BY <1>1, <1>3, <2>1, AfterLookupControl DEF LookupFails
<1> QED
  BY <1>2, <1>3

\* Subscribe succeeds: the health check of the new session is the only one, for
\* the one of the session before has ended.
LEMMA SubscribeAcceptedControl ==
    ASSUME ControlInv, NEW p \in Parts, SubscribeAccepted(p)
    PROVE  ControlInv'
<1> DEFINE q == Subscribed(tc[p], nextId)
           h == HealthTask(q)
<1>1. /\ pc[p] = "subscribing"
      /\ tc' = [tc EXCEPT ![p] = q]
      /\ health' = [health EXCEPT ![p] = @ \cup {h}]
      /\ SubscribeReturns(p, q)
      /\ UNCHANGED <<alive, owner, faults, shutdown, rpc, answer, attempts, held>>
  BY DEF SubscribeAccepted
<1>2. ClusterTypeOK' /\ nextId \in Nat
  BY <1>1, RegisterTyped DEF SubscribeAccepted, ControlInv, ClusterTypeOK
<1>3. pc[p] \in SettingUp /\ health[p] = {} /\ ~ tc[p].stop_event
  BY <1>1 DEF SettingUp, ControlInv, HealthChecks
<1>4. /\ Sound(q) /\ ~ q.stop_event
      /\ q.consumer_id = nextId /\ q.health_task = nextId
      /\ h \in HealthTaskType /\ h.id = nextId
  BY <1>2, <1>3, SoundObject, ControlParts, SubscribedSound, HealthTaskTyped
<1> HIDE DEF q, h
<1>5. /\ tc' \in [Parts -> TopicConsumerType]
      /\ \A r \in Parts : GoodConsumer(tc'[r])
      /\ tc'[p] = q
      /\ \A r \in Parts \ {p} : tc'[r] = tc[r]
  BY <1>1, <1>4, ObjectReplaced, ControlParts
<1>6. /\ health' \in [Parts -> SUBSET HealthTaskType]
      /\ health'[p] = {h}
      /\ \A r \in Parts \ {p} : health'[r] = health[r]
  BY <1>1, <1>3, <1>4 DEF ControlInv, ObjectTypeOK
<1>7. OneHealthCheck'
  BY <1>4, <1>5, <1>6 DEF ControlInv, OneHealthCheck
<1>8. pc \in [Parts -> PCs]
  BY DEF ControlInv, TaskTypeOK
<1>9. CASE phase = "receiving" /\ OpenOrEnd(p, q) /\ UNCHANGED phase
  <2>1. PICK s \in {"streaming", "ended"} : pc' = [pc EXCEPT ![p] = s]
    BY <1>4, <1>9, OpenOrEndTyped
  <2>2. stream' \in [Parts -> StreamType]
    BY <1>4, <1>9, OpenOrEndTyped
  <2>3. pc' \in [Parts -> PCs] /\ pc'[p] = s /\ \A r \in Parts \ {p} : pc'[r] = pc[r]
    BY <1>8, <2>1 DEF PCs
  <2>4. ObjectTypeOK' /\ TaskTypeOK'
    BY <1>1, <1>5, <1>6, <1>9, <2>2, <2>3 DEF ControlInv, ObjectTypeOK, TaskTypeOK
  <2>5. TaskStates'
    BY <1>1, <1>9, <2>3 DEF ControlInv, TaskStates
  <2>6. HealthChecks'
    BY <1>4, <1>5, <1>6, <2>3 DEF ControlInv, HealthChecks, SettingUp
  <2>7. ClosedForGood'
    BY <1>1, <1>9 DEF ControlInv, ClosedForGood
  <2> QED
    BY <1>2, <1>5, <1>7, <2>4, <2>5, <2>6, <2>7 DEF ControlInv
<1>10. CASE /\ phase \in {"subscribing", "failed"}
            /\ pc' = [pc EXCEPT ![p] = "ready"]
            /\ phase' = IF \A r \in Parts : pc'[r] = "ready" THEN "subscribed" ELSE phase
            /\ UNCHANGED stream
  <2>1. pc' \in [Parts -> PCs] /\ pc'[p] = "ready" /\ \A r \in Parts \ {p} : pc'[r] = pc[r]
    BY <1>8, <1>10 DEF PCs
  <2>2. ObjectTypeOK' /\ TaskTypeOK'
    BY <1>1, <1>5, <1>6, <1>10, <2>1 DEF ControlInv, ObjectTypeOK, TaskTypeOK
  <2>3. phase = "failed" => \E r \in Parts \ {p} : pc'[r] = "failed"
    BY <1>1, <2>1 DEF ControlInv, TaskStates
  <2>4. phase = "failed" => phase' = "failed"
    BY <1>10, <2>3
  <2>5. TaskStates'
    BY <1>1, <1>10, <2>1, <2>3, <2>4 DEF ControlInv, TaskStates, SettingUp
  <2>6. HealthChecks'
    BY <1>4, <1>5, <1>6, <2>1 DEF ControlInv, HealthChecks, SettingUp
  <2>7. ClosedForGood'
    BY <1>1, <1>10, <2>4 DEF ControlInv, ClosedForGood, TaskStates
  <2> QED
    BY <1>2, <1>5, <1>7, <2>2, <2>5, <2>6, <2>7 DEF ControlInv
<1> QED
  BY <1>1, <1>9, <1>10 DEF SubscribeReturns

\* Subscribe fails, whether or not the broker has registered the consumer.
LEMMA SubscribeFailsControl ==
    ASSUME ControlInv, NEW p \in Parts, SubscribeLost(p) \/ SubscribeRefused(p)
    PROVE  ControlInv'
<1>1. CASE SubscribeLost(p)
  <2>1. ClusterTypeOK'
    BY <1>1, RegisterTyped, FaultTyped DEF SubscribeLost, ControlInv, ClusterTypeOK
  <2> QED
    BY <1>1, <2>1, SubscribeErrorControl DEF SubscribeLost
<1>2. CASE SubscribeRefused(p)
  <2>1. faults' \in 0 .. MaxFaults
    BY <1>2, FaultTyped DEF SubscribeRefused, ControlInv, ClusterTypeOK
  <2>2. ClusterTypeOK'
    BY <1>2, <2>1 DEF SubscribeRefused, ControlInv, ClusterTypeOK
  <2>3. /\ pc[p] = "subscribing" /\ \E code : SubscribeError(p, code)
        /\ UNCHANGED <<tc, health, shutdown, stream, held>>
    BY <1>2 DEF SubscribeRefused
  <2> QED
    BY <2>2, <2>3, SubscribeErrorControl
<1> QED
  BY <1>1, <1>2

\* The sleep between two attempts to subscribe ends.
LEMMA WakeControl ==
    ASSUME ControlInv, NEW p \in Parts, Wake(p)
    PROVE  ControlInv'
<1>1. pc[p] \in SettingUp /\ Sound(tc[p])
  BY SoundObject, ControlParts DEF Wake, SettingUp
<1>2. UNCHANGED <<clusterVars, health, phase, shutdown, attempts, stream, held>>
  BY DEF Wake
<1>3. /\ ObjectsOK' /\ ControlStates' /\ pc' \in [Parts -> PCs]
      /\ rpc' \in [Parts -> RouteType]
      /\ answer' \in [Parts -> BrokerAddress \cup {NoAddr}]
  BY <1>1, <1>2, StartSubscribeControl DEF Wake
<1>4. ClusterTypeOK' /\ TaskTypeOK'
  BY <1>2, <1>3 DEF ControlInv, ClusterTypeOK, TaskTypeOK, clusterVars
<1> QED
  BY <1>3, <1>4 DEF ControlInv, ObjectsOK, ControlStates

\* Brokers put messages on a stream, the loop takes them off.
LEMMA StreamControl ==
    ASSUME ControlInv, NEW p \in Parts, stream' \in [Parts -> StreamType],
           UNCHANGED <<clusterVars, objectVars, pc, rpc, answer, attempts, held>>
    PROVE  ControlInv'
<1>1. ClusterTypeOK' /\ TaskTypeOK'
  BY DEF ControlInv, ClusterTypeOK, TaskTypeOK, clusterVars
<1> QED
  BY <1>1, ControlKept DEF ControlInv, ObjectsOK, ControlStates

\* A record of type StreamType with another buffer is one again.
LEMMA BufferReplaced ==
    ASSUME stream \in [Parts -> StreamType], NEW p \in Parts, NEW b \in Seq(Nat),
           NEW n \in Nat
    PROVE  /\ [stream EXCEPT ![p].buf = b] \in [Parts -> StreamType]
           /\ [stream EXCEPT ![p].next = n, ![p].buf = b] \in [Parts -> StreamType]
BY DEF StreamType

\* The messages that a stream has, and the one in the hands of the loop.
LEMMA StreamTyped ==
    ASSUME ControlInv, NEW p \in Parts
    PROVE  /\ stream[p].buf \in Seq(Nat) /\ stream[p].next \in Nat
           /\ held[p] \in Nat
           /\ \A n \in Nat : Append(stream[p].buf, n) \in Seq(Nat)
           /\ stream[p].buf # <<>> =>
                 Head(stream[p].buf) \in Nat /\ Tail(stream[p].buf) \in Seq(Nat)
<1>1. stream[p] \in StreamType
  BY DEF ControlInv, TaskTypeOK
<1>2. stream[p].buf \in Seq(Nat) /\ stream[p].next \in Nat
  BY <1>1 DEF StreamType
<1> QED
  BY <1>2 DEF ControlInv, TaskTypeOK

\* A broker sends a message, or sends it again.
LEMMA SendControl ==
    ASSUME ControlInv,
           \/ \E p \in Parts : Dispatch(p)
           \/ \E m \in Msgs : Redeliver(m)
    PROVE  ControlInv'
<1>1. stream \in [Parts -> StreamType]
  BY DEF ControlInv, TaskTypeOK
<1>2. ASSUME NEW p \in Parts, Dispatch(p) PROVE ControlInv'
  <2>1. PICK m \in 1 .. stored[p] :
          stream' = [stream EXCEPT ![p].next = m + 1, ![p].buf = Append(stream[p].buf, m)]
    BY <1>2 DEF Dispatch
  <2>2. m \in Nat /\ m + 1 \in Nat
    OBVIOUS
  <2>3. stream' \in [Parts -> StreamType]
    BY <1>1, <2>1, <2>2, StreamTyped, BufferReplaced
  <2> QED
    BY <1>2, <2>3, StreamControl DEF Dispatch
<1>3. ASSUME NEW m \in Msgs, Redeliver(m) PROVE ControlInv'
  <2>1. m[1] \in Parts /\ m[2] \in Nat
    BY ConsumerAssumption DEF Msgs
  <2>2. stream' = [stream EXCEPT ![m[1]].buf = Append(stream[m[1]].buf, m[2])]
    BY <1>3 DEF Redeliver
  <2>3. stream' \in [Parts -> StreamType]
    BY <1>1, <2>1, <2>2, StreamTyped, BufferReplaced
  <2> QED
    BY <1>3, <2>1, <2>3, StreamControl DEF Redeliver
<1> QED
  BY <1>2, <1>3

\* The loop reads a message; put() may wait and returns later.
LEMMA ReadControl ==
    ASSUME ControlInv, NEW p \in Parts, ReceiveMessage(p) \/ PutReturns(p)
    PROVE  ControlInv'
<1>1. stream \in [Parts -> StreamType] /\ held \in [Parts -> Nat]
  BY DEF ControlInv, TaskTypeOK
<1>2. phase = "receiving"
  BY DEF ReceiveMessage, PutReturns, ControlInv, ObjectTypeOK, TaskStates, SettingUp
<1>3. CASE ReceiveMessage(p)
  <2>1. /\ stream' = [stream EXCEPT ![p].buf = Tail(stream[p].buf)]
        /\ UNCHANGED <<clusterVars, objectVars, rpc, answer, attempts>>
        /\ pc[p] = "streaming" /\ stream[p].buf # <<>>
    BY <1>3 DEF ReceiveMessage
  <2>2. stream' \in [Parts -> StreamType]
    BY <1>1, <2>1, StreamTyped, BufferReplaced
  <2>3. CASE UNCHANGED <<pc, held>>
    BY <2>1, <2>2, <2>3, StreamControl
  <2>4. CASE /\ pc' = [pc EXCEPT ![p] = "putting"]
             /\ held' = [held EXCEPT ![p] = Head(stream[p].buf)]
    <3>1. ObjectsOK' /\ ControlStates' /\ pc' \in [Parts -> PCs]
      BY <1>2, <2>1, <2>4, LoopMoves DEF SettingUp
    <3>2. held' \in [Parts -> Nat]
      BY <1>1, <2>1, <2>4, StreamTyped
    <3>3. ClusterTypeOK' /\ TaskTypeOK'
      BY <2>1, <2>2, <3>1, <3>2 DEF ControlInv, ClusterTypeOK, TaskTypeOK, clusterVars
    <3> QED
      BY <3>1, <3>3 DEF ControlInv, ObjectsOK, ControlStates
  <2> QED
    BY <1>3, <2>3, <2>4 DEF ReceiveMessage
<1>4. CASE PutReturns(p)
  <2>1. /\ pc[p] = "putting" /\ pc' = [pc EXCEPT ![p] = "streaming"]
        /\ held' = [held EXCEPT ![p] = 0]
        /\ UNCHANGED <<clusterVars, objectVars, rpc, answer, attempts, stream>>
    BY <1>4 DEF PutReturns
  <2>2. ObjectsOK' /\ ControlStates' /\ pc' \in [Parts -> PCs]
    BY <1>2, <2>1, LoopMoves DEF SettingUp
  <2>3. ClusterTypeOK' /\ TaskTypeOK'
    BY <1>1, <2>1, <2>2 DEF ControlInv, ClusterTypeOK, TaskTypeOK, clusterVars
  <2> QED
    BY <2>2, <2>3 DEF ControlInv, ObjectsOK, ControlStates
<1> QED
  BY <1>3, <1>4

\* The loop drops a message, or its stream ends.
LEMMA LeaveControl ==
    ASSUME ControlInv, NEW p \in Parts, DropMessage(p) \/ StreamEnds(p)
    PROVE  ControlInv'
<1>1. CASE DropMessage(p)
  <2>1. ClusterTypeOK'
    BY <1>1 DEF DropMessage, ControlInv, ClusterTypeOK, clusterVars
  <2> QED
    BY <1>1, <2>1, LeaveStreamControl DEF DropMessage
<1>2. CASE StreamEnds(p)
  <2>1. ClusterTypeOK'
    BY <1>2, FaultTyped DEF StreamEnds, ControlInv, ClusterTypeOK
  <2> QED
    BY <1>2, <2>1, LeaveStreamControl DEF StreamEnds
<1> QED
  BY <1>1, <1>2

\* A health check ends: it was the only one, and may set stop_event.
LEMMA HealthControl ==
    ASSUME ControlInv, NEW p \in Parts, NEW h \in health[p],
           HealthClose(p, h) \/ HealthFails(p, h) \/ HealthStops(p, h)
    PROVE  ControlInv'
<1>1. /\ health' = [health EXCEPT ![p] = @ \ {h}]
      /\ UNCHANGED <<alive, owner, sess, nextId, phase, shutdown, taskVars>>
  BY DEF HealthClose, HealthFails, HealthStops, EndHealthTask, clusterVars
<1>2. ClusterTypeOK'
  BY <1>1, FaultTyped DEF HealthClose, HealthFails, HealthStops, ControlInv, ClusterTypeOK,
     clusterVars
<1>3. /\ health' \in [Parts -> SUBSET HealthTaskType]
      /\ health'[p] = {}
      /\ \A r \in Parts \ {p} : health'[r] = health[r]
  BY <1>1 DEF ControlInv, ObjectTypeOK, HealthChecks
<1>4. pc[p] \notin SettingUp \cup {"new"}
  BY DEF ControlInv, HealthChecks
<1>5. /\ tc' \in [Parts -> TopicConsumerType]
      /\ \A r \in Parts : GoodConsumer(tc'[r])
      /\ \A r \in Parts \ {p} : tc'[r] = tc[r]
  <2>1. CASE tc' = tc
    BY <2>1 DEF ControlInv, ObjectTypeOK
  <2>2. CASE tc' = [tc EXCEPT ![p].stop_event = TRUE]
    <3> DEFINE q == [tc[p] EXCEPT !.stop_event = TRUE]
    <3>1. Sound(q)
      BY SoundObject, ControlParts, StopEventSound
    <3>2. tc' = [tc EXCEPT ![p] = q]
      BY <2>2
    <3> QED
      BY <3>1, <3>2, ObjectReplaced, ControlParts
  <2> QED
    BY <2>1, <2>2 DEF HealthClose, HealthFails, HealthStops
<1>6. ObjectTypeOK' /\ TaskTypeOK' /\ TaskStates'
  BY <1>1, <1>3, <1>5 DEF ControlInv, ObjectTypeOK, TaskTypeOK, TaskStates, taskVars
<1>7. HealthChecks' /\ OneHealthCheck'
  BY <1>1, <1>3, <1>4, <1>5 DEF ControlInv, HealthChecks, OneHealthCheck, taskVars
<1>8. ClosedForGood'
  BY <1>1, <1>3 DEF ControlInv, ClosedForGood, taskVars
<1> QED
  BY <1>2, <1>5, <1>6, <1>7, <1>8 DEF ControlInv

\* Brokers crash, restart, and hand partitions over.
LEMMA EnvironmentControl == ControlInv /\ Environment => ControlInv'
<1> SUFFICES ASSUME ControlInv, Environment PROVE ControlInv'
  OBVIOUS
<1>1. ClusterTypeOK'
  BY ClusterStepTyped DEF ControlInv, Environment
<1>2. UNCHANGED <<objectVars, taskVars>>
  BY DEF Environment
<1>3. TaskTypeOK'
  BY <1>2 DEF ControlInv, TaskTypeOK, taskVars
<1> QED
  BY <1>1, <1>2, <1>3, ControlKept DEF ControlInv, ObjectsOK, ControlStates, taskVars

\* A step that only concerns messages, or none at all.
LEMMA QuietControl ==
    ASSUME ControlInv, UNCHANGED <<clusterVars, objectVars, taskVars>>
    PROVE  ControlInv'
<1>1. ClusterTypeOK' /\ TaskTypeOK'
  BY DEF ControlInv, ClusterTypeOK, TaskTypeOK, clusterVars, taskVars
<1> QED
  BY <1>1, ControlKept DEF ControlInv, ObjectsOK, ControlStates, taskVars

-----------------------------------------------------------------------------
\* Every step of the consumer, its brokers and the application preserves ControlInv.
LEMMA ControlStep ==
    ASSUME ControlInv, [Next]_vars
    PROVE  ControlInv'
<1>1. CASE UNCHANGED vars
  BY <1>1, QuietControl DEF vars
<1>2. ASSUME NEW m \in Msgs, Ack(m) \/ Nack(m) PROVE ControlInv'
  BY <1>2, QuietControl DEF Ack, Nack
<1>3. ASSUME NEW p \in Parts, Publish(p) PROVE ControlInv'
  BY <1>3, QuietControl DEF Publish
<1>4. CASE Take
  BY <1>4, QuietControl DEF Take
<1>5. ASSUME NEW p \in Parts, TaskStep(p) PROVE ControlInv'
  BY <1>5, ServeLookupControl, LookupControl, SubscribeAcceptedControl, SubscribeFailsControl,
     WakeControl, ReadControl, LeaveControl DEF TaskStep
<1> QED
  BY <1>1, <1>2, <1>3, <1>4, <1>5, PartitionsControl, ReceiveControl, CloseControl, SendControl,
     SubscribeFailsControl, HealthControl, EnvironmentControl DEF Next

-----------------------------------------------------------------------------
(***************************************************************************)
(* The theorems.                                                           *)
(***************************************************************************)

\* What tasks, objects and health checks are doing fits together in every
\* reachable state, whatever the messages are.
THEOREM ConsumerControlInv == Spec => []ControlInv
BY InitControl, ControlStep, PTL DEF Spec

\* However often a partition is subscribed to anew, there is never a second
\* health check for it, nor one that stop() could not cancel.
THEOREM ConsumerOneHealthCheck == Spec => []OneHealthCheck
<1>1. ControlInv => OneHealthCheck
  BY DEF ControlInv
<1> QED
  BY InitControl, ControlStep, <1>1, PTL DEF Spec

\* After close() no receive loop and no health check is left, whatever they were
\* in the middle of, and none starts any more.
THEOREM ConsumerClosedForGood == Spec => []ClosedForGood
<1>1. ControlInv => ClosedForGood
  BY DEF ControlInv
<1> QED
  BY InitControl, ControlStep, <1>1, PTL DEF Spec

-----------------------------------------------------------------------------
(***************************************************************************)
(* Consumer implements Subscription.                                       *)
(*                                                                         *)
(* The abstract variables are variables of Consumer, so what has to be     *)
(* shown is that each step, seen through them, is a step of Subscription   *)
(* or a stutter. Only one abstract guard is not a guard of the code: a     *)
(* message is delivered after the earlier ones of its partition. The code  *)
(* never compares two messages; that it keeps the order all the same is    *)
(* StreamsInOrder: what was not delivered is in the hands of the loop or   *)
(* before it on the stream, or the stream is a new one that begins with    *)
(* the first unacknowledged message, and what is acknowledged was          *)
(* delivered (MessageStates).                                              *)
(*                                                                         *)
(* Most steps concern no message: Calm says so, and CalmStep concludes     *)
(* from it. The others have a lemma each.                                  *)
(***************************************************************************)

\* The part of IndInv that is about messages.
MessageInv == MessageTypeOK /\ MessageStates /\ StreamsInOrder /\ NoGap

\* The step is one of Subscription, or none.
Promised == [Promise!Next]_(Promise!vars)

\* The loop of p goes on with what it had, or reads nothing, or a new stream.
Calm(p) ==
    \/ /\ pc'[p] = pc[p]
       /\ stream'[p] = stream[p]
       /\ held'[p] = held[p]
    \/ pc'[p] \notin {"streaming", "putting"}
    \/ pc'[p] = "streaming" /\ stream'[p].next = 0 /\ stream'[p].buf = <<>>

\* More messages that were delivered or are stored do not disturb the order.
LEMMA InOrderKept ==
    ASSUME NEW p \in Parts, InOrder(p), seen \subseteq seen',
           stored[p] \in Nat, stored'[p] \in Nat, stored[p] <= stored'[p],
           stream[p].next \in Nat, stream[p].buf \in Seq(Nat), held[p] \in Nat,
           pc'[p] = pc[p], stream'[p] = stream[p], held'[p] = held[p]
    PROVE  InOrder(p)'
<1> SUFFICES ASSUME Reading(p)' PROVE InOrder(p)'
  BY DEF InOrder
<1>1. Reading(p)
  BY DEF Reading
<1>2. ASSUME NEW i, NEW n, Before(p, i, n) PROVE Before(p, i, n)'
  BY <1>2 DEF Before
<1>3. /\ stream[p].next <= stored'[p] + 1
      /\ \A n \in 1 .. (stream[p].next - 1) : Before(p, Len(stream[p].buf) + 1, n)'
  <2>1. /\ stream[p].next <= stored[p] + 1
        /\ \A n \in 1 .. (stream[p].next - 1) : Before(p, Len(stream[p].buf) + 1, n)
    BY <1>1 DEF InOrder
  <2> QED
    BY <1>2, <2>1
<1>4. ASSUME NEW i \in DOMAIN stream[p].buf
      PROVE  /\ stream[p].buf[i] \in 1 .. stored'[p]
             /\ \A n \in 1 .. (stream[p].buf[i] - 1) : Before(p, i, n)'
  <2>1. /\ stream[p].buf[i] \in 1 .. stored[p]
        /\ \A n \in 1 .. (stream[p].buf[i] - 1) : Before(p, i, n)
    BY <1>1 DEF InOrder
  <2> QED
    BY <1>2, <2>1
<1>5. pc[p] = "putting" => /\ held[p] \in 1 .. stored'[p]
                           /\ \A n \in 1 .. (held[p] - 1) : <<p, n>> \in seen'
  BY <1>1 DEF InOrder
<1> QED
  BY <1>3, <1>4, <1>5 DEF InOrder

\* A stream without messages is in order.
LEMMA InOrderFresh ==
    ASSUME NEW p \in Parts, stored'[p] \in Nat,
           \/ pc'[p] \notin {"streaming", "putting"}
           \/ pc'[p] = "streaming" /\ stream'[p].next = 0 /\ stream'[p].buf = <<>>
    PROVE  InOrder(p)'
<1> SUFFICES ASSUME Reading(p)' PROVE InOrder(p)'
  BY DEF InOrder
<1>1. pc'[p] = "streaming" /\ stream'[p].next = 0 /\ stream'[p].buf = <<>>
  BY DEF Reading
<1> QED
  BY <1>1 DEF InOrder

\* The parts of IndInv.
LEMMA IndParts == IndInv <=> ControlInv /\ MessageInv
BY DEF IndInv, MessageInv

\* A step that concerns no message, be it close().
LEMMA CalmStep ==
    ASSUME IndInv, UNCHANGED messageVars, shutdown' \in {shutdown, TRUE},
           \A p \in Parts : Calm(p)
    PROVE  MessageInv' /\ Promised
<1>1. UNCHANGED <<queue, seen, taken, nacked, stored, acked, due>>
  BY DEF messageVars
<1>2. MessageTypeOK' /\ MessageStates' /\ NoGap'
  BY <1>1 DEF IndInv, MessageTypeOK, MessageStates, NoGap
<1>3. StreamsInOrder'
  <2>1. SUFFICES ASSUME NEW p \in Parts PROVE InOrder(p)'
    BY DEF StreamsInOrder
  <2>2. InOrder(p) /\ stored[p] \in Nat /\ stored'[p] = stored[p]
    BY <1>1 DEF IndInv, StreamsInOrder, MessageTypeOK
  <2>3. CASE /\ pc'[p] = pc[p]
             /\ stream'[p] = stream[p]
             /\ held'[p] = held[p]
    BY <1>1, <2>2, <2>3, InOrderKept, StreamTyped DEF IndInv
  <2> QED
    BY <2>2, <2>3, InOrderFresh DEF Calm
<1>4. Promised
  BY <1>1 DEF Promised, Promise!Next, Promise!vars, Promise!Close
<1> QED
  BY <1>2, <1>3, <1>4 DEF MessageInv

-----------------------------------------------------------------------------
(***************************************************************************)
(* The steps that concern no message.                                      *)
(***************************************************************************)

\* No task takes part.
LEMMA OthersCalm ==
    ASSUME UNCHANGED taskVars
    PROVE  \A p \in Parts : Calm(p)
BY DEF taskVars, Calm

\* A task that does not read its stream after the step, and no other task.
LEMMA TaskCalm ==
    ASSUME ControlInv, NEW p \in Parts, NEW s, s \notin {"streaming", "putting"},
           pc' = [pc EXCEPT ![p] = s], held' = held,
           \A r \in Parts \ {p} : stream'[r] = stream[r]
    PROVE  \A r \in Parts : Calm(r)
BY DEF Calm, ControlInv, TaskTypeOK

\* The loop opens a stream or returns.
LEMMA OpenOrEndCalm ==
    ASSUME ControlInv, NEW p \in Parts, NEW q, OpenOrEnd(p, q), held' = held
    PROVE  \A r \in Parts : Calm(r)
<1>1. OpenStream(q).next = 0 /\ OpenStream(q).buf = <<>>
  BY DEF OpenStream
<1>2. stream \in [Parts -> StreamType] /\ pc \in [Parts -> PCs]
  BY DEF ControlInv, TaskTypeOK
<1>3. CASE /\ pc' = [pc EXCEPT ![p] = "streaming"]
           /\ stream' = [stream EXCEPT ![p] = OpenStream(q)]
  BY <1>1, <1>2, <1>3 DEF Calm
<1>4. CASE /\ pc' = [pc EXCEPT ![p] = "ended"]
           /\ UNCHANGED stream
  BY <1>2, <1>4 DEF Calm
<1> QED
  BY <1>3, <1>4 DEF OpenOrEnd

\* The loop leaves its stream, and what it had with it.
LEMMA LeaveStreamCalm ==
    ASSUME ControlInv, NEW p \in Parts, LeaveStream(p), held' = held
    PROVE  \A r \in Parts : Calm(r)
<1>1. CASE pc' = [pc EXCEPT ![p] = "ended"] /\ UNCHANGED stream
  BY <1>1, TaskCalm
<1>2. CASE StartLookup(p, tc[p], "lookup") /\ stream' = [stream EXCEPT ![p] = NoStream]
  BY <1>2, TaskCalm DEF StartLookup, ControlInv, TaskTypeOK
<1>3. CASE OpenOrEnd(p, tc[p])
  BY <1>3, OpenOrEndCalm
<1> QED
  BY <1>1, <1>2, <1>3 DEF LeaveStream

\* A failed Subscribe: the task goes back to the lookup, or subscribe() raises.
LEMMA SubscribeErrorCalm ==
    ASSUME ControlInv, NEW p \in Parts, NEW code, SubscribeError(p, code),
           UNCHANGED <<stream, held>>
    PROVE  \A r \in Parts : Calm(r)
BY TaskCalm DEF SubscribeError, SubscribeRaises, StartLookup

\* What follows a lookup.
LEMMA AfterLookupCalm ==
    ASSUME ControlInv, NEW p \in Parts, NEW q, AfterLookup(p, q), UNCHANGED <<stream, held>>
    PROVE  \A r \in Parts : Calm(r)
BY TaskCalm DEF AfterLookup, StartSubscribe

\* Subscribe succeeds: Consumer.subscribe() goes on, or the loop opens a stream.
LEMMA SubscribeReturnsCalm ==
    ASSUME ControlInv, NEW p \in Parts, NEW q, SubscribeReturns(p, q), held' = held
    PROVE  \A r \in Parts : Calm(r)
BY TaskCalm, OpenOrEndCalm DEF SubscribeReturns

\* Setting up a session, whatever comes of it, concerns no message.
LEMMA SettingUpCalm ==
    ASSUME IndInv, NEW p \in Parts,
           \/ ServeLookup(p) \/ LookupReturns(p) \/ LookupFails(p) \/ Wake(p)
           \/ SubscribeAccepted(p) \/ SubscribeLost(p) \/ SubscribeRefused(p)
    PROVE  MessageInv' /\ Promised
<1>1. UNCHANGED <<shutdown, messageVars>>
  BY DEF ServeLookup, LookupReturns, LookupFails, Wake, SubscribeAccepted, SubscribeLost,
     SubscribeRefused, objectVars
<1>2. ControlInv
  BY DEF IndInv
<1>3. \A r \in Parts : Calm(r)
  <2>1. CASE ServeLookup(p)
    BY <2>1 DEF ServeLookup, Calm
  <2>2. CASE LookupReturns(p) \/ LookupFails(p)
    BY <1>2, <2>2, AfterLookupCalm DEF LookupReturns, LookupFails
  <2>3. CASE Wake(p)
    BY <1>2, <2>3, TaskCalm DEF Wake, StartSubscribe
  <2>4. CASE SubscribeAccepted(p)
    BY <1>2, <2>4, SubscribeReturnsCalm DEF SubscribeAccepted
  <2>5. CASE SubscribeLost(p) \/ SubscribeRefused(p)
    <3>1. (\E code : SubscribeError(p, code)) /\ UNCHANGED <<stream, held>>
      BY <2>5 DEF SubscribeLost, SubscribeRefused
    <3> QED
      BY <1>2, <3>1, SubscribeErrorCalm
  <2> QED
    BY <2>1, <2>2, <2>3, <2>4, <2>5
<1> QED
  BY <1>1, <1>3, CalmStep

\* Nor do a stream that is left, health checks, brokers and calls other than
\* those that take, acknowledge or nack a message.
LEMMA OtherCalm ==
    ASSUME IndInv,
           \/ Subscribe \/ PartitionsReturn \/ PartitionsFail \/ Receive \/ Close
           \/ \E p \in Parts : DropMessage(p) \/ StreamEnds(p)
           \/ \E p \in Parts : \E h \in health[p] :
                 HealthClose(p, h) \/ HealthFails(p, h) \/ HealthStops(p, h)
           \/ Environment
           \/ UNCHANGED vars
    PROVE  MessageInv' /\ Promised
<1>1. ControlInv
  BY DEF IndInv
<1>2. CASE Subscribe \/ PartitionsFail \/ Environment \/ UNCHANGED vars
  <2>1. UNCHANGED <<shutdown, taskVars, messageVars>>
    BY <1>2 DEF Subscribe, PartitionsFail, Environment, vars, objectVars
  <2> QED
    BY <2>1, OthersCalm, CalmStep
<1>3. CASE PartitionsReturn
  <2>1. UNCHANGED <<shutdown, messageVars>> /\ pc' = [p \in Parts |-> "lookup"]
    BY <1>3 DEF PartitionsReturn
  <2>2. \A p \in Parts : Calm(p)
    BY <2>1 DEF Calm
  <2> QED
    BY <2>1, <2>2, CalmStep
<1>4. CASE Receive
  <2>1. UNCHANGED <<shutdown, messageVars>>
    BY <1>4 DEF Receive
  <2>2. \A p \in Parts :
           \/ pc'[p] = "ended"
           \/ pc'[p] = "streaming" /\ stream'[p] = OpenStream(tc[p])
    BY <1>4 DEF Receive
  <2>3. \A q : OpenStream(q).next = 0 /\ OpenStream(q).buf = <<>>
    BY DEF OpenStream
  <2>4. \A p \in Parts : Calm(p)
    BY <2>2, <2>3 DEF Calm
  <2> QED
    BY <2>1, <2>4, CalmStep
<1>5. CASE Close
  <2>1. UNCHANGED <<stream, held, messageVars>> /\ shutdown' = TRUE
    BY <1>5 DEF Close
  <2>2. \A p \in Parts : pc'[p] = pc[p] \/ pc'[p] = "ended"
    BY <1>5 DEF Close, LoopsAfterCancel
  <2>3. \A p \in Parts : Calm(p)
    BY <2>1, <2>2 DEF Calm
  <2> QED
    BY <2>1, <2>3, CalmStep
<1>6. ASSUME NEW p \in Parts, DropMessage(p) \/ StreamEnds(p) PROVE MessageInv' /\ Promised
  <2>1. LeaveStream(p) /\ UNCHANGED <<shutdown, held, messageVars>>
    BY <1>6 DEF DropMessage, StreamEnds
  <2> QED
    BY <1>1, <2>1, LeaveStreamCalm, CalmStep
<1>7. ASSUME NEW p \in Parts, NEW h \in health[p],
             HealthClose(p, h) \/ HealthFails(p, h) \/ HealthStops(p, h)
      PROVE  MessageInv' /\ Promised
  <2>1. UNCHANGED <<shutdown, taskVars, messageVars>>
    BY <1>7 DEF HealthClose, HealthFails, HealthStops
  <2> QED
    BY <2>1, OthersCalm, CalmStep
<1> QED
  BY <1>2, <1>3, <1>4, <1>5, <1>6, <1>7

-----------------------------------------------------------------------------
(***************************************************************************)
(* The steps that concern messages.                                        *)
(***************************************************************************)

\* The loops and the logs stay what they are while seen may grow.
LEMMA OtherInOrder ==
    ASSUME IndInv, NEW p \in Parts, seen \subseteq seen', stored'[p] = stored[p],
           pc'[p] = pc[p], stream'[p] = stream[p], held'[p] = held[p]
    PROVE  InOrder(p)'
<1>1. InOrder(p) /\ stored[p] \in Nat
  BY DEF IndInv, StreamsInOrder, MessageTypeOK
<1> QED
  BY <1>1, InOrderKept, StreamTyped DEF IndInv

\* The application takes what was delivered to it.
LEMMA TakePromised == IndInv /\ Take => MessageInv' /\ Promised
<1> SUFFICES ASSUME IndInv, Take PROVE MessageInv' /\ Promised
  OBVIOUS
<1>1. /\ queue # <<>> /\ taken' = taken \cup {Head(queue)} /\ queue' = Tail(queue)
      /\ UNCHANGED <<shutdown, taskVars, seen, nacked, stored, acked, due>>
  BY DEF Take, objectVars
<1>2. /\ queue \in Seq(Msgs) /\ Head(queue) \in Msgs /\ queue' \in Seq(Msgs)
      /\ Head(queue) = queue[1] /\ 1 \in DOMAIN queue
      /\ \A i \in DOMAIN queue' : queue'[i] = queue[i + 1] /\ i + 1 \in DOMAIN queue
  BY <1>1 DEF IndInv, MessageTypeOK
<1>3. MessageTypeOK'
  BY <1>1, <1>2 DEF IndInv, MessageTypeOK
<1>4. MessageStates'
  BY <1>1, <1>2 DEF IndInv, MessageStates
<1>5. StreamsInOrder' /\ NoGap'
  BY <1>1, OtherInOrder DEF IndInv, StreamsInOrder, NoGap, taskVars
<1>6. Promised
  BY <1>1 DEF Promised, Promise!Next, Promise!Take
<1> QED
  BY <1>3, <1>4, <1>5, <1>6 DEF MessageInv

\* What is acknowledged was taken; a nack promises nothing.
LEMMA AckPromised ==
    ASSUME IndInv, NEW m \in Msgs, Ack(m) \/ Nack(m)
    PROVE  MessageInv' /\ Promised
<1>1. /\ m \in taken
      /\ acked' \in {acked, acked \cup {m}}
      /\ due' \in {due \ {m}, due \cup {m}}
      /\ nacked' \in {nacked \ {m}, nacked \cup {m}}
      /\ UNCHANGED <<shutdown, taskVars, queue, seen, taken, stored>>
  BY DEF Ack, Nack, send_ack, send_nack, objectVars
<1>2. MessageTypeOK'
  BY <1>1 DEF IndInv, MessageTypeOK
<1>3. MessageStates'
  BY <1>1 DEF IndInv, MessageStates
<1>4. StreamsInOrder' /\ NoGap'
  BY <1>1, OtherInOrder DEF IndInv, StreamsInOrder, NoGap, taskVars
<1>5. Promised
  BY <1>1 DEF Promised, Promise!Next, Promise!vars, Promise!Ack, Promise!Msgs, Msgs
<1> QED
  BY <1>2, <1>3, <1>4, <1>5 DEF MessageInv

\* A producer stores a message.
LEMMA PublishPromised ==
    ASSUME IndInv, NEW p \in Parts, Publish(p)
    PROVE  MessageInv' /\ Promised
<1>1. /\ stored[p] < MaxMsgs
      /\ stored' = [stored EXCEPT ![p] = @ + 1]
      /\ UNCHANGED <<shutdown, taskVars, queue, seen, taken, nacked, acked, due>>
  BY DEF Publish, objectVars
<1>2. /\ stored \in [Parts -> 0 .. MaxMsgs]
      /\ stored' \in [Parts -> 0 .. MaxMsgs]
  BY <1>1, ConsumerAssumption DEF IndInv, MessageTypeOK
<1>3. MessageTypeOK' /\ MessageStates' /\ NoGap'
  BY <1>1, <1>2 DEF IndInv, MessageTypeOK, MessageStates, NoGap
<1>4. ASSUME NEW r \in Parts PROVE InOrder(r)'
  <2>1. stored[r] \in Nat /\ stored'[r] \in Nat /\ stored[r] <= stored'[r]
    BY <1>1, <1>2, ConsumerAssumption
  <2>2. InOrder(r)
    BY DEF IndInv, StreamsInOrder
  <2> QED
    BY <1>1, <2>1, <2>2, InOrderKept, StreamTyped DEF taskVars, IndInv
<1>5. Promised
  BY <1>1 DEF Promised, Promise!Next, Promise!Publish
<1> QED
  BY <1>3, <1>4, <1>5 DEF MessageInv, StreamsInOrder

\* A broker puts message m at the end of the stream of p: the messages before m
\* were delivered or are ahead of it.
LEMMA AppendedInOrder ==
    ASSUME IndInv, NEW p \in Parts, Reading(p), NEW m \in 1 .. stored[p], NEW next \in Nat,
           UNCHANGED <<pc, held, seen, stored>>,
           stream'[p].buf = Append(stream[p].buf, m), stream'[p].next = next,
           next <= stored[p] + 1,
           \A n \in 1 .. (m - 1) : Before(p, Len(stream[p].buf) + 1, n),
           \A n \in 1 .. (next - 1) : n = m \/ Before(p, Len(stream[p].buf) + 1, n)
    PROVE  InOrder(p)'
<1> DEFINE b == stream[p].buf
           l == Len(b)
<1>1. /\ b \in Seq(Nat) /\ held[p] \in Nat /\ stored[p] \in Nat
  BY StreamTyped DEF IndInv, MessageTypeOK
<1>2. /\ m \in Nat /\ l \in Nat
      /\ Len(stream'[p].buf) = l + 1
      /\ DOMAIN stream'[p].buf = 1 .. (l + 1)
      /\ \A i \in 1 .. l : stream'[p].buf[i] = b[i]
      /\ stream'[p].buf[l + 1] = m
      /\ DOMAIN b = 1 .. l
  BY <1>1
<1>3. ASSUME NEW i \in 1 .. (l + 1), NEW n, Before(p, i, n) PROVE Before(p, i, n)'
  BY <1>2, <1>3 DEF Before
<1>4. ASSUME NEW n, NEW k, k = l + 2, n = m \/ Before(p, l + 1, n)
      PROVE  Before(p, k, n)'
  <2>1. k = l + 2 /\ l \in Nat
    BY <1>2, <1>4
  <2>2. CASE n = m
    <3>1. l + 1 \in 1 .. (k - 1)
      BY <1>2, <2>1
    <3> QED
      BY <1>2, <2>2, <3>1 DEF Before
  <2>3. CASE Before(p, l + 1, n)
    <3>1. ASSUME NEW j \in 1 .. ((l + 1) - 1), b[j] = n
          PROVE  j \in 1 .. (k - 1) /\ stream'[p].buf[j] = n
      BY <1>2, <2>1, <3>1
    <3> QED
      BY <2>3, <3>1 DEF Before
  <2> QED
    BY <1>4, <2>2, <2>3
<1>5. InOrder(p)
  BY DEF IndInv, StreamsInOrder
<1> HIDE DEF b, l
<1>6. ASSUME NEW n \in 1 .. (next - 1), NEW k, k = Len(stream'[p].buf) + 1
      PROVE  Before(p, k, n)'
  BY <1>2, <1>4, <1>6 DEF b, l
<1>7. ASSUME NEW i \in 1 .. (l + 1)
      PROVE  /\ stream'[p].buf[i] \in 1 .. stored'[p]
             /\ \A n \in 1 .. (stream'[p].buf[i] - 1) : Before(p, i, n)'
  <2>1. CASE i = l + 1
    BY <1>2, <1>3, <2>1 DEF b, l
  <2>2. CASE i # l + 1
    <3>1. i \in 1 .. l /\ stream'[p].buf[i] = b[i]
      BY <1>2, <2>2
    <3>2. b[i] \in 1 .. stored[p] /\ \A n \in 1 .. (b[i] - 1) : Before(p, i, n)
      BY <1>2, <1>5, <3>1 DEF InOrder, b
    <3> QED
      BY <1>3, <3>1, <3>2
  <2> QED
    BY <2>1, <2>2
<1>8. pc'[p] = "putting" => /\ held'[p] \in 1 .. stored'[p]
                            /\ \A n \in 1 .. (held'[p] - 1) : <<p, n>> \in seen'
  BY <1>5 DEF InOrder
<1> QED
  BY <1>2, <1>6, <1>7, <1>8 DEF InOrder

\* The broker sends the first message that is not acknowledged; those it skips
\* were acknowledged, hence delivered.
LEMMA DispatchPromised ==
    ASSUME IndInv, NEW p \in Parts, Dispatch(p)
    PROVE  MessageInv' /\ Promised
<1>1. /\ Reading(p)
      /\ UNCHANGED <<objectVars, pc, held, messageVars>>
  BY DEF Dispatch
<1>2. UNCHANGED <<shutdown, queue, seen, taken, nacked, stored, acked, due>>
  BY <1>1 DEF objectVars, messageVars
<1>3. PICK m \in 1 .. stored[p] :
         /\ m >= stream[p].next
         /\ \A n \in 1 .. (m - 1) : n >= stream[p].next => <<p, n>> \in acked
         /\ stream' = [stream EXCEPT ![p].next = m + 1, ![p].buf = Append(stream[p].buf, m)]
  BY DEF Dispatch
<1>4. stored[p] \in Nat /\ stream[p].next \in Nat /\ m \in Nat /\ m <= stored[p]
  BY StreamTyped DEF IndInv, MessageTypeOK
<1>5. /\ stream'[p].next = m + 1
      /\ stream'[p].buf = Append(stream[p].buf, m)
      /\ \A r \in Parts \ {p} : stream'[r] = stream[r]
  BY <1>3 DEF IndInv, ControlInv, TaskTypeOK, StreamType
<1>6. ASSUME NEW n \in 1 .. (m - 1) PROVE Before(p, Len(stream[p].buf) + 1, n)
  <2>1. CASE n >= stream[p].next
    BY <1>3, <2>1 DEF Before, IndInv, MessageStates
  <2>2. CASE ~ (n >= stream[p].next)
    <3>1. n \in 1 .. (stream[p].next - 1)
      BY <1>4, <2>2
    <3> QED
      BY <1>1, <3>1 DEF IndInv, StreamsInOrder, InOrder
  <2> QED
    BY <2>1, <2>2
<1>7. InOrder(p)'
  <2>1. \A n \in 1 .. ((m + 1) - 1) : n = m \/ n \in 1 .. (m - 1)
    BY <1>4
  <2>2. m + 1 <= stored[p] + 1 /\ m + 1 \in Nat
    BY <1>4
  <2> QED
    BY <1>1, <1>2, <1>5, <1>6, <2>1, <2>2, AppendedInOrder
<1>8. ASSUME NEW r \in Parts \ {p} PROVE InOrder(r)'
  BY <1>1, <1>2, <1>5, OtherInOrder
<1>9. MessageTypeOK' /\ MessageStates' /\ NoGap' /\ Promised
  BY <1>2 DEF IndInv, MessageTypeOK, MessageStates, NoGap, Promised, Promise!vars
<1> QED
  BY <1>7, <1>8, <1>9 DEF MessageInv, StreamsInOrder

\* The broker sends a nacked message again on the stream it was on.
LEMMA RedeliverPromised ==
    ASSUME IndInv, NEW m \in Msgs, Redeliver(m)
    PROVE  MessageInv' /\ Promised
<1> DEFINE p == m[1]
           k == m[2]
<1>1. /\ m \in due /\ Reading(p) /\ k < stream[p].next
      /\ stream' = [stream EXCEPT ![p].buf = Append(stream[p].buf, k)]
      /\ due' = due \ {m}
      /\ UNCHANGED <<shutdown, pc, held, queue, seen, taken, nacked, stored, acked>>
  BY DEF Redeliver, objectVars
<1>2. p \in Parts /\ k \in Nat /\ k >= 1
  BY ConsumerAssumption DEF Msgs
<1>3. stored[p] \in Nat /\ stream[p].next \in Nat /\ InOrder(p)
  BY <1>2, StreamTyped DEF IndInv, MessageTypeOK, StreamsInOrder
<1>4. /\ stream'[p].next = stream[p].next
      /\ stream'[p].buf = Append(stream[p].buf, k)
      /\ \A r \in Parts \ {p} : stream'[r] = stream[r]
  BY <1>1, <1>2 DEF IndInv, ControlInv, TaskTypeOK, StreamType
<1> HIDE DEF p, k
<1>5. /\ stream[p].next <= stored[p] + 1
      /\ \A n \in 1 .. (stream[p].next - 1) : Before(p, Len(stream[p].buf) + 1, n)
  BY <1>1, <1>3 DEF InOrder
<1>6. k \in 1 .. stored[p] /\ \A n \in 1 .. (k - 1) : n \in 1 .. (stream[p].next - 1)
  BY <1>1, <1>2, <1>3, <1>5
<1>7. InOrder(p)'
  BY <1>1, <1>2, <1>3, <1>4, <1>5, <1>6, AppendedInOrder
<1>8. ASSUME NEW r \in Parts \ {p} PROVE InOrder(r)'
  BY <1>1, <1>4, OtherInOrder
<1>9. MessageTypeOK' /\ MessageStates' /\ NoGap' /\ Promised
  BY <1>1 DEF IndInv, MessageTypeOK, MessageStates, NoGap, Promised, Promise!vars
<1> QED
  BY <1>7, <1>8, <1>9 DEF MessageInv, StreamsInOrder

\* put() delivers a message whose predecessors were delivered.
LEMMA PutPromised ==
    ASSUME IndInv, NEW p \in Parts, NEW k \in 1 .. stored[p], Put(<<p, k>>), ~ shutdown,
           \A n \in 1 .. (k - 1) : <<p, n>> \in seen,
           UNCHANGED <<shutdown, taken, stored, acked, due>>
    PROVE  MessageTypeOK' /\ MessageStates' /\ NoGap' /\ Promised
<1> DEFINE m == <<p, k>>
<1>1. /\ Len(queue) < Capacity
      /\ queue' = Append(queue, m)
      /\ seen' = seen \cup {m}
      /\ nacked' = nacked \ {m}
  BY DEF Put
<1>2. /\ stored[p] \in 0 .. MaxMsgs /\ queue \in Seq(Msgs) /\ seen \in SUBSET Msgs
      /\ nacked \in SUBSET Msgs
  BY DEF IndInv, MessageTypeOK
<1>3. m \in Msgs /\ m[1] = p /\ m[2] = k
  BY <1>2, ConsumerAssumption DEF Msgs
<1> HIDE DEF m
<1>4. MessageTypeOK'
  BY <1>1, <1>2, <1>3 DEF IndInv, MessageTypeOK
<1>5. MessageStates'
  <2>1. /\ DOMAIN queue = 1 .. Len(queue) /\ Len(queue) \in Nat
        /\ DOMAIN queue' = 1 .. (Len(queue) + 1)
        /\ queue'[Len(queue) + 1] = m
        /\ \A i \in 1 .. Len(queue) : queue'[i] = queue[i]
    BY <1>1, <1>2, <1>3
  <2>2. \A i \in 1 .. (Len(queue) + 1) : i = Len(queue) + 1 \/ i \in 1 .. Len(queue)
    BY <2>1
  <2>3. \A i \in DOMAIN queue' : queue'[i] \in seen'
    BY <1>1, <2>1, <2>2 DEF IndInv, MessageStates
  <2> QED
    BY <1>1, <2>3 DEF IndInv, MessageStates
<1>6. NoGap'
  BY <1>1, <1>3 DEF IndInv, NoGap
<1>7. Promise!Deliver(m)
  <2>1. m[2] <= stored[m[1]]
    BY <1>2, <1>3, ConsumerAssumption
  <2> QED
    BY <1>1, <1>3, <2>1 DEF Promise!Deliver
<1>8. Promised
  BY <1>3, <1>7 DEF Promised, Promise!Next, Promise!Msgs, Msgs
<1> QED
  BY <1>4, <1>5, <1>6, <1>8

\* The first message of a stream is stored, and all before it were delivered.
LEMMA HeadInOrder ==
    ASSUME IndInv, NEW p \in Parts, pc[p] = "streaming", stream[p].buf # <<>>
    PROVE  /\ Head(stream[p].buf) \in 1 .. stored[p]
           /\ \A n \in 1 .. (Head(stream[p].buf) - 1) : <<p, n>> \in seen
<1>1. stream[p].buf \in Seq(Nat)
  BY StreamTyped DEF IndInv
<1>2. 1 \in DOMAIN stream[p].buf /\ Head(stream[p].buf) = stream[p].buf[1]
  BY <1>1
<1>3. InOrder(p) /\ Reading(p)
  BY DEF IndInv, StreamsInOrder, Reading
<1>4. \A n \in 1 .. (stream[p].buf[1] - 1) : Before(p, 1, n)
  BY <1>2, <1>3 DEF InOrder
<1> QED
  BY <1>2, <1>3, <1>4 DEF InOrder, Before

\* When the loop takes the first message of its stream and delivers it, or waits
\* in put() with it, the order of what is left does not change.
LEMMA TailInOrder ==
    ASSUME IndInv, NEW p \in Parts, pc[p] = "streaming", stream[p].buf # <<>>,
           stream'[p].buf = Tail(stream[p].buf), stream'[p].next = stream[p].next,
           stored' = stored, seen \subseteq seen',
           \/ pc'[p] = "streaming" /\ <<p, Head(stream[p].buf)>> \in seen'
           \/ pc'[p] = "putting" /\ held'[p] = Head(stream[p].buf)
    PROVE  InOrder(p)'
<1> DEFINE b == stream[p].buf
           l == Len(b)
<1>1. b \in Seq(Nat) /\ stream[p].next \in Nat /\ stored[p] \in Nat
  BY StreamTyped DEF IndInv, MessageTypeOK
<1>2. /\ l \in Nat /\ l >= 1 /\ DOMAIN b = 1 .. l
      /\ Len(stream'[p].buf) = l - 1
      /\ DOMAIN stream'[p].buf = 1 .. (l - 1)
      /\ \A i \in 1 .. (l - 1) : stream'[p].buf[i] = b[i + 1]
      /\ Head(b) = b[1]
  BY <1>1
<1>3. InOrder(p) /\ Reading(p)
  BY DEF IndInv, StreamsInOrder, Reading
<1>4. Head(b) \in 1 .. stored[p] /\ \A n \in 1 .. (Head(b) - 1) : <<p, n>> \in seen
  BY HeadInOrder
<1> HIDE DEF b, l
<1>5. ASSUME NEW i \in 1 .. l, NEW n, Before(p, i + 1, n) PROVE Before(p, i, n)'
  <2>1. CASE <<p, n>> \in seen
    BY <2>1 DEF Before
  <2>2. ASSUME NEW j \in 1 .. ((i + 1) - 1), b[j] = n PROVE Before(p, i, n)'
    <3>1. CASE j = 1
      BY <1>2, <2>2, <3>1 DEF Before, b
    <3>2. CASE j # 1
      <4>1. j - 1 \in 1 .. (i - 1) /\ j - 1 \in 1 .. (l - 1)
        BY <1>2, <2>2, <3>2
      <4>2. stream'[p].buf[j - 1] = n
        BY <1>2, <2>2, <4>1
      <4> QED
        BY <4>1, <4>2 DEF Before
    <3> QED
      BY <3>1, <3>2
  <2> QED
    BY <1>5, <2>1, <2>2 DEF Before, b
<1>6. ASSUME NEW n \in 1 .. (stream'[p].next - 1), NEW k, k = Len(stream'[p].buf) + 1
      PROVE  Before(p, k, n)'
  <2>1. k = l /\ l \in 1 .. l
    BY <1>2, <1>6
  <2>2. Before(p, l + 1, n)
    BY <1>3, <1>6 DEF InOrder, b, l
  <2> QED
    BY <1>5, <2>1, <2>2
<1>7. ASSUME NEW i \in 1 .. (l - 1)
      PROVE  /\ stream'[p].buf[i] \in 1 .. stored'[p]
             /\ \A n \in 1 .. (stream'[p].buf[i] - 1) : Before(p, i, n)'
  <2>1. i \in 1 .. l /\ i + 1 \in 1 .. l /\ stream'[p].buf[i] = b[i + 1]
    BY <1>2
  <2>2. b[i + 1] \in 1 .. stored[p] /\ \A n \in 1 .. (b[i + 1] - 1) : Before(p, i + 1, n)
    BY <1>2, <1>3, <2>1 DEF InOrder, b
  <2> QED
    BY <1>5, <2>1, <2>2
<1>8. pc'[p] = "putting" => /\ held'[p] \in 1 .. stored'[p]
                            /\ \A n \in 1 .. (held'[p] - 1) : <<p, n>> \in seen'
  BY <1>4 DEF b
<1>9. stream'[p].next <= stored'[p] + 1
  BY <1>3 DEF InOrder
<1> QED
  BY <1>2, <1>6, <1>7, <1>8, <1>9 DEF InOrder

\* The loop reads a message that finds no event set.
LEMMA ReceivePromised ==
    ASSUME IndInv, NEW p \in Parts, ReceiveMessage(p)
    PROVE  MessageInv' /\ Promised
<1> DEFINE m == Head(stream[p].buf)
<1>1. /\ pc[p] = "streaming" /\ stream[p].buf # <<>> /\ ~ shutdown
      /\ stream' = [stream EXCEPT ![p].buf = Tail(@)]
      /\ UNCHANGED <<shutdown, taken, stored, acked, due>>
  BY DEF ReceiveMessage, objectVars
<1>2. /\ stream'[p].next = stream[p].next
      /\ stream'[p].buf = Tail(stream[p].buf)
      /\ \A r \in Parts \ {p} : stream'[r] = stream[r]
  BY <1>1 DEF IndInv, ControlInv, TaskTypeOK, StreamType
<1>3. pc \in [Parts -> PCs] /\ held \in [Parts -> Nat]
  BY DEF IndInv, ControlInv, TaskTypeOK
<1>4. CASE Put(<<p, m>>) /\ UNCHANGED <<pc, held>>
  <2>1. MessageTypeOK' /\ MessageStates' /\ NoGap' /\ Promised
    BY <1>1, <1>4, HeadInOrder, PutPromised
  <2>2. <<p, m>> \in seen' /\ seen \subseteq seen'
    BY <1>4 DEF Put
  <2>3. InOrder(p)'
    BY <1>1, <1>2, <1>4, <2>2, TailInOrder
  <2>4. ASSUME NEW r \in Parts \ {p} PROVE InOrder(r)'
    BY <1>1, <1>2, <1>4, <2>2, OtherInOrder
  <2> QED
    BY <2>1, <2>3, <2>4 DEF MessageInv, StreamsInOrder
<1>5. CASE /\ pc' = [pc EXCEPT ![p] = "putting"]
           /\ held' = [held EXCEPT ![p] = m]
           /\ UNCHANGED <<queue, seen, nacked>>
  <2>1. MessageTypeOK' /\ MessageStates' /\ NoGap' /\ Promised
    BY <1>1, <1>5 DEF IndInv, MessageTypeOK, MessageStates, NoGap, Promised, Promise!vars
  <2>2. /\ pc'[p] = "putting" /\ held'[p] = m
        /\ \A r \in Parts \ {p} : pc'[r] = pc[r] /\ held'[r] = held[r]
    BY <1>3, <1>5
  <2>3. InOrder(p)'
    BY <1>1, <1>2, <1>5, <2>2, TailInOrder
  <2>4. ASSUME NEW r \in Parts \ {p} PROVE InOrder(r)'
    BY <1>1, <1>2, <1>5, <2>2, OtherInOrder
  <2> QED
    BY <2>1, <2>3, <2>4 DEF MessageInv, StreamsInOrder
<1> QED
  BY <1>4, <1>5 DEF ReceiveMessage

\* put() returns. It was not cancelled, so close() was not called.
LEMMA PutReturnsPromised ==
    ASSUME IndInv, NEW p \in Parts, PutReturns(p)
    PROVE  MessageInv' /\ Promised
<1>1. /\ pc[p] = "putting" /\ Put(<<p, held[p]>>)
      /\ pc' = [pc EXCEPT ![p] = "streaming"]
      /\ UNCHANGED <<shutdown, stream, taken, stored, acked, due>>
      /\ held' = [held EXCEPT ![p] = 0]
  BY DEF PutReturns, objectVars
<1>2. ~ shutdown
  BY <1>1 DEF IndInv, ControlInv, ObjectTypeOK, TaskStates, ClosedForGood, SettingUp
<1>3. InOrder(p) /\ Reading(p)
  BY <1>1 DEF IndInv, StreamsInOrder, Reading
<1>4. held[p] \in 1 .. stored[p] /\ \A n \in 1 .. (held[p] - 1) : <<p, n>> \in seen
  BY <1>1, <1>3 DEF InOrder
<1>5. MessageTypeOK' /\ MessageStates' /\ NoGap' /\ Promised
  BY <1>1, <1>2, <1>4, PutPromised
<1>6. <<p, held[p]>> \in seen' /\ seen \subseteq seen'
  BY <1>1 DEF Put
<1>7. /\ pc'[p] = "streaming"
      /\ \A r \in Parts \ {p} : pc'[r] = pc[r] /\ held'[r] = held[r]
  BY <1>1 DEF IndInv, ControlInv, TaskTypeOK
<1>8. InOrder(p)'
  <2>1. ASSUME NEW i, NEW n, Before(p, i, n) PROVE Before(p, i, n)'
    BY <1>1, <1>6, <2>1 DEF Before
  <2> QED
    BY <1>1, <1>3, <1>7, <2>1 DEF InOrder
<1>9. ASSUME NEW r \in Parts \ {p} PROVE InOrder(r)'
  BY <1>1, <1>6, <1>7, OtherInOrder
<1> QED
  BY <1>5, <1>8, <1>9 DEF MessageInv, StreamsInOrder

-----------------------------------------------------------------------------
(***************************************************************************)
(* The theorems.                                                           *)
(***************************************************************************)

\* Initially there is no message.
LEMMA InitInv == Init => IndInv /\ Promise!Init
<1> SUFFICES ASSUME Init PROVE IndInv /\ Promise!Init
  OBVIOUS
<1>1. MessageTypeOK /\ MessageStates /\ NoGap
  BY ConsumerAssumption DEF Init, MessageTypeOK, MessageStates, NoGap
<1>2. StreamsInOrder
  BY DEF Init, StreamsInOrder, InOrder, Reading
<1>3. Promise!Init
  BY DEF Init, Promise!Init
<1> QED
  BY <1>1, <1>2, <1>3, InitControl DEF IndInv

\* Every step keeps the invariant and is a step of Subscription, or a stutter.
LEMMA StepInv == IndInv /\ [Next]_vars => IndInv' /\ Promised
<1> SUFFICES ASSUME IndInv, [Next]_vars PROVE IndInv' /\ Promised
  OBVIOUS
<1>1. ControlInv'
  BY ControlStep DEF IndInv
<1>2. MessageInv' /\ Promised
  <2>1. ASSUME NEW p \in Parts, TaskStep(p) PROVE MessageInv' /\ Promised
    BY <2>1, SettingUpCalm, OtherCalm, ReceivePromised, PutReturnsPromised DEF TaskStep
  <2> QED
    BY <2>1, SettingUpCalm, OtherCalm, TakePromised, AckPromised, PublishPromised,
       DispatchPromised, RedeliverPromised DEF Next
<1> QED
  BY <1>1, <1>2 DEF IndInv, MessageInv

\* What the theorems below rest on holds in every reachable state: the streams
\* are in order, and each message was delivered before it was taken.
THEOREM ConsumerIndInv == Spec => []IndInv
<1>1. IndInv /\ [Next]_vars => IndInv'
  BY StepInv
<1>2. Init => IndInv
  BY InitInv
<1> QED
  BY <1>1, <1>2, PTL DEF Spec

\* Every reachable state of the consumer has the types of TypeOK.
THEOREM ConsumerTypeOK == Spec => []TypeOK
<1>1. IndInv => TypeOK
  BY DEF IndInv, ControlInv, TypeOK
<1> QED
  BY ConsumerIndInv, <1>1, PTL

\* The application never sees a message of a partition before the earlier ones,
\* whatever streams, sessions and brokers came and went in between.
THEOREM ConsumerNoGap == Spec => []NoGap
<1>1. IndInv => NoGap
  BY DEF IndInv
<1> QED
  BY ConsumerIndInv, <1>1, PTL

\* A consumer implements Subscription: it delivers what is stored, in order and
\* without gaps, waits while the queue is full, acknowledges only what was taken
\* and delivers nothing after close().
THEOREM ConsumerKeepsPromise == Spec => KeepsPromise
<1>1. Init => Promise!Init
  BY InitInv
<1>2. IndInv /\ [Next]_vars => [Promise!Next]_(Promise!vars)
  BY StepInv DEF Promised
<1> QED
  BY ConsumerIndInv, <1>1, <1>2, PTL DEF Spec, KeepsPromise, Promise!Spec

\* The queue does not grow once close() was called, whoever waited in put(): no
\* step of Subscription delivers to a closed subscription.
THEOREM ConsumerNothingAfterClose == Spec => NothingAfterClose
<1> DEFINE A == shutdown => seen' = seen /\ Len(queue') <= Len(queue)
<1>1. IndInv /\ [Next]_vars => [A]_vars
  <2> SUFFICES ASSUME IndInv, [Next]_vars PROVE A
    OBVIOUS
  <2>1. Promised /\ queue \in Seq(Msgs)
    BY StepInv DEF IndInv, MessageTypeOK
  <2>2. CASE Promise!Take
    BY <2>1, <2>2 DEF Promise!Take
  <2>3. CASE UNCHANGED <<seen, queue>>
    BY <2>1, <2>3
  <2> QED
    BY <2>1, <2>2, <2>3 DEF Promised, Promise!Next, Promise!vars, Promise!Publish,
       Promise!Deliver, Promise!Ack, Promise!Close
<1> QED
  BY ConsumerIndInv, <1>1, PTL DEF Spec, NothingAfterClose

-----------------------------------------------------------------------------
(***************************************************************************)
(* Reconnection, where partitions only move. A loop whose session is gone  *)
(* hears of it because its health check asks the broker that the object    *)
(* names (Watched), which is the one that had the session; and Subscribe   *)
(* is turned down only where the lookup before it has become stale, since  *)
(* it goes to the broker that was looked up (Addressed) and nobody looks   *)
(* for a broker while a session is alive.                                  *)
(***************************************************************************)

\* What EndsByMoves says of one step.
EndsByMove ==
    \A p \in Parts :
        pc[p] \notin {"failed", "ended"} /\ pc'[p] \in {"failed", "ended"} =>
            shutdown' \/ tc[p].broker_addr # owner[p]

\* All that MovesInv says of partition r is as it was.
SameTask(r) ==
    /\ tc'[r] = tc[r] /\ health'[r] = health[r]
    /\ pc'[r] = pc[r] /\ rpc'[r] = rpc[r] /\ answer'[r] = answer[r]
    /\ stream'[r].id = stream[r].id /\ stream'[r].route = stream[r].route
    /\ sess'[r] = sess[r] /\ owner'[r] = owner[r]
    /\ shutdown => shutdown'

\* With all brokers up every request reaches one.
LEMMA BrokersReached ==
    ASSUME alive = Brokers, NEW u, NEW h \in Headers
    PROVE  ~ Unreachable(u, h)
BY ClusterAssumption DEF Unreachable, Reach, Headers

\* The RPCs of an object that is located reach the broker it names, and so does
\* the health check that is started for it.
LEMMA LocatedReach ==
    ASSUME NEW q, Located(q)
    PROVE  /\ Reach(HealthRoute(q).url, HealthRoute(q).header) = {q.broker_addr}
           /\ q.stub = q.connect_url => Route(q) = HealthRoute(q)
BY ClusterAssumption DEF Located, Reach, HealthRoute, Route, insert_proxy_header,
   get_connection

\* The answer of a lookup locates the object.
LEMMA SetAddressLocates ==
    ASSUME NEW q \in TopicConsumerType, NEW a \in BrokerAddress, a.proxy = Proxied,
           a.connect_url = IF Proxied THEN ServiceUrl ELSE a.broker_url
    PROVE  Located(SetAddress(q, a))
BY DEF Located, SetAddress, TopicConsumerType, BrokerAddress

\* _connect makes the stub for the address of the object, and no other change.
LEMMA ConnectLocates ==
    ASSUME NEW q \in TopicConsumerType
    PROVE  /\ Located(q) => Located(Connect(q))
           /\ Connect(q).stub = Connect(q).connect_url
           /\ Connect(q).stop_event = q.stop_event
BY DEF Located, Connect, get_connection, TopicConsumerType

\* Objects q and r send their RPCs to the same addresses.
SameAddress(q, r) ==
    /\ Located(r) <=> Located(q)
    /\ r.broker_addr = q.broker_addr
    /\ r.connect_url = q.connect_url
    /\ r.stub = q.stub
    /\ Route(r) = Route(q)
    /\ HealthRoute(r) = HealthRoute(q)

\* Storing the id of a session or an event changes no address.
LEMMA AddressKept ==
    ASSUME NEW q \in TopicConsumerType, NEW id \in Nat, NEW e \in BOOLEAN
    PROVE  /\ SameAddress(q, Subscribed(q, id)) /\ Subscribed(q, id).stop_event = q.stop_event
           /\ SameAddress(q, Stop(q)) /\ Stop(q).consumer_id = q.consumer_id
           /\ SameAddress(q, [q EXCEPT !.stop_event = e])
BY DEF SameAddress, Located, Subscribed, Stop, Route, HealthRoute, TopicConsumerType

\* A step that leaves a partition alone, except for messages.
LEMMA SameKept ==
    ASSUME NEW r \in Parts, SameTask(r), Addressed(r), Watched(r)
    PROVE  Addressed(r)' /\ Watched(r)'
BY DEF SameTask, Addressed, Watched, Reading

\* A step of one partition.
LEMMA OneMoves ==
    ASSUME MovesInv, NEW p \in Parts, UNCHANGED alive,
           \A r \in Parts \ {p} : SameTask(r),
           Addressed(p)', Watched(p)',
           pc[p] \notin {"failed", "ended"} /\ pc'[p] \in {"failed", "ended"} =>
               shutdown' \/ tc[p].broker_addr # owner[p]
    PROVE  MovesInv' /\ EndsByMove
<1>1. \A r \in Parts \ {p} : Addressed(r)' /\ Watched(r)'
  BY SameKept DEF MovesInv
<1>2. \A r \in Parts \ {p} : pc'[r] = pc[r]
  BY DEF SameTask
<1> QED
  BY <1>1, <1>2 DEF MovesInv, EndsByMove

\* A step that leaves every partition alone.
LEMMA NoneMoves ==
    ASSUME MovesInv, UNCHANGED alive, \A r \in Parts : SameTask(r)
    PROVE  MovesInv' /\ EndsByMove
<1>1. \A r \in Parts : Addressed(r)' /\ Watched(r)' /\ pc'[r] = pc[r]
  BY SameKept DEF MovesInv, SameTask
<1> QED
  BY <1>1 DEF MovesInv, EndsByMove

\* The functions that steps of a task change.
LEMMA Typed ==
    ASSUME ControlInv
    PROVE  /\ tc \in [Parts -> TopicConsumerType]
           /\ health \in [Parts -> SUBSET HealthTaskType]
           /\ pc \in [Parts -> PCs]
           /\ rpc \in [Parts -> RouteType]
           /\ answer \in [Parts -> BrokerAddress \cup {NoAddr}]
           /\ stream \in [Parts -> StreamType]
           /\ owner \in [Parts -> Brokers]
           /\ sess \in [Parts -> Nat]
           /\ nextId \in Nat \ {0}
BY DEF ControlInv, ClusterTypeOK, ObjectTypeOK, TaskTypeOK

\* Steps that only concern messages, the queue, or calls before gather.
LEMMA MessageMoves ==
    ASSUME ControlInv, MovesInv,
           \/ Subscribe \/ PartitionsFail \/ Take
           \/ \E m \in Msgs : Ack(m) \/ Nack(m)
           \/ \E p \in Parts : Publish(p)
           \/ UNCHANGED vars
    PROVE  MovesInv' /\ EndsByMove
<1>1. UNCHANGED <<alive, owner, sess, tc, health, shutdown, pc, rpc, answer, stream>>
  BY DEF Subscribe, PartitionsFail, Take, Ack, Nack, Publish, vars, clusterVars, objectVars,
         taskVars
<1> QED
  BY <1>1, NoneMoves DEF SameTask

\* What a broker puts on a stream changes neither its session nor its address.
LEMMA StreamAddressKept ==
    ASSUME NEW f \in [Parts -> StreamType], NEW p \in Parts, NEW n, NEW b,
           NEW g \in {[f EXCEPT ![p].next = n, ![p].buf = b], [f EXCEPT ![p].buf = b]}
    PROVE  \A r \in Parts : g[r].id = f[r].id /\ g[r].route = f[r].route
<1>1. f[p] \in StreamType
  OBVIOUS
<1>2. /\ \A r \in Parts \ {p} : g[r] = f[r]
      /\ g[p] \in {[f[p] EXCEPT !.next = n, !.buf = b], [f[p] EXCEPT !.buf = b]}
  OBVIOUS
<1>3. g[p].id = f[p].id /\ g[p].route = f[p].route
  BY <1>1, <1>2 DEF StreamType
<1> QED
  BY <1>2, <1>3

\* A broker sends a message, or sends it again: on the same stream.
LEMMA SendMoves ==
    ASSUME ControlInv, MovesInv,
           \/ \E p \in Parts : Dispatch(p)
           \/ \E m \in Msgs : Redeliver(m)
    PROVE  MovesInv' /\ EndsByMove
<1>1. UNCHANGED <<alive, owner, sess, tc, health, shutdown, pc, rpc, answer>>
  BY DEF Dispatch, Redeliver, clusterVars, objectVars
<1>2. \A r \in Parts : stream'[r].id = stream[r].id /\ stream'[r].route = stream[r].route
  <2>1. ASSUME NEW p \in Parts, Dispatch(p)
        PROVE  \A r \in Parts : stream'[r].id = stream[r].id /\ stream'[r].route = stream[r].route
    <3>1. PICK n, b : stream' = [stream EXCEPT ![p].next = n, ![p].buf = b]
      BY <2>1 DEF Dispatch
    <3> QED
      BY <3>1, Typed, StreamAddressKept
  <2>2. ASSUME NEW m \in Msgs, Redeliver(m)
        PROVE  \A r \in Parts : stream'[r].id = stream[r].id /\ stream'[r].route = stream[r].route
    <3>1. m[1] \in Parts
      BY DEF Msgs
    <3>2. PICK b : stream' = [stream EXCEPT ![m[1]].buf = b]
      BY <2>2 DEF Redeliver
    <3> QED
      BY <3>1, <3>2, Typed, StreamAddressKept
  <2> QED
    BY <2>1, <2>2
<1> QED
  BY <1>1, <1>2, NoneMoves DEF SameTask

\* The loop reads a message, and waits in put() or not.
LEMMA ReadMoves ==
    ASSUME ControlInv, MovesInv, NEW p \in Parts, ReceiveMessage(p) \/ PutReturns(p)
    PROVE  MovesInv' /\ EndsByMove
<1>1. UNCHANGED <<alive, owner, sess, tc, health, shutdown, rpc, answer>>
  BY DEF ReceiveMessage, PutReturns, clusterVars, objectVars
<1>2. stream[p] \in StreamType
  BY Typed
<1>3. /\ stream'[p].id = stream[p].id /\ stream'[p].route = stream[p].route
      /\ \A r \in Parts \ {p} : stream'[r] = stream[r]
  BY <1>2, Typed DEF ReceiveMessage, PutReturns, StreamType
<1>4. /\ pc[p] \in {"streaming", "putting"} /\ pc'[p] \in {"streaming", "putting"}
      /\ \A r \in Parts \ {p} : pc'[r] = pc[r]
  BY Typed DEF ReceiveMessage, PutReturns
<1>5. Addressed(p) /\ Watched(p)
  BY DEF MovesInv
<1>6. Addressed(p)' /\ Watched(p)'
  BY <1>1, <1>3, <1>4, <1>5 DEF Addressed, Watched, Reading, SettingUp
<1>7. \A r \in Parts \ {p} : SameTask(r)
  BY <1>1, <1>3, <1>4 DEF SameTask
<1> QED
  BY <1>1, <1>4, <1>6, <1>7, OneMoves

\* gather starts the subscribers, none of which has a session.
LEMMA PartitionsMoves ==
    ASSUME ControlInv, MovesInv, PartitionsReturn
    PROVE  MovesInv' /\ EndsByMove
<1>1. /\ UNCHANGED <<alive, owner, sess, tc, health, shutdown, answer, stream>>
      /\ \A r \in Parts : pc[r] = "new" /\ pc'[r] = "lookup"
  BY DEF PartitionsReturn, clusterVars, ControlInv, TaskStates
<1>2. ASSUME NEW r \in Parts PROVE Addressed(r)' /\ Watched(r)'
  <2>1. Addressed(r) /\ Watched(r)
    BY DEF MovesInv
  <2> QED
    BY <1>1, <2>1 DEF Addressed, Watched, Reading, SettingUp
<1> QED
  BY <1>1, <1>2 DEF MovesInv, EndsByMove

\* receive() opens a stream for each partition, for its session.
LEMMA ReceiveMoves ==
    ASSUME OnlyMoves, ControlInv, MovesInv, Receive
    PROVE  MovesInv' /\ EndsByMove
<1>1. /\ UNCHANGED <<alive, owner, sess, tc, health, shutdown, rpc, answer>>
      /\ \A r \in Parts : pc[r] = "ready"
  BY DEF Receive, clusterVars, ControlInv, TaskStates
<1>2. \/ shutdown /\ \A r \in Parts : pc'[r] = "ended"
      \/ \A r \in Parts : pc'[r] = "streaming" /\ stream'[r] = OpenStream(tc[r])
  BY DEF Receive, OnlyMoves
<1>3. ASSUME NEW r \in Parts PROVE Addressed(r)' /\ Watched(r)'
  <2>1. Addressed(r) /\ Watched(r)
    BY DEF MovesInv
  <2>2. CASE shutdown /\ pc'[r] = "ended"
    BY <1>1, <2>1, <2>2 DEF Addressed, Watched, Reading, SettingUp
  <2>3. CASE pc'[r] = "streaming" /\ stream'[r] = OpenStream(tc[r])
    BY <1>1, <2>1, <2>3 DEF Addressed, Watched, Reading, SettingUp, OpenStream
  <2> QED
    BY <1>2, <2>2, <2>3
<1> QED
  BY <1>1, <1>2, <1>3 DEF MovesInv, EndsByMove

\* close() ends the loops, or leaves those of a failed subscribe() as they are.
LEMMA CloseMoves ==
    ASSUME ControlInv, MovesInv, Close
    PROVE  MovesInv' /\ EndsByMove
<1>1. /\ UNCHANGED <<alive, owner, sess, rpc, answer, stream>>
      /\ shutdown'
  BY DEF Close, clusterVars
<1>2. CASE UNCHANGED <<tc, health, pc>>
  BY <1>1, <1>2, NoneMoves DEF SameTask
<1>3. CASE /\ phase # "failed"
           /\ tc' = [p \in Parts |-> Stop(tc[p])]
           /\ health' = HealthAfterStop
           /\ pc' = LoopsAfterCancel
  <2>1. ASSUME NEW r \in Parts PROVE Addressed(r)' /\ Watched(r)'
    <3>1. Addressed(r) /\ Watched(r)
      BY DEF MovesInv
    <3>2. /\ SameAddress(tc[r], tc'[r]) /\ tc'[r].stop_event
          /\ tc'[r].consumer_id = tc[r].consumer_id
      <4>1. tc'[r] = Stop(tc[r]) /\ tc[r] \in TopicConsumerType
        BY <1>3, Typed
      <4>2. Stop(tc[r]).stop_event
        BY <4>1 DEF Stop, TopicConsumerType
      <4> QED
        BY <4>1, <4>2, AddressKept
    <3>3. health'[r] \subseteq health[r]
      BY <1>3 DEF HealthAfterStop
    <3>4. pc'[r] = "ended" \/ pc'[r] = pc[r]
      BY <1>3 DEF LoopsAfterCancel
    <3> QED
      BY <1>1, <3>1, <3>2, <3>3, <3>4 DEF SameAddress, Addressed, Watched, Reading, SettingUp
  <2> QED
    BY <1>1, <2>1 DEF MovesInv, EndsByMove
<1> QED
  BY <1>2, <1>3 DEF Close

\* The broker's answer to a lookup names the owner, and how to reach it.
LEMMA ServeLookupMoves ==
    ASSUME ControlInv, MovesInv, NEW p \in Parts, ServeLookup(p)
    PROVE  MovesInv' /\ EndsByMove
<1>1. UNCHANGED <<alive, owner, sess, tc, health, shutdown, pc, rpc, stream>>
  BY DEF ServeLookup, clusterVars, objectVars
<1>2. /\ answer'[p] = LookupAnswer(p)
      /\ \A r \in Parts \ {p} : answer'[r] = answer[r]
      /\ pc[p] \in {"lookup", "lookupAgain"}
  BY Typed DEF ServeLookup, InLookup
<1>3. Addressed(p) /\ Watched(p)
  BY DEF MovesInv
<1>4. Addressed(p)' /\ Watched(p)'
  BY <1>1, <1>2, <1>3 DEF Addressed, Watched, Reading, LookupAnswer
<1> QED
  BY <1>1, <1>2, <1>4, OneMoves DEF SameTask

\* While it sets up its session a task changes what it likes about the addresses:
\* there is neither a session nor a health check. Only what it sends must be right.
LEMMA SetupMoves ==
    ASSUME ControlInv, MovesInv, NEW p \in Parts, pc[p] \in SettingUp,
           pc'[p] \in SettingUp \cup {"failed", "ended"},
           UNCHANGED <<alive, owner, sess, health, shutdown, stream>>,
           ~ tc'[p].stop_event,
           \A r \in Parts \ {p} :
              /\ tc'[r] = tc[r] /\ pc'[r] = pc[r] /\ rpc'[r] = rpc[r]
              /\ answer'[r] = answer[r],
           answer'[p] # NoAddr => answer'[p] = answer[p],
           pc'[p] \in {"subscribing", "backoff"} => Located(tc'[p]),
           pc'[p] = "subscribing" =>
              tc'[p].stub = tc'[p].connect_url /\ rpc'[p] = Route(tc'[p]),
           pc'[p] \in {"failed", "ended"} => tc[p].broker_addr # owner[p]
    PROVE  MovesInv' /\ EndsByMove
<1>1. Addressed(p) /\ Watched(p) /\ health[p] = {}
  BY DEF MovesInv, ControlInv, HealthChecks
<1>2. Addressed(p)' /\ Watched(p)'
  BY <1>1 DEF Addressed, Watched, Reading, SettingUp
<1>3. \A r \in Parts \ {p} : SameTask(r)
  BY DEF SameTask
<1> QED
  BY <1>2, <1>3, OneMoves

\* _try_subscribe sends Subscribe where the object leads.
LEMMA StartSubscribeMoves ==
    ASSUME ControlInv, MovesInv, NEW p \in Parts, pc[p] \in SettingUp,
           NEW q \in TopicConsumerType, Located(q), ~ q.stop_event,
           StartSubscribe(p, q),
           UNCHANGED <<alive, owner, sess, health, shutdown, stream>>
    PROVE  MovesInv' /\ EndsByMove
<1>1. /\ Located(Connect(q)) /\ ~ Connect(q).stop_event
      /\ Connect(q).stub = Connect(q).connect_url
  BY ConnectLocates
<1>2. /\ tc'[p] = Connect(q) /\ rpc'[p] = Route(Connect(q))
      /\ pc'[p] = "subscribing" /\ answer'[p] = NoAddr
      /\ \A r \in Parts \ {p} :
            /\ tc'[r] = tc[r] /\ pc'[r] = pc[r] /\ rpc'[r] = rpc[r]
            /\ answer'[r] = answer[r]
  BY Typed DEF StartSubscribe
<1>3. pc'[p] \in SettingUp \cup {"failed", "ended"}
  BY <1>2 DEF SettingUp
<1> QED
  BY <1>1, <1>2, <1>3, SetupMoves

\* A lookup returns: with all brokers up it does not fail, and its answer locates
\* the object.
LEMMA LookupMoves ==
    ASSUME OnlyMoves, ControlInv, MovesInv, NEW p \in Parts,
           LookupReturns(p) \/ LookupFails(p)
    PROVE  MovesInv' /\ EndsByMove
<1>1. LookupReturns(p)
  <2>1. rpc[p] \in RouteType /\ rpc[p].header \in Headers
    BY Typed DEF RouteType
  <2>2. ~ Unreachable(rpc[p].url, rpc[p].header)
    BY <2>1, BrokersReached DEF MovesInv
  <2> QED
    BY <2>2 DEF LookupFails, OnlyMoves, RpcFault
<1> DEFINE q == SetAddress(tc[p], answer[p])
<1>2. answer[p] # NoAddr /\ answer[p] \in BrokerAddress /\ tc[p] \in TopicConsumerType
  BY <1>1, Typed DEF LookupReturns
<1>3. Addressed(p) /\ Watched(p)
  BY DEF MovesInv
<1>4. Located(q)
  BY <1>2, <1>3, SetAddressLocates DEF Addressed
<1>5. pc[p] \in SettingUp /\ ~ tc[p].stop_event
  BY <1>1 DEF LookupReturns, InLookup, SettingUp, ControlInv, HealthChecks
<1>6. q \in TopicConsumerType /\ ~ q.stop_event
  BY <1>2, <1>5, SetAddressSound, SoundObject, ControlParts DEF Sound
<1>7. /\ AfterLookup(p, q)
      /\ UNCHANGED <<alive, owner, sess, health, shutdown, stream>>
  BY <1>1 DEF LookupReturns, clusterVars
<1> HIDE DEF q
<1>8. CASE StartSubscribe(p, q)
  BY <1>4, <1>5, <1>6, <1>7, <1>8, StartSubscribeMoves
<1>9. CASE /\ tc' = [tc EXCEPT ![p] = q]
           /\ pc' = [pc EXCEPT ![p] = "backoff"]
           /\ answer' = [answer EXCEPT ![p] = NoAddr]
           /\ UNCHANGED <<rpc, attempts>>
  <2>1. /\ tc'[p] = q /\ pc'[p] = "backoff" /\ answer'[p] = NoAddr
        /\ \A r \in Parts \ {p} :
              /\ tc'[r] = tc[r] /\ pc'[r] = pc[r] /\ rpc'[r] = rpc[r]
              /\ answer'[r] = answer[r]
    BY <1>9, Typed
  <2>2. pc'[p] \in SettingUp \cup {"failed", "ended"}
    BY <2>1 DEF SettingUp
  <2> QED
    BY <1>4, <1>5, <1>6, <1>7, <2>1, <2>2, SetupMoves
<1> QED
  BY <1>7, <1>8, <1>9 DEF AfterLookup

\* The sleep before another Subscribe ends.
LEMMA WakeMoves ==
    ASSUME ControlInv, MovesInv, NEW p \in Parts, Wake(p)
    PROVE  MovesInv' /\ EndsByMove
<1>1. pc[p] = "backoff" /\ pc[p] \in SettingUp
  BY DEF Wake, SettingUp
<1>2. tc[p] \in TopicConsumerType /\ Located(tc[p]) /\ ~ tc[p].stop_event
  BY <1>1, Typed DEF MovesInv, Addressed, ControlInv, HealthChecks
<1> QED
  BY <1>1, <1>2, StartSubscribeMoves DEF Wake, clusterVars

\* Subscribe is turned down only by a broker that does not own the partition.
LEMMA RefusedMoves ==
    ASSUME OnlyMoves, ControlInv, MovesInv, NEW p \in Parts,
           SubscribeRefused(p) \/ SubscribeLost(p)
    PROVE  MovesInv' /\ EndsByMove
<1>1. SubscribeRefused(p)
  BY DEF SubscribeLost, OnlyMoves
<1>2. Addressed(p) /\ Watched(p)
  BY DEF MovesInv
<1>3. pc[p] = "subscribing" /\ pc[p] \in SettingUp
  BY <1>1 DEF SubscribeRefused, SettingUp
<1>4. /\ Located(tc[p]) /\ tc[p].stub = tc[p].connect_url /\ rpc[p] = Route(tc[p])
      /\ sess[p] = 0
  BY <1>2, <1>3 DEF Addressed, Watched
<1>5. Reach(rpc[p].url, rpc[p].header) = {tc[p].broker_addr}
  BY <1>4, LocatedReach
<1>6. tc[p].broker_addr \in alive
  BY <1>4 DEF MovesInv, Located
<1>7. /\ tc[p].broker_addr # owner[p]
      /\ \E code : SubscribeError(p, code)
      /\ UNCHANGED <<alive, owner, sess, tc, health, shutdown, stream>>
  BY <1>1, <1>4, <1>5, <1>6 DEF SubscribeRefused, Unreachable, OnlyMoves
<1>8. \A r \in Parts \ {p} : /\ tc'[r] = tc[r] /\ pc'[r] = pc[r] /\ rpc'[r] = rpc[r]
                             /\ answer'[r] = answer[r]
  BY <1>7, Typed DEF SubscribeError, StartLookup, SubscribeRaises
<1>9. /\ pc'[p] \in {"lookupAgain", "failed", "ended"}
      /\ answer'[p] # NoAddr => answer'[p] = answer[p]
  BY <1>7, Typed DEF SubscribeError, StartLookup, SubscribeRaises
<1>10. ~ tc[p].stop_event
  BY <1>3 DEF ControlInv, HealthChecks
<1>11. pc'[p] \in SettingUp \cup {"failed", "ended"}
  BY <1>9 DEF SettingUp
<1> QED
  BY <1>3, <1>7, <1>8, <1>9, <1>10, <1>11, SetupMoves

\* Subscribe is accepted by the broker that the object names: it is the owner, and
\* the new session, its health check and its stream are those of the object.
LEMMA AcceptedMoves ==
    ASSUME OnlyMoves, ControlInv, MovesInv, NEW p \in Parts, SubscribeAccepted(p)
    PROVE  MovesInv' /\ EndsByMove
<1> DEFINE q == Subscribed(tc[p], nextId)
<1>1. Addressed(p) /\ Watched(p)
  BY DEF MovesInv
<1>2. /\ pc[p] = "subscribing"
      /\ Located(tc[p]) /\ tc[p].stub = tc[p].connect_url /\ rpc[p] = Route(tc[p])
      /\ tc[p] \in TopicConsumerType /\ ~ tc[p].stop_event /\ health[p] = {}
  BY <1>1, Typed DEF SubscribeAccepted, Addressed, ControlInv, HealthChecks, SettingUp
<1>3. owner[p] = tc[p].broker_addr
  BY <1>2, LocatedReach DEF SubscribeAccepted, Accepts
<1>4. /\ SameAddress(tc[p], q) /\ ~ q.stop_event /\ q.consumer_id = nextId
  <2>1. nextId \in Nat
    BY Typed
  <2>2. SameAddress(tc[p], q) /\ q.stop_event = tc[p].stop_event
    BY <1>2, <2>1, AddressKept, TRUE \in BOOLEAN
  <2>3. q.consumer_id = nextId
    BY <1>2 DEF Subscribed, TopicConsumerType
  <2> QED
    BY <1>2, <2>2, <2>3
<1>5. /\ UNCHANGED <<alive, owner, shutdown, rpc, answer>>
      /\ tc'[p] = q /\ health'[p] = {HealthTask(q)} /\ sess'[p] = nextId
      /\ \A r \in Parts \ {p} : /\ tc'[r] = tc[r] /\ health'[r] = health[r]
                                /\ sess'[r] = sess[r]
  BY <1>2, Typed DEF SubscribeAccepted, Register
<1>6. /\ SubscribeReturns(p, q)
      /\ pc \in [Parts -> PCs] /\ stream \in [Parts -> StreamType]
  BY Typed DEF SubscribeAccepted
<1> HIDE DEF q
<1>7. /\ \/ pc'[p] = "streaming" /\ stream'[p] = OpenStream(q)
         \/ pc'[p] = "ready"
      /\ \A r \in Parts \ {p} : pc'[r] = pc[r] /\ stream'[r] = stream[r]
  BY <1>6 DEF SubscribeReturns, OpenOrEnd, OnlyMoves
<1>8. Addressed(p)'
  BY <1>1, <1>2, <1>4, <1>5, <1>7 DEF Addressed, Reading, SameAddress, OpenStream
<1>9. Watched(p)'
  BY <1>2, <1>3, <1>4, <1>5, <1>7 DEF Watched, SettingUp, SameAddress, HealthTask
<1>10. \A r \in Parts \ {p} : SameTask(r)
  BY <1>5, <1>7 DEF SameTask
<1> QED
  BY <1>5, <1>7, <1>8, <1>9, <1>10, OneMoves

\* A loop leaves its stream: it sets up a session only if the old one is lost.
LEMMA LeaveMoves ==
    ASSUME OnlyMoves, ControlInv, MovesInv, NEW p \in Parts,
           DropMessage(p) \/ StreamEnds(p)
    PROVE  MovesInv' /\ EndsByMove
<1>1. /\ pc[p] = "streaming" /\ LeaveStream(p)
      /\ UNCHANGED <<alive, owner, sess, health, shutdown>>
  BY DEF DropMessage, StreamEnds, clusterVars
<1>2. Addressed(p) /\ Watched(p)
  BY DEF MovesInv
<1>3. /\ pc \in [Parts -> PCs] /\ stream \in [Parts -> StreamType]
      /\ tc \in [Parts -> TopicConsumerType]
      /\ answer \in [Parts -> BrokerAddress \cup {NoAddr}]
      /\ rpc \in [Parts -> RouteType]
  BY Typed
<1>4. CASE shutdown /\ pc' = [pc EXCEPT ![p] = "ended"] /\ UNCHANGED <<tc, rpc, answer, stream>>
  <2>1. pc'[p] = "ended" /\ \A r \in Parts \ {p} : pc'[r] = pc[r]
    BY <1>3, <1>4
  <2>2. Addressed(p)' /\ Watched(p)'
    BY <1>1, <1>2, <1>4, <2>1 DEF Addressed, Watched, Reading, SettingUp
  <2> QED
    BY <1>1, <1>4, <2>1, <2>2, OneMoves DEF SameTask
<1>5. CASE /\ ~ shutdown /\ tc[p].stop_event
           /\ tc' = [tc EXCEPT ![p].stop_event = FALSE]
           /\ StartLookup(p, tc[p], "lookup")
           /\ stream' = [stream EXCEPT ![p] = NoStream]
  <2>1. sess[p] = 0 /\ health[p] = {}
    BY <1>2, <1>5 DEF Watched, ControlInv, HealthChecks
  <2>2. tc'[p] = [tc[p] EXCEPT !.stop_event = FALSE] /\ ~ tc'[p].stop_event
    BY <1>3, <1>5 DEF TopicConsumerType
  <2>3. /\ pc'[p] = "lookup" /\ answer'[p] = NoAddr
        /\ \A r \in Parts \ {p} : /\ tc'[r] = tc[r] /\ pc'[r] = pc[r] /\ rpc'[r] = rpc[r]
                                  /\ answer'[r] = answer[r] /\ stream'[r] = stream[r]
    BY <1>3, <1>5 DEF StartLookup
  <2>4. Addressed(p)' /\ Watched(p)'
    BY <1>1, <2>1, <2>2, <2>3 DEF Addressed, Watched, Reading, SettingUp
  <2> QED
    BY <1>1, <2>3, <2>4, OneMoves DEF SameTask
<1>6. CASE OpenOrEnd(p, tc[p]) /\ UNCHANGED <<tc, rpc, answer>>
  <2>1. /\ pc'[p] = "streaming" /\ stream'[p] = OpenStream(tc[p])
        /\ \A r \in Parts \ {p} : pc'[r] = pc[r] /\ stream'[r] = stream[r]
    BY <1>3, <1>6 DEF OpenOrEnd, OnlyMoves
  <2>2. Addressed(p)' /\ Watched(p)'
    BY <1>1, <1>2, <1>6, <2>1 DEF Addressed, Watched, Reading, SettingUp, OpenStream
  <2> QED
    BY <1>1, <1>6, <2>1, <2>2, OneMoves DEF SameTask
<1> QED
  BY <1>1, <1>4, <1>5, <1>6 DEF LeaveStream

\* A health check ends only when it has set stop_event, or found it set; and it
\* sets it only if the session is lost.
LEMMA HealthMoves ==
    ASSUME OnlyMoves, ControlInv, MovesInv, NEW p \in Parts, NEW h \in health[p],
           HealthClose(p, h) \/ HealthFails(p, h) \/ HealthStops(p, h)
    PROVE  MovesInv' /\ EndsByMove
<1>1. Addressed(p) /\ Watched(p)
  BY DEF MovesInv
<1>2. h.route \in RouteType /\ h.route.header \in Headers
  BY Typed DEF HealthTaskType, RouteType
<1>3. HealthClose(p, h) \/ HealthStops(p, h)
  <2>1. ~ Unreachable(h.route.url, h.route.header)
    BY <1>2, BrokersReached DEF MovesInv
  <2> QED
    BY <2>1 DEF HealthFails, OnlyMoves, RpcFault
<1>4. /\ health'[p] \subseteq health[p]
      /\ \A r \in Parts \ {p} : health'[r] = health[r]
      /\ UNCHANGED <<alive, owner, sess, shutdown, pc, rpc, answer, stream>>
  BY <1>3, Typed DEF HealthClose, HealthStops, EndHealthTask, clusterVars, taskVars
<1>5. CASE HealthStops(p, h)
  <2>1. tc[p].stop_event /\ UNCHANGED tc
    BY <1>5 DEF HealthStops
  <2>2. Addressed(p)' /\ Watched(p)'
    BY <1>1, <1>4, <2>1 DEF Addressed, Watched, Reading, SettingUp
  <2>3. \A r \in Parts \ {p} : SameTask(r)
    BY <1>4, <2>1 DEF SameTask
  <2> QED
    BY <1>4, <2>2, <2>3, OneMoves
<1>6. CASE HealthClose(p, h)
  <2>1. sess[p] = 0
    <3>1. SUFFICES ASSUME sess[p] # 0 PROVE FALSE
      OBVIOUS
    <3>2. /\ Located(tc[p]) /\ tc[p].broker_addr = owner[p]
          /\ tc[p].consumer_id = sess[p] /\ h.route = HealthRoute(tc[p])
      BY <1>1, <3>1 DEF Watched
    <3>3. h.id = tc[p].consumer_id
      BY DEF ControlInv, OneHealthCheck
    <3> QED
      BY <1>6, <3>2, <3>3, LocatedReach DEF HealthClose, Outdated
  <2>2. /\ tc'[p] = [tc[p] EXCEPT !.stop_event = TRUE] /\ tc'[p].stop_event
        /\ tc[p] \in TopicConsumerType /\ tc'[p].consumer_id = tc[p].consumer_id
        /\ \A r \in Parts \ {p} : tc'[r] = tc[r]
    BY <1>6, Typed DEF HealthClose, TopicConsumerType
  <2>3. SameAddress(tc[p], tc'[p])
    BY <2>2, AddressKept, 0 \in Nat, TRUE \in BOOLEAN
  <2>4. Addressed(p)' /\ Watched(p)'
    BY <1>1, <1>4, <2>1, <2>2, <2>3 DEF SameAddress, Addressed, Watched, Reading, SettingUp
  <2>5. \A r \in Parts \ {p} : SameTask(r)
    BY <1>4, <2>2 DEF SameTask
  <2> QED
    BY <1>4, <2>4, <2>5, OneMoves
<1> QED
  BY <1>3, <1>5, <1>6

\* The only thing that happens to the cluster is that a partition moves, which
\* costs its session.
LEMMA EnvironmentMoves ==
    ASSUME OnlyMoves, ControlInv, MovesInv, Environment
    PROVE  MovesInv' /\ EndsByMove
<1>1. UNCHANGED <<tc, health, shutdown, pc, rpc, answer, stream>>
  BY DEF Environment, objectVars, taskVars
<1>2. PICK p \in Parts, b \in Brokers : Move(p, b)
  BY DEF Environment, ClusterStep, Crash, Restart, OnlyMoves, MovesInv
<1>3. /\ UNCHANGED alive /\ sess'[p] = 0
      /\ \A r \in Parts \ {p} : sess'[r] = sess[r] /\ owner'[r] = owner[r]
  BY <1>2, Typed DEF Move
<1>4. ASSUME NEW r \in Parts PROVE Addressed(r)' /\ Watched(r)'
  <2>1. Addressed(r) /\ Watched(r)
    BY DEF MovesInv
  <2>2. CASE r = p
    BY <1>1, <1>3, <2>1, <2>2 DEF Addressed, Watched, Reading
  <2>3. CASE r # p
    BY <1>1, <1>3, <2>1, <2>3, SameKept DEF SameTask
  <2> QED
    BY <2>2, <2>3
<1> QED
  BY <1>1, <1>3, <1>4 DEF MovesInv, EndsByMove

\* Nothing has been looked up at first.
LEMMA InitMoves == Init => MovesInv
<1> SUFFICES ASSUME Init PROVE MovesInv
  OBVIOUS
<1>1. ASSUME NEW p \in Parts PROVE Addressed(p) /\ Watched(p)
  BY DEF Init, ClusterInit, Addressed, Watched, Reading, NewTopicConsumer
<1> QED
  BY <1>1 DEF MovesInv, Init, ClusterInit

\* Every step preserves MovesInv, and ends no task without a reason.
LEMMA MovesStep ==
    ASSUME OnlyMoves, ControlInv, MovesInv, [Next]_vars
    PROVE  MovesInv' /\ EndsByMove
<1>1. ASSUME NEW p \in Parts, TaskStep(p) \/ SubscribeLost(p)
      PROVE  MovesInv' /\ EndsByMove
  BY <1>1, ServeLookupMoves, LookupMoves, AcceptedMoves, RefusedMoves, WakeMoves, ReadMoves,
     LeaveMoves DEF TaskStep
<1> QED
  BY <1>1, MessageMoves, SendMoves, PartitionsMoves, ReceiveMoves, CloseMoves, HealthMoves,
     EnvironmentMoves DEF Next

\* While partitions only move, a receive loop whose session is gone has heard of
\* it or has a health check that will be answered CLOSE.
THEOREM ConsumerSessionsWatched ==
    ASSUME OnlyMoves
    PROVE  Spec => []SessionsWatched
<1>1. ControlInv /\ MovesInv => SessionsWatched
  <2> SUFFICES ASSUME ControlInv, MovesInv, NEW p \in Parts, Reading(p), ~ Live(p),
                      ~ tc[p].stop_event
               PROVE  \E h \in health[p] : Outdated(p, h)
    BY DEF SessionsWatched
  <2>1. Addressed(p) /\ Watched(p)
    BY DEF MovesInv
  <2>2. PICK h \in health[p] : h.id = tc[p].consumer_id /\ h.route = HealthRoute(tc[p])
    BY <2>1 DEF Watched, ControlInv, OneHealthCheck
  <2>3. /\ Located(tc[p]) /\ tc[p].stub = tc[p].connect_url
        /\ stream[p].id = tc[p].consumer_id /\ stream[p].route = Route(tc[p])
    BY <2>1 DEF Addressed, Reading
  <2>4. /\ tc[p].broker_addr \in alive
        /\ Reach(h.route.url, h.route.header) = {tc[p].broker_addr}
        /\ Reach(stream[p].route.url, stream[p].route.header) = {tc[p].broker_addr}
    BY <2>2, <2>3, LocatedReach DEF MovesInv, Located
  <2>5. tc[p].broker_addr # owner[p] \/ h.id # sess[p]
    BY <2>2, <2>3, <2>4 DEF Live
  <2> QED
    BY <2>4, <2>5 DEF Outdated
<1> QED
  BY InitControl, ControlStep, InitMoves, MovesStep, <1>1, PTL DEF Spec

\* While partitions only move, a subscriber or a loop gives up only because the
\* partition has moved on since its lookup, or because of close().
THEOREM ConsumerEndsByMoves ==
    ASSUME OnlyMoves
    PROVE  Spec => EndsByMoves
<1>1. EndsByMove => [\A p \in Parts :
          pc[p] \notin {"failed", "ended"} /\ pc'[p] \in {"failed", "ended"} =>
              shutdown' \/ tc[p].broker_addr # owner[p]]_vars
  BY DEF EndsByMove
<1> QED
  BY InitControl, ControlStep, InitMoves, MovesStep, <1>1, PTL DEF Spec, EndsByMoves
=============================================================================
