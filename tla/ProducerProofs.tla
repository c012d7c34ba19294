--------------------------- MODULE ProducerProofs ---------------------------
(***************************************************************************)
(* Safety of Producer for any brokers, partitions, tasks, keys, faults and *)
(* retry options.                                                          *)
(*                                                                         *)
(* None of the theorems is inductive by itself. That a message is in the   *)
(* partition of its call (OnePartitionPerMessage) needs that a request on  *)
(* its way still goes there (RequestsRouted), that nobody changes the      *)
(* partition of a call under way (CallsUnderWay, PartitionsOfCalls), and   *)
(* that tasks are where their kind of task can be (TaskStates).            *)
(* AckedIsStored needs the same facts about the request that is answered,  *)
(* KeyStaysInPartition that a key fixes the partition (KeysRouted), and    *)
(* the types that the objects carry good addresses (GoodProducers). IndInv *)
(* is the conjunction.                                                     *)
(*                                                                         *)
(* Most steps are made of the same few stretches of code. They move one    *)
(* task and store nothing: Moves says so, TaskStepInv and DeliveryKept     *)
(* conclude IndInv' from it once, and the lemma of an action is left with  *)
(* what is special about that action. Only CallSend, StoreMessage and the  *)
(* environment need more.                                                  *)
(*                                                                         *)
(* At the end: what close() leaves behind, on top of IndInv.               *)
(***************************************************************************)
EXTENDS Producer, TLAPS

\* TopicProducer.__init__ makes a good object.
LEMMA NewTopicProducerGood == GoodProducer(NewTopicProducer)
BY DEF GoodProducer, NewTopicProducer, TopicProducerType, Urls

\* A lookup answer keeps an object good: in proxy mode it names a broker.
LEMMA SetAddressGood ==
    ASSUME NEW q, GoodProducer(q), NEW a \in BrokerAddress
    PROVE  GoodProducer(SetAddress(q, a))
BY DEF GoodProducer, SetAddress, TopicProducerType, BrokerAddress, Urls

\* _connect keeps an object good: the stub is for its connect_url.
LEMMA ConnectGood ==
    ASSUME NEW q, GoodProducer(q)
    PROVE  GoodProducer(Connect(q))
BY DEF GoodProducer, Connect, get_connection, TopicProducerType

\* Storing the id of a new session keeps an object good.
LEMMA CreatedGood ==
    ASSUME NEW q, GoodProducer(q), NEW id \in Nat
    PROVE  GoodProducer(Created(q, id))
BY DEF GoodProducer, Created, TopicProducerType

\* stop() keeps an object good.
LEMMA StopGood ==
    ASSUME NEW q, GoodProducer(q)
    PROVE  GoodProducer(Stop(q))
BY DEF GoodProducer, Stop, TopicProducerType

\* An RPC of a good object goes to a url, with a broker in the header or none.
LEMMA RouteTyped ==
    ASSUME NEW q, GoodProducer(q)
    PROVE  Route(q) \in RouteType
BY DEF GoodProducer, Route, RouteType, TopicProducerType, insert_proxy_header, Headers

\* So does a TopicLookup, which never carries the header.
LEMMA LookupRouteTyped ==
    ASSUME NEW q, GoodProducer(q)
    PROVE  [url |-> q.connect_url, header |-> NoHeader] \in RouteType
BY DEF GoodProducer, RouteType, TopicProducerType, Headers

\* The health check of a good object captures an id and a route.
LEMMA HealthTaskTyped ==
    ASSUME NEW q, GoodProducer(q)
    PROVE  HealthTask(q) \in [id : Nat, route : RouteType]
BY DEF GoodProducer, HealthTask, HealthRoute, RouteType, TopicProducerType,
       get_connection, insert_proxy_header, Headers

\* The SendMessage request of a good object is well formed.
LEMMA SendRequestTyped ==
    ASSUME NEW q, GoodProducer(q), NEW p \in Parts, NEW m \in Msgs, NEW n \in Nat
    PROVE  SendRequest(q, p, m, n) \in RequestType
BY RouteTyped DEF SendRequest, RequestType, GoodProducer, TopicProducerType

-----------------------------------------------------------------------------
(***************************************************************************)
(* What the stretches of code shared by several actions do to a task.      *)
(***************************************************************************)
\* Program points at which a task works with the object of a partition.
Working == {"sending", "backoff", "relook", "lookup", "creating", "schema",
            "lookupAgain", "createBackoff"}

\* Task t goes to another program point, or its call ends with an exception.
Moves(t) ==
    \E s \in PCs :
       /\ pc' = [pc EXCEPT ![t] = s]
       /\ t \in Parts => s \notin {"idle", "sending", "backoff", "relook", "new"}
       /\ t \in Senders => s \notin {"new", "done", "failed"}
       /\ \/ /\ s # "idle"
             /\ result' = result
          \/ /\ t \in Senders
             /\ s = "idle"
             /\ result' = [result EXCEPT ![Cur(t)] = "raised"]

\* The locals of the coroutines stay what they are declared to be.
LocalsTyped ==
    /\ rpc' \in [Tasks -> RouteType]
    /\ answer' \in [Tasks -> BrokerAddress \cup {NoAddr}]
    /\ attempts' \in [Senders -> Nat]
    /\ createAttempts' \in [Tasks -> Nat]

\* A task that works on a partition is a creator, or a sender in a call.
LEMMA WorkingTask ==
    ASSUME IndInv, NEW t \in Tasks, pc[t] \in Working
    PROVE  /\ PartOf(t) \in Parts
           /\ GoodProducer(tp[PartOf(t)])
           /\ t \in Senders => Cur(t) \in Msgs
           /\ t \in Parts => ~ created
           /\ t \in Parts \/ t \in Senders
<1>1. t \in Senders => Busy(t)
  BY DEF Busy, Working
<1>2. PartOf(t) \in Parts
  BY <1>1 DEF IndInv, CallsUnderWay, PartOf, Tasks
<1>3. ASSUME t \in Senders PROVE Cur(t) \in Msgs
  BY <1>1, <1>3, ProducerAssumption DEF IndInv, CallsUnderWay, TypeOK, CallTypeOK, Cur, Msgs
<1>4. t \in Parts => ~ created
  BY DEF IndInv, TaskStates, Working
<1> QED
  BY <1>2, <1>3, <1>4 DEF IndInv, GoodProducers, Tasks

\* A task that only moves from one await to another stays within the
\* program points of its kind, and its call keeps its partition.
LEMMA MovesKeeps ==
    ASSUME IndInv, NEW t \in Tasks, pc[t] \in Working, Moves(t),
           UNCHANGED <<sent, key, partition>>, tries' \in [Msgs -> Nat],
           created' => created \/ \A p \in Parts : pc'[p] = "done"
    PROVE  /\ pc' \in [Tasks -> PCs]
           /\ CallTypeOK'
           /\ TaskStates'
           /\ CallsUnderWay'
           /\ \A m \in Msgs : result'[m] = "ok" => result[m] = "ok"
<1>1. PICK s \in PCs :
       /\ pc' = [pc EXCEPT ![t] = s]
       /\ t \in Parts => s \notin {"idle", "sending", "backoff", "relook", "new"}
       /\ t \in Senders => s \notin {"new", "done", "failed"}
       /\ \/ /\ s # "idle"
             /\ result' = result
          \/ /\ t \in Senders
             /\ s = "idle"
             /\ result' = [result EXCEPT ![Cur(t)] = "raised"]
  BY DEF Moves
<1>2. pc \in [Tasks -> PCs] /\ pc' \in [Tasks -> PCs]
  BY <1>1 DEF IndInv, TypeOK, TaskTypeOK
<1>3. CallTypeOK'
  BY <1>1, WorkingTask DEF IndInv, TypeOK, CallTypeOK
<1>4. TaskStates'
  BY <1>1, <1>2, WorkingTask, ProducerAssumption DEF IndInv, TaskStates, Tasks
<1>5. CallsUnderWay'
  BY <1>1, <1>2, ProducerAssumption DEF IndInv, CallsUnderWay, Busy, Cur, Working, Tasks
<1>6. \A m \in Msgs : result'[m] = "ok" => result[m] = "ok"
  BY <1>1, WorkingTask DEF IndInv, TypeOK, CallTypeOK
<1> QED
  BY <1>2, <1>3, <1>4, <1>5, <1>6

\* A step that stores nothing, lets no call return and adds only requests that
\* go where their call wants them keeps the delivery invariant.
LEMMA DeliveryKept ==
    ASSUME IndInv,
           UNCHANGED <<sent, key, partition, log>>,
           \A m \in Msgs : result'[m] = "ok" => result[m] = "ok",
           \A r \in net' : r \in net \/ partition[r.msg] = r.part
    PROVE  Delivery'
<1>1. RequestsRouted'
  BY DEF IndInv, Delivery, RequestsRouted
<1>2. PartitionsOfCalls' /\ KeysRouted'
  BY DEF IndInv, Delivery, PartitionsOfCalls, KeysRouted
<1>3. OnePartitionPerMessage'
  BY DEF IndInv, Delivery, OnePartitionPerMessage
<1>4. AckedIsStored'
  BY DEF IndInv, Delivery, AckedIsStored
<1> QED
  BY <1>1, <1>2, <1>3, <1>4 DEF Delivery

-----------------------------------------------------------------------------
(***************************************************************************)
(* The shared stretches of code, one lemma each.                           *)
(***************************************************************************)

\* TopicProducer.send puts one request on its way and awaits it.
LEMMA StartSendMessageMoves ==
    ASSUME IndInv, NEW t \in Senders, NEW m \in Msgs, NEW p \in Parts, NEW q,
           GoodProducer(q), StartSendMessage(t, m, p, q)
    PROVE  /\ pc' = [pc EXCEPT ![t] = "sending"]
           /\ tries' \in [Msgs -> Nat]
           /\ net' \in SUBSET RequestType
           /\ \A r \in net' : r \in net \/ (r.msg = m /\ r.part = p)
<1>1. tries' \in [Msgs -> Nat] /\ tries[m] + 1 \in Nat
  BY DEF StartSendMessage, IndInv, TypeOK, CallTypeOK
<1>2. SendRequest(q, p, m, tries[m] + 1) \in RequestType
  BY <1>1, SendRequestTyped
<1>3. net' = net \cup {SendRequest(q, p, m, tries[m] + 1)}
  BY DEF StartSendMessage
<1>4. \A r \in net' : r \in net \/ (r.msg = m /\ r.part = p)
  BY <1>3 DEF SendRequest
<1> QED
  BY <1>1, <1>2, <1>3, <1>4 DEF StartSendMessage, IndInv, TypeOK, MessageTypeOK

\* Starting a TopicLookup only touches the locals of the task.
LEMMA StartLookupTyped ==
    ASSUME IndInv, NEW t \in Tasks, NEW q, GoodProducer(q), NEW place \in PCs,
           StartLookup(t, q.connect_url, place)
    PROVE  /\ pc' = [pc EXCEPT ![t] = place]
           /\ rpc' \in [Tasks -> RouteType]
           /\ answer' \in [Tasks -> BrokerAddress \cup {NoAddr}]
<1>1. [url |-> q.connect_url, header |-> NoHeader] \in RouteType
  BY LookupRouteTyped
<1> QED
  BY <1>1 DEF StartLookup, IndInv, TypeOK, TaskTypeOK

\* _try_create up to its RPC: the object stays good, the task awaits.
LEMMA StartCreateProducerMoves ==
    ASSUME IndInv, NEW t \in Tasks, pc[t] \in Working, NEW q, GoodProducer(q),
           StartCreateProducer(t, q)
    PROVE  /\ pc' = [pc EXCEPT ![t] = "creating"]
           /\ rpc' \in [Tasks -> RouteType]
           /\ answer' \in [Tasks -> BrokerAddress \cup {NoAddr}]
           /\ tp' \in [Parts -> TopicProducerType]
           /\ GoodProducers'
<1>1. Route(Connect(q)) \in RouteType /\ GoodProducer(Connect(q))
  BY ConnectGood, RouteTyped
<1>2. /\ tp' = [tp EXCEPT ![PartOf(t)] = Connect(q)]
      /\ rpc' = [rpc EXCEPT ![t] = Route(Connect(q))]
      /\ pc' = [pc EXCEPT ![t] = "creating"]
      /\ answer' = [answer EXCEPT ![t] = NoAddr]
  BY DEF StartCreateProducer
<1>3. tp' \in [Parts -> TopicProducerType] /\ GoodProducers'
  BY <1>1, <1>2, WorkingTask DEF IndInv, TypeOK, ObjectTypeOK, GoodProducers, GoodProducer
<1> QED
  BY <1>1, <1>2, <1>3 DEF IndInv, TypeOK, TaskTypeOK

\* RetryManager.__init__: the number of retries in force is positive.
LEMMA RetriesPositive == Retries \in Nat \ {0}
BY ProducerAssumption DEF Retries, Effective, DEFAULT_MAX_RETRIES

\* The except branch of TopicProducer.create: retry, or raise to the caller.
LEMMA CreateErrorMoves ==
    ASSUME IndInv, NEW t \in Tasks, pc[t] \in Working, NEW code, CreateError(t, code)
    PROVE  /\ Moves(t)
           /\ locked' \in BOOLEAN
           /\ rpc' \in [Tasks -> RouteType]
           /\ answer' \in [Tasks -> BrokerAddress \cup {NoAddr}]
           /\ createAttempts' \in [Tasks -> Nat]
<1>1. CASE is_retryable(code) /\ createAttempts[t] + 1 <= Retries
  <2>1. /\ createAttempts' = [createAttempts EXCEPT ![t] = @ + 1]
        /\ StartLookup(t, tp[PartOf(t)].connect_url, "lookupAgain")
        /\ UNCHANGED <<locked, result>>
    BY <1>1, RetriesPositive DEF CreateError, IndInv, TypeOK, TaskTypeOK
  <2>2. createAttempts' \in [Tasks -> Nat]
    BY <2>1 DEF IndInv, TypeOK, TaskTypeOK
  <2>3. /\ pc' = [pc EXCEPT ![t] = "lookupAgain"]
        /\ rpc' \in [Tasks -> RouteType]
        /\ answer' \in [Tasks -> BrokerAddress \cup {NoAddr}]
    BY <2>1, WorkingTask, StartLookupTyped DEF PCs
  <2> QED
    BY <2>1, <2>2, <2>3 DEF Moves, PCs, IndInv, TypeOK, ObjectTypeOK
<1>2. CASE ~ (is_retryable(code) /\ createAttempts[t] + 1 <= Retries)
  <2>1. CreateRaises(t) /\ UNCHANGED <<createAttempts, rpc, answer>>
    BY <1>2 DEF CreateError
  <2>2. Moves(t) /\ locked' \in BOOLEAN
    BY <2>1, ProducerAssumption DEF CreateRaises, EndCall, Moves, PCs, IndInv, TypeOK, ObjectTypeOK
  <2> QED
    BY <2>1, <2>2 DEF IndInv, TypeOK, TaskTypeOK
<1> QED
  BY <1>1, <1>2

\* TopicProducer.create returns: a creator is done, a sender sends again.
LEMMA CreateReturnsMoves ==
    ASSUME IndInv, NEW t \in Tasks, pc[t] \in Working, NEW q, GoodProducer(q),
           CreateReturns(t, q), UNCHANGED <<partition, sent, result>>
    PROVE  /\ Moves(t)
           /\ locked' \in BOOLEAN
           /\ created' \in BOOLEAN
           /\ created' => created \/ \A p \in Parts : pc'[p] = "done"
           /\ attempts' \in [Senders -> Nat]
           /\ tries' \in [Msgs -> Nat]
           /\ net' \in SUBSET RequestType
           /\ \A r \in net' : r \in net \/ partition[r.msg] = r.part
<1>1. CASE t \in Parts
  <2>1. /\ pc' = [pc EXCEPT ![t] = "done"]
        /\ created' = (\A p \in Parts : pc'[p] = "done")
        /\ locked' = (locked /\ ~ created')
        /\ UNCHANGED <<attempts, tries, net>>
    BY <1>1, ProducerAssumption DEF CreateReturns
  <2>2. Moves(t)
    BY <1>1, <2>1, ProducerAssumption DEF Moves, PCs
  <2> QED
    BY <2>1, <2>2 DEF IndInv, TypeOK, TaskTypeOK, CallTypeOK, MessageTypeOK
<1>2. CASE t \in Senders
  <2>1. /\ attempts' = [attempts EXCEPT ![t] = 0]
        /\ StartSendMessage(t, Cur(t), PartOf(t), q)
        /\ UNCHANGED <<created, locked>>
    BY <1>2, ProducerAssumption DEF CreateReturns
  <2>2. /\ pc' = [pc EXCEPT ![t] = "sending"]
        /\ tries' \in [Msgs -> Nat]
        /\ net' \in SUBSET RequestType
        /\ \A r \in net' : r \in net \/ (r.msg = Cur(t) /\ r.part = PartOf(t))
    BY <1>2, <2>1, WorkingTask, StartSendMessageMoves
  <2>3. PartOf(t) = partition[Cur(t)]
    BY <1>2, ProducerAssumption DEF PartOf
  <2>4. Moves(t)
    BY <1>2, <2>2, ProducerAssumption DEF Moves, PCs
  <2> QED
    BY <2>1, <2>2, <2>3, <2>4 DEF IndInv, TypeOK, TaskTypeOK, ObjectTypeOK
<1> QED
  BY <1>1, <1>2, WorkingTask

\* The except branch of Producer.send: raise, sleep, or look the topic up.
LEMMA SendErrorMoves ==
    ASSUME IndInv, NEW t \in Senders, pc[t] = "sending", NEW code, SendError(t, code)
    PROVE  /\ Moves(t)
           /\ rpc' \in [Tasks -> RouteType]
           /\ answer' \in [Tasks -> BrokerAddress \cup {NoAddr}]
           /\ attempts' \in [Senders -> Nat]
<1>0. t \in Tasks /\ pc[t] \in Working /\ t \notin Parts
  BY ProducerAssumption DEF Tasks, Working
<1>1. CASE ~ is_retryable(code)
  <2>1. EndCall(t, "raised") /\ UNCHANGED <<attempts, rpc, answer>>
    BY <1>1 DEF SendError
  <2> QED
    BY <1>0, <2>1 DEF EndCall, Moves, PCs, IndInv, TypeOK, TaskTypeOK
<1>2. CASE is_retryable(code)
  <2>1. attempts' = [attempts EXCEPT ![t] = @ + 1] /\ result' = result
    BY <1>2 DEF SendError
  <2>2. attempts' \in [Senders -> Nat]
    BY <2>1 DEF IndInv, TypeOK, TaskTypeOK
  <2>3. CASE pc' = [pc EXCEPT ![t] = "backoff"] /\ UNCHANGED <<rpc, answer>>
    BY <1>0, <2>1, <2>2, <2>3 DEF Moves, PCs, IndInv, TypeOK, TaskTypeOK
  <2>4. CASE StartLookup(t, tp[PartOf(t)].connect_url, "relook")
    <3>1. /\ pc' = [pc EXCEPT ![t] = "relook"]
          /\ rpc' \in [Tasks -> RouteType]
          /\ answer' \in [Tasks -> BrokerAddress \cup {NoAddr}]
      BY <1>0, <2>4, WorkingTask, StartLookupTyped DEF PCs
    <3> QED
      BY <1>0, <2>1, <2>2, <3>1 DEF Moves, PCs
  <2> QED
    BY <1>2, <2>3, <2>4 DEF SendError
<1> QED
  BY <1>1, <1>2

\* What TopicProducer.create does after a lookup.
LEMMA AfterCreateLookupMoves ==
    ASSUME IndInv, NEW t \in Tasks, pc[t] \in Working, NEW q, GoodProducer(q),
           AfterCreateLookup(t, q), result' = result
    PROVE  /\ Moves(t)
           /\ rpc' \in [Tasks -> RouteType]
           /\ answer' \in [Tasks -> BrokerAddress \cup {NoAddr}]
           /\ createAttempts' \in [Tasks -> Nat]
           /\ tp' \in [Parts -> TopicProducerType]
           /\ GoodProducers'
<1>1. CASE StartCreateProducer(t, q) /\ createAttempts' = [createAttempts EXCEPT ![t] = 0]
  <2>1. /\ pc' = [pc EXCEPT ![t] = "creating"]
        /\ rpc' \in [Tasks -> RouteType]
        /\ answer' \in [Tasks -> BrokerAddress \cup {NoAddr}]
        /\ tp' \in [Parts -> TopicProducerType]
        /\ GoodProducers'
    BY <1>1, StartCreateProducerMoves
  <2> QED
    BY <1>1, <2>1 DEF Moves, PCs, IndInv, TypeOK, TaskTypeOK
<1>2. CASE /\ tp' = [tp EXCEPT ![PartOf(t)] = q]
           /\ pc' = [pc EXCEPT ![t] = "createBackoff"]
           /\ answer' = [answer EXCEPT ![t] = NoAddr]
           /\ UNCHANGED <<rpc, createAttempts>>
  <2>1. tp' \in [Parts -> TopicProducerType] /\ GoodProducers'
    BY <1>2, WorkingTask DEF IndInv, TypeOK, ObjectTypeOK, GoodProducers, GoodProducer
  <2> QED
    BY <1>2, <2>1 DEF Moves, PCs, IndInv, TypeOK, TaskTypeOK
<1> QED
  BY <1>1, <1>2 DEF AfterCreateLookup

\* All that is left to show of a step of task t.
LEMMA TaskStepInv ==
    ASSUME IndInv, NEW t \in Tasks, pc[t] \in Working, Moves(t), LocalsTyped,
           ClusterTypeOK', ObjectTypeOK', GoodProducers',
           created' => created \/ \A p \in Parts : pc'[p] = "done",
           UNCHANGED <<sent, key, partition, log>>,
           tries' \in [Msgs -> Nat],
           net' \in SUBSET RequestType,
           \A r \in net' : r \in net \/ partition[r.msg] = r.part
    PROVE  IndInv'
<1>1. /\ pc' \in [Tasks -> PCs]
      /\ CallTypeOK' /\ TaskStates' /\ CallsUnderWay'
      /\ \A m \in Msgs : result'[m] = "ok" => result[m] = "ok"
  BY MovesKeeps
<1>2. Delivery'
  BY <1>1, DeliveryKept
<1>3. TaskTypeOK'
  BY <1>1 DEF LocalsTyped, TaskTypeOK
<1>4. MessageTypeOK'
  BY DEF MessageTypeOK, IndInv, TypeOK
<1> QED
  BY <1>1, <1>2, <1>3, <1>4 DEF IndInv, TypeOK

-----------------------------------------------------------------------------
(***************************************************************************)
(* One lemma per action.                                                   *)
(***************************************************************************)

\* The states a Producer starts in.
LEMMA InitInv == Init => IndInv
<1> SUFFICES ASSUME Init PROVE IndInv
  OBVIOUS
<1> USE DEF Init
<1>1. ClusterTypeOK
  BY ClusterAssumption DEF ClusterInit, ClusterTypeOK
<1>2. ObjectTypeOK
  <2>1. NewTopicProducer \in TopicProducerType
    BY NewTopicProducerGood DEF GoodProducer
  <2>2. last \in Int
    BY ProducerAssumption DEF FirstLast
  <2>3. /\ tp \in [Parts -> TopicProducerType]
        /\ health \in [Parts -> SUBSET [id : Nat, route : RouteType]]
    BY <2>1
  <2> QED
    BY <2>2, <2>3 DEF ObjectTypeOK
<1>3. TaskTypeOK
  <2>1. [url |-> NoUrl, header |-> NoHeader] \in RouteType
    BY DEF RouteType, Headers
  <2> QED
    BY <2>1 DEF TaskTypeOK, PCs
<1>4. CallTypeOK
  BY ProducerAssumption DEF CallTypeOK
<1>5. MessageTypeOK
  BY DEF MessageTypeOK
<1>6. GoodProducers
  BY NewTopicProducerGood DEF GoodProducers
<1>7. TaskStates
  BY ProducerAssumption DEF TaskStates, Tasks
<1>8. CallsUnderWay
  BY ProducerAssumption DEF CallsUnderWay, Busy, Tasks
<1>9. Delivery
  BY DEF Delivery, RequestsRouted, PartitionsOfCalls, KeysRouted, OnePartitionPerMessage,
         AckedIsStored
<1> QED
  BY <1>1, <1>2, <1>3, <1>4, <1>5, <1>6, <1>7, <1>8, <1>9 DEF IndInv, TypeOK

\* Crashes, restarts and moves do not touch the client or the logs.
LEMMA EnvironmentInv == IndInv /\ Environment => IndInv'
<1> SUFFICES ASSUME IndInv, Environment PROVE IndInv'
  OBVIOUS
<1>1. ClusterTypeOK /\ ClusterStep
  BY DEF IndInv, TypeOK, Environment
<1>2. ClusterTypeOK'
  <2>1. ASSUME NEW b \in Brokers, Crash(b) PROVE ClusterTypeOK'
    BY <1>1, <2>1, ClusterAssumption DEF ClusterTypeOK, Crash, Fault, DropSessions
  <2>2. ASSUME NEW b \in Brokers, Restart(b) PROVE ClusterTypeOK'
    BY <1>1, <2>2 DEF ClusterTypeOK, Restart
  <2>3. ASSUME NEW p \in Parts, NEW b \in Brokers, Move(p, b) PROVE ClusterTypeOK'
    BY <1>1, <2>3, ClusterAssumption DEF ClusterTypeOK, Move, Fault
  <2> QED
    BY <1>1, <2>1, <2>2, <2>3 DEF ClusterStep
<1>3. UNCHANGED <<objectVars, pc, rpc, answer, attempts, createAttempts, callVars, net, log>>
  BY DEF Environment
<1>4. (ObjectTypeOK /\ TaskTypeOK /\ CallTypeOK /\ MessageTypeOK)'
  BY <1>3 DEF IndInv, TypeOK, ObjectTypeOK, TaskTypeOK, CallTypeOK, MessageTypeOK,
     objectVars, callVars
<1>5. GoodProducers' /\ TaskStates' /\ CallsUnderWay'
  BY <1>3 DEF IndInv, GoodProducers, TaskStates, CallsUnderWay, Busy, Cur, objectVars, callVars
<1>6. Delivery'
  BY <1>3, DeliveryKept DEF callVars
<1> QED
  BY <1>2, <1>4, <1>5, <1>6 DEF IndInv, TypeOK

\* Producer.create starts its creators.
LEMMA CreateInv == IndInv /\ Create => IndInv'
<1> SUFFICES ASSUME IndInv, Create PROVE IndInv'
  OBVIOUS
<1>1. UNCHANGED <<clusterVars, tp, health, created, closed, last, answer,
                  attempts, createAttempts, callVars, net, log>>
  BY DEF Create
<1>2. (ClusterTypeOK /\ ObjectTypeOK /\ CallTypeOK /\ MessageTypeOK /\ GoodProducers)'
  BY <1>1 DEF Create, IndInv, TypeOK, ClusterTypeOK, ObjectTypeOK, CallTypeOK, MessageTypeOK,
     GoodProducers, clusterVars, callVars
<1>3. /\ pc' = [t \in Tasks |-> IF t \in Parts THEN "lookup" ELSE pc[t]]
      /\ rpc' = [t \in Tasks |-> IF t \in Parts
                                THEN [url |-> tp[t].connect_url, header |-> NoHeader]
                                ELSE rpc[t]]
      /\ \A p \in Parts : pc[p] = "new"
  BY DEF Create
<1>4. rpc' \in [Tasks -> RouteType]
  BY <1>3, LookupRouteTyped DEF IndInv, TypeOK, TaskTypeOK, GoodProducers
<1>5. TaskTypeOK'
  BY <1>1, <1>3, <1>4 DEF IndInv, TypeOK, TaskTypeOK, PCs
<1>6. ~ created
  <2>1. 0 \in Parts
    BY ProducerAssumption
  <2> QED
    BY <1>3, <2>1 DEF IndInv, TaskStates
<1>7. TaskStates' /\ CallsUnderWay'
  BY <1>1, <1>3, <1>6, ProducerAssumption DEF IndInv, TaskStates, CallsUnderWay, Busy, Cur,
     Tasks, callVars
<1>8. Delivery'
  BY <1>1, DeliveryKept DEF callVars
<1> QED
  BY <1>2, <1>5, <1>7, <1>8 DEF IndInv, TypeOK

\* Producer.close stops objects and health checks and nothing else.
LEMMA CloseInv == IndInv /\ Close => IndInv'
<1> SUFFICES ASSUME IndInv, Close PROVE IndInv'
  OBVIOUS
<1>1. UNCHANGED <<clusterVars, created, locked, last, pc, rpc, answer,
                  attempts, createAttempts, callVars, net, log>>
  BY DEF Close
<1>2. GoodProducers' /\ tp' \in [Parts -> TopicProducerType]
  BY StopGood DEF IndInv, TypeOK, ObjectTypeOK, GoodProducers, GoodProducer, Close
<1>3. health' \in [Parts -> SUBSET [id : Nat, route : RouteType]]
  BY DEF IndInv, TypeOK, ObjectTypeOK, Close
<1>4. ObjectTypeOK'
  BY <1>1, <1>2, <1>3 DEF IndInv, TypeOK, ObjectTypeOK, Close
<1>5. (ClusterTypeOK /\ TaskTypeOK /\ CallTypeOK /\ MessageTypeOK)'
  BY <1>1 DEF IndInv, TypeOK, ClusterTypeOK, TaskTypeOK, CallTypeOK, MessageTypeOK,
     clusterVars, callVars
<1>6. TaskStates' /\ CallsUnderWay'
  BY <1>1 DEF IndInv, TaskStates, CallsUnderWay, Busy, Cur, callVars
<1>7. Delivery'
  BY <1>1, DeliveryKept DEF callVars
<1> QED
  BY <1>2, <1>4, <1>5, <1>6, <1>7 DEF IndInv, TypeOK

\* A call of send() or send_with_key() for partition p.
LEMMA CallSendInv ==
    ASSUME IndInv, NEW t \in Senders, NEW k \in Keys \cup {NoKey}, NEW p \in Parts,
           CallSend(t, k, p), last' \in Int,
           k # NoKey => p = KeyPartition(k)
    PROVE  IndInv'
<1> DEFINE m == <<t, sent[t] + 1>>
<1>1. UNCHANGED <<clusterVars, tp, health, created, locked, closed, rpc, answer,
                  createAttempts, log>>
  BY DEF CallSend
<1>2. /\ sent' = [sent EXCEPT ![t] = @ + 1]
      /\ key' = [key EXCEPT ![m] = k]
      /\ attempts' = [attempts EXCEPT ![t] = 0]
      /\ sent[t] < MaxSends /\ pc[t] = "idle"
  BY DEF CallSend
<1>3. /\ m \in Msgs /\ t \in Tasks /\ t \notin Parts
      /\ sent' \in [Senders -> 0 .. MaxSends] /\ sent'[t] = sent[t] + 1
      /\ sent[t] \in Nat
  BY <1>2, ProducerAssumption DEF IndInv, TypeOK, CallTypeOK, Msgs, Tasks
<1>4. partition[m] = NoPart
  BY <1>3 DEF IndInv, Delivery, PartitionsOfCalls
<1>5. (ClusterTypeOK /\ ObjectTypeOK /\ GoodProducers)'
  BY <1>1 DEF IndInv, TypeOK, ClusterTypeOK, ObjectTypeOK, clusterVars, GoodProducers
<1>6. /\ key' \in [Msgs -> Keys \cup {NoKey}]
      /\ attempts' \in [Senders -> Nat]
  BY <1>2 DEF IndInv, TypeOK, CallTypeOK, TaskTypeOK
<1>7. CASE ~ created
  <2>1. /\ result' = [result EXCEPT ![m] = "raised"]
        /\ UNCHANGED <<partition, tries, net, pc>>
    BY <1>7 DEF CallSend
  <2>2. TaskTypeOK' /\ MessageTypeOK'
    BY <1>1, <1>6, <2>1 DEF IndInv, TypeOK, TaskTypeOK, MessageTypeOK
  <2>3. CallTypeOK'
    BY <1>3, <1>6, <2>1 DEF IndInv, TypeOK, CallTypeOK
  <2>4. TaskStates' /\ CallsUnderWay'
    BY <1>1, <1>2, <1>3, <2>1
       DEF IndInv, TaskStates, CallsUnderWay, Busy, Cur, TypeOK, CallTypeOK
  <2>5. RequestsRouted' /\ OnePartitionPerMessage'
    BY <1>1, <2>1 DEF IndInv, Delivery, RequestsRouted, OnePartitionPerMessage
  <2>6. PartitionsOfCalls'
    BY <1>2, <2>1 DEF IndInv, Delivery, PartitionsOfCalls, Msgs, TypeOK, CallTypeOK
  <2>7. KeysRouted'
    BY <1>2, <1>3, <1>4, <2>1 DEF IndInv, Delivery, KeysRouted, TypeOK, CallTypeOK
  <2>8. AckedIsStored'
    BY <1>1, <1>3, <2>1 DEF IndInv, Delivery, AckedIsStored, TypeOK, CallTypeOK
  <2> QED
    BY <1>5, <2>2, <2>3, <2>4, <2>5, <2>6, <2>7, <2>8 DEF IndInv, TypeOK, Delivery
<1>8. CASE created
  <2>1. /\ result' = [result EXCEPT ![m] = "pending"]
        /\ partition' = [partition EXCEPT ![m] = p]
        /\ StartSendMessage(t, m, p, tp[p])
    BY <1>8 DEF CallSend
  <2>2. /\ pc' = [pc EXCEPT ![t] = "sending"]
        /\ tries' \in [Msgs -> Nat]
        /\ net' \in SUBSET RequestType
        /\ \A r \in net' : r \in net \/ (r.msg = m /\ r.part = p)
    BY <1>3, <2>1, StartSendMessageMoves DEF IndInv, GoodProducers
  <2>3. TaskTypeOK' /\ MessageTypeOK'
    BY <1>1, <1>6, <2>2 DEF IndInv, TypeOK, TaskTypeOK, MessageTypeOK, PCs
  <2>4. CallTypeOK'
    BY <1>3, <1>6, <2>1, <2>2 DEF IndInv, TypeOK, CallTypeOK
  <2>5. TaskStates'
    BY <1>1, <1>3, <2>2 DEF IndInv, TaskStates, TypeOK, TaskTypeOK
  <2>6. CallsUnderWay'
    BY <1>2, <1>3, <2>1, <2>2
       DEF IndInv, CallsUnderWay, Busy, Cur, TypeOK, CallTypeOK, TaskTypeOK, Tasks
  <2>7. \A x \in Msgs : x # m => partition'[x] = partition[x]
    BY <2>1 DEF IndInv, TypeOK, CallTypeOK
  <2>8. partition'[m] = p
    BY <1>3, <2>1 DEF IndInv, TypeOK, CallTypeOK
  <2>9. NoPart \notin Parts
    BY ProducerAssumption
  <2>10. RequestsRouted'
    BY <1>4, <2>2, <2>7, <2>8, <2>9
       DEF IndInv, Delivery, RequestsRouted, TypeOK, MessageTypeOK, RequestType
  <2>11. OnePartitionPerMessage'
    <3>1. SUFFICES ASSUME NEW q \in Parts, NEW i \in DOMAIN log[q]
                   PROVE  partition'[log[q][i]] = q
      BY <1>1 DEF OnePartitionPerMessage
    <3>2. log[q] \in Seq(Msgs) /\ log[q][i] \in Msgs
      BY DEF IndInv, TypeOK, MessageTypeOK
    <3>3. partition[log[q][i]] = q
      BY DEF IndInv, Delivery, OnePartitionPerMessage
    <3> QED
      BY <1>4, <2>7, <2>9, <3>2, <3>3
  <2>12. PartitionsOfCalls'
    BY <1>2, <1>3, <2>7 DEF IndInv, Delivery, PartitionsOfCalls, Msgs, TypeOK, CallTypeOK
  <2>13. KeysRouted'
    <3>1. CreateCalled
      BY <1>8 DEF CreateCalled, IndInv, TaskStates
    <3>2. k # NoKey => p = IF NumPartitions > 0 THEN key_route(Hash[k], NumPartitions) ELSE 0
      BY <3>1 DEF KeyPartition, HasRouter
    <3>3. key'[m] = k /\ \A x \in Msgs : x # m => key'[x] = key[x]
      BY <1>2, <1>3 DEF IndInv, TypeOK, CallTypeOK
    <3> QED
      BY <2>7, <2>8, <3>2, <3>3 DEF IndInv, Delivery, KeysRouted
  <2>14. AckedIsStored'
    BY <1>1, <1>3, <2>1, <2>7 DEF IndInv, Delivery, AckedIsStored, TypeOK, CallTypeOK
  <2> QED
    BY <1>5, <2>3, <2>4, <2>5, <2>6, <2>10, <2>11, <2>12, <2>13, <2>14
       DEF IndInv, TypeOK, Delivery
<1> QED
  BY <1>7, <1>8

\* Producer.send: round_robin() selects a partition the topic has.
LEMMA SendInv ==
    ASSUME IndInv, NEW t \in Senders, Send(t)
    PROVE  IndInv'
<1>1. CASE HasRouter /\ last' = round_robin(last, NumPartitions) /\ CallSend(t, NoKey, last')
  <2>1. last' \in 0 .. (NumPartitions - 1)
    BY <1>1, ProducerAssumption DEF HasRouter, round_robin, IndInv, TypeOK, ObjectTypeOK
  <2>2. last' \in Parts /\ last' \in Int
    BY <1>1, <2>1, ProducerAssumption DEF HasRouter
  <2> QED
    BY <1>1, <2>2, CallSendInv
<1>2. CASE CallSend(t, NoKey, 0) /\ UNCHANGED last
  <2>1. 0 \in Parts /\ last' \in Int
    BY <1>2, ProducerAssumption DEF IndInv, TypeOK, ObjectTypeOK
  <2> QED
    BY <1>2, <2>1, CallSendInv
<1> QED
  BY <1>1, <1>2 DEF Send

\* Producer.send_with_key: key_route() selects a partition the topic has.
LEMMA SendWithKeyInv ==
    ASSUME IndInv, NEW t \in Senders, NEW k \in Keys, SendWithKey(t, k)
    PROVE  IndInv'
<1>1. KeyPartition(k) \in Parts
  BY ProducerAssumption DEF KeyPartition, HasRouter, key_route
<1>2. last' \in Int
  BY DEF SendWithKey, IndInv, TypeOK, ObjectTypeOK
<1> QED
  BY <1>1, <1>2, CallSendInv DEF SendWithKey

\* The lookup answer is in: only a task's local variable changes.
LEMMA ServeLookupInv ==
    ASSUME IndInv, NEW t \in Tasks, ServeLookup(t)
    PROVE  IndInv'
<1>1. PartOf(t) \in Parts
  BY WorkingTask DEF ServeLookup, InLookup, Working
<1>2. LookupAnswer(PartOf(t)) \in BrokerAddress
  BY <1>1, ClusterAssumption DEF LookupAnswer, BrokerAddress, Urls, IndInv, TypeOK, ClusterTypeOK
<1>3. UNCHANGED <<clusterVars, objectVars, pc, rpc, attempts, createAttempts,
                  callVars, net, log>>
  BY DEF ServeLookup
<1>4. TaskTypeOK'
  BY <1>2, <1>3 DEF ServeLookup, IndInv, TypeOK, TaskTypeOK
<1>5. (ClusterTypeOK /\ ObjectTypeOK /\ CallTypeOK /\ MessageTypeOK)'
  BY <1>3 DEF IndInv, TypeOK, ClusterTypeOK, ObjectTypeOK, CallTypeOK, MessageTypeOK,
     clusterVars, objectVars, callVars
<1>6. GoodProducers' /\ TaskStates' /\ CallsUnderWay'
  BY <1>3 DEF IndInv, GoodProducers, TaskStates, CallsUnderWay, Busy, Cur, objectVars, callVars
<1>7. Delivery'
  BY <1>3, DeliveryKept DEF callVars
<1> QED
  BY <1>4, <1>5, <1>6, <1>7 DEF IndInv, TypeOK

\* A lookup answer is applied to the object of the partition.
LEMMA LookupReturnsInv ==
    ASSUME IndInv, NEW t \in Tasks, LookupReturns(t)
    PROVE  IndInv'
<1> DEFINE q == SetAddress(tp[PartOf(t)], answer[t])
<1>1. pc[t] \in Working /\ answer[t] \in BrokerAddress
  BY DEF LookupReturns, InLookup, Working, IndInv, TypeOK, TaskTypeOK
<1>2. GoodProducer(q)
  BY <1>1, WorkingTask, SetAddressGood
<1>3. UNCHANGED <<clusterVars, health, created, locked, closed, last, attempts,
                  callVars, net, log>>
  BY DEF LookupReturns
<1>4. /\ Moves(t)
      /\ rpc' \in [Tasks -> RouteType]
      /\ answer' \in [Tasks -> BrokerAddress \cup {NoAddr}]
      /\ createAttempts' \in [Tasks -> Nat]
      /\ tp' \in [Parts -> TopicProducerType]
      /\ GoodProducers'
  <2>1. CASE AfterCreateLookup(t, q)
    BY <1>1, <1>2, <1>3, <2>1, AfterCreateLookupMoves DEF callVars
  <2>2. CASE /\ pc[t] = "relook"
             /\ tp' = [tp EXCEPT ![PartOf(t)] = q]
             /\ StartLookup(t, q.connect_url, "lookup")
             /\ UNCHANGED createAttempts
    <3>1. /\ pc' = [pc EXCEPT ![t] = "lookup"]
          /\ rpc' \in [Tasks -> RouteType]
          /\ answer' \in [Tasks -> BrokerAddress \cup {NoAddr}]
      BY <1>2, <2>2, StartLookupTyped DEF PCs
    <3>2. tp' \in [Parts -> TopicProducerType] /\ GoodProducers'
      BY <1>1, <1>2, <2>2, WorkingTask
         DEF IndInv, TypeOK, ObjectTypeOK, GoodProducers, GoodProducer
    <3>3. Moves(t)
      BY <1>3, <3>1 DEF Moves, PCs, callVars
    <3> QED
      BY <2>2, <3>1, <3>2, <3>3 DEF IndInv, TypeOK, TaskTypeOK
  <2> QED
    BY <2>1, <2>2 DEF LookupReturns
<1>5. LocalsTyped
  BY <1>3, <1>4 DEF LocalsTyped, IndInv, TypeOK, TaskTypeOK
<1>6. ClusterTypeOK' /\ ObjectTypeOK'
  BY <1>3, <1>4 DEF IndInv, TypeOK, ClusterTypeOK, ObjectTypeOK, clusterVars
<1>7. tries' \in [Msgs -> Nat] /\ net' \in SUBSET RequestType
  BY <1>3 DEF IndInv, TypeOK, CallTypeOK, MessageTypeOK, callVars
<1> QED
  BY <1>1, <1>3, <1>4, <1>5, <1>6, <1>7, TaskStepInv DEF callVars

\* A lookup that fails: go on with the old address, or raise.
LEMMA LookupFailsInv ==
    ASSUME IndInv, NEW t \in Tasks, LookupFails(t)
    PROVE  IndInv'
<1>1. pc[t] \in Working
  BY DEF LookupFails, InLookup, Working
<1>2. UNCHANGED <<alive, owner, sess, nextId, health, created, locked, closed,
                  last, attempts, sent, key, partition, tries, net, log>>
  BY DEF LookupFails
<1>3. faults' \in 0 .. MaxFaults
  BY ClusterAssumption DEF LookupFails, RpcFault, Fault, IndInv, TypeOK, ClusterTypeOK
<1>4. /\ Moves(t)
      /\ rpc' \in [Tasks -> RouteType]
      /\ answer' \in [Tasks -> BrokerAddress \cup {NoAddr}]
      /\ createAttempts' \in [Tasks -> Nat]
      /\ tp' \in [Parts -> TopicProducerType]
      /\ GoodProducers'
  <2>1. CASE AfterCreateLookup(t, tp[PartOf(t)]) /\ UNCHANGED result
    BY <1>1, <2>1, WorkingTask, AfterCreateLookupMoves
  <2>2. CASE /\ pc[t] = "relook"
             /\ EndCall(t, "raised")
             /\ UNCHANGED <<tp, rpc, answer, createAttempts>>
    <3>1. t \in Senders /\ t \notin Parts
      BY <2>2, ProducerAssumption DEF IndInv, TaskStates, Tasks
    <3>2. Moves(t)
      BY <2>2, <3>1 DEF EndCall, Moves, PCs
    <3> QED
      BY <2>2, <3>2 DEF IndInv, TypeOK, TaskTypeOK, ObjectTypeOK, GoodProducers
  <2> QED
    BY <2>1, <2>2 DEF LookupFails
<1>5. LocalsTyped
  BY <1>2, <1>4 DEF LocalsTyped, IndInv, TypeOK, TaskTypeOK
<1>6. ClusterTypeOK' /\ ObjectTypeOK'
  BY <1>2, <1>3, <1>4 DEF IndInv, TypeOK, ClusterTypeOK, ObjectTypeOK
<1>7. tries' \in [Msgs -> Nat] /\ net' \in SUBSET RequestType
  BY <1>2 DEF IndInv, TypeOK, CallTypeOK, MessageTypeOK
<1> QED
  BY <1>1, <1>2, <1>4, <1>5, <1>6, <1>7, TaskStepInv

\* The broker's side of CreateProducer.
LEMMA RegisterTyped ==
    ASSUME IndInv, NEW p \in Parts, Register(p)
    PROVE  /\ sess' \in [Parts -> Nat]
           /\ nextId' \in Nat \ {0}
           /\ nextId \in Nat
BY DEF Register, IndInv, TypeOK, ClusterTypeOK

\* CreateProducer succeeds and a health check starts.
LEMMA CreateAcceptedInv ==
    ASSUME IndInv, NEW t \in Tasks, CreateAccepted(t)
    PROVE  IndInv'
<1> DEFINE p == PartOf(t)
           q == Created(tp[p], nextId)
<1>1. pc[t] \in Working
  BY DEF CreateAccepted, Working
<1>2. p \in Parts /\ GoodProducer(tp[p])
  BY <1>1, WorkingTask
<1>3. UNCHANGED <<alive, owner, faults, closed, last, rpc, answer,
                  createAttempts, sent, key, partition, result, log>>
  BY DEF CreateAccepted
<1>4. ClusterTypeOK' /\ nextId \in Nat
  BY <1>2, <1>3, RegisterTyped DEF CreateAccepted, IndInv, TypeOK, ClusterTypeOK
<1>5. GoodProducer(q)
  BY <1>2, <1>4, CreatedGood
<1>6. /\ tp' = [tp EXCEPT ![p] = q]
      /\ health' = [health EXCEPT ![p] = @ \cup {HealthTask(q)}]
  BY DEF CreateAccepted
<1>7. tp' \in [Parts -> TopicProducerType] /\ GoodProducers'
  BY <1>2, <1>5, <1>6 DEF IndInv, TypeOK, ObjectTypeOK, GoodProducers, GoodProducer
<1>8. health' \in [Parts -> SUBSET [id : Nat, route : RouteType]]
  BY <1>5, <1>6, HealthTaskTyped DEF IndInv, TypeOK, ObjectTypeOK
<1>9. /\ Moves(t)
      /\ locked' \in BOOLEAN
      /\ created' \in BOOLEAN
      /\ created' => created \/ \A x \in Parts : pc'[x] = "done"
      /\ attempts' \in [Senders -> Nat]
      /\ tries' \in [Msgs -> Nat]
      /\ net' \in SUBSET RequestType
      /\ \A r \in net' : r \in net \/ partition[r.msg] = r.part
  <2>1. CASE CreateReturns(t, q)
    BY <1>1, <1>3, <1>5, <2>1, CreateReturnsMoves
  <2>2. CASE /\ pc' = [pc EXCEPT ![t] = "schema"]
             /\ UNCHANGED <<created, locked, attempts, tries, net>>
    <3>1. Moves(t)
      BY <1>3, <2>2 DEF Moves, PCs
    <3> QED
      BY <2>2, <3>1 DEF IndInv, TypeOK, ObjectTypeOK, TaskTypeOK, CallTypeOK, MessageTypeOK
  <2> QED
    BY <2>1, <2>2 DEF CreateAccepted
<1>10. LocalsTyped
  BY <1>3, <1>9 DEF LocalsTyped, IndInv, TypeOK, TaskTypeOK
<1>11. ObjectTypeOK'
  BY <1>3, <1>7, <1>8, <1>9 DEF IndInv, TypeOK, ObjectTypeOK
<1> QED
  BY <1>1, <1>3, <1>4, <1>7, <1>9, <1>10, <1>11, TaskStepInv

\* TopicProducer.create meets an error: nothing but the task, the lock and
\* perhaps the cluster changes.
LEMMA CreateErrorInv ==
    ASSUME IndInv, NEW t \in Tasks, pc[t] \in Working, NEW code, CreateError(t, code),
           ClusterTypeOK',
           UNCHANGED <<tp, health, created, closed, last, attempts,
                       sent, key, partition, tries, net, log>>
    PROVE  IndInv'
<1>1. /\ Moves(t)
      /\ locked' \in BOOLEAN
      /\ rpc' \in [Tasks -> RouteType]
      /\ answer' \in [Tasks -> BrokerAddress \cup {NoAddr}]
      /\ createAttempts' \in [Tasks -> Nat]
  BY CreateErrorMoves
<1>2. LocalsTyped
  BY <1>1 DEF LocalsTyped, IndInv, TypeOK, TaskTypeOK
<1>3. ObjectTypeOK' /\ GoodProducers'
  BY <1>1 DEF IndInv, TypeOK, ObjectTypeOK, GoodProducers
<1>4. tries' \in [Msgs -> Nat] /\ net' \in SUBSET RequestType
  BY DEF IndInv, TypeOK, CallTypeOK, MessageTypeOK
<1> QED
  BY <1>1, <1>2, <1>3, <1>4, TaskStepInv

\* The fault counter stays within its bound.
LEMMA FaultTyped == IndInv /\ Fault => faults' \in 0 .. MaxFaults
BY ClusterAssumption DEF Fault, IndInv, TypeOK, ClusterTypeOK

\* The broker has registered the producer but the answer is lost.
LEMMA CreateLostInv ==
    ASSUME IndInv, NEW t \in Tasks, CreateLost(t)
    PROVE  IndInv'
<1>1. pc[t] \in Working
  BY DEF CreateLost, Working
<1>2. PartOf(t) \in Parts
  BY <1>1, WorkingTask
<1>3. ClusterTypeOK'
  BY <1>2, RegisterTyped, FaultTyped DEF CreateLost, IndInv, TypeOK, ClusterTypeOK
<1> QED
  BY <1>1, <1>3, CreateErrorInv DEF CreateLost

\* CreateProducer is refused.
LEMMA CreateRefusedInv ==
    ASSUME IndInv, NEW t \in Tasks, CreateRefused(t)
    PROVE  IndInv'
<1>1. pc[t] \in Working
  BY DEF CreateRefused, Working
<1>2. faults' \in 0 .. MaxFaults
  BY FaultTyped DEF CreateRefused, IndInv, TypeOK, ClusterTypeOK
<1>3. ClusterTypeOK'
  BY <1>2 DEF CreateRefused, IndInv, TypeOK, ClusterTypeOK
<1>4. \E code : CreateError(t, code)
  BY DEF CreateRefused
<1> QED
  BY <1>1, <1>3, <1>4, CreateErrorInv DEF CreateRefused

\* The schema lookup fails after the producer was registered.
LEMMA SchemaFailsInv ==
    ASSUME IndInv, NEW t \in Tasks, SchemaFails(t)
    PROVE  IndInv'
<1>1. pc[t] \in Working
  BY DEF SchemaFails, Working
<1>2. faults' \in 0 .. MaxFaults
  BY FaultTyped DEF SchemaFails, IndInv, TypeOK, ClusterTypeOK
<1>3. ClusterTypeOK'
  BY <1>2 DEF SchemaFails, IndInv, TypeOK, ClusterTypeOK
<1>4. \E code : CreateError(t, code)
  BY DEF SchemaFails
<1> QED
  BY <1>1, <1>3, <1>4, CreateErrorInv DEF SchemaFails

\* The schema lookup succeeds.
LEMMA SchemaResolvedInv ==
    ASSUME IndInv, NEW t \in Tasks, SchemaResolved(t)
    PROVE  IndInv'
<1>1. pc[t] \in Working
  BY DEF SchemaResolved, Working
<1>2. UNCHANGED <<clusterVars, tp, health, closed, last, rpc, answer,
                  createAttempts, sent, key, partition, result, log>>
  BY DEF SchemaResolved
<1>3. /\ Moves(t)
      /\ locked' \in BOOLEAN
      /\ created' \in BOOLEAN
      /\ created' => created \/ \A x \in Parts : pc'[x] = "done"
      /\ attempts' \in [Senders -> Nat]
      /\ tries' \in [Msgs -> Nat]
      /\ net' \in SUBSET RequestType
      /\ \A r \in net' : r \in net \/ partition[r.msg] = r.part
  BY <1>1, <1>2, WorkingTask, CreateReturnsMoves DEF SchemaResolved
<1>4. LocalsTyped
  BY <1>2, <1>3 DEF LocalsTyped, IndInv, TypeOK, TaskTypeOK
<1>5. (ClusterTypeOK /\ ObjectTypeOK /\ GoodProducers)'
  BY <1>2, <1>3 DEF IndInv, TypeOK, ClusterTypeOK, ObjectTypeOK, GoodProducers, clusterVars
<1> QED
  BY <1>1, <1>2, <1>3, <1>4, <1>5, TaskStepInv

\* The sleep in TopicProducer.create ends.
LEMMA WakeCreateInv ==
    ASSUME IndInv, NEW t \in Tasks, WakeCreate(t)
    PROVE  IndInv'
<1>1. pc[t] \in Working
  BY DEF WakeCreate, Working
<1>2. UNCHANGED <<clusterVars, health, created, locked, closed, last, attempts,
                  createAttempts, callVars, net, log>>
  BY DEF WakeCreate
<1>3. /\ pc' = [pc EXCEPT ![t] = "creating"]
      /\ rpc' \in [Tasks -> RouteType]
      /\ answer' \in [Tasks -> BrokerAddress \cup {NoAddr}]
      /\ tp' \in [Parts -> TopicProducerType]
      /\ GoodProducers'
  BY <1>1, WorkingTask, StartCreateProducerMoves DEF WakeCreate
<1>4. Moves(t)
  BY <1>2, <1>3 DEF Moves, PCs, callVars
<1>5. LocalsTyped
  BY <1>2, <1>3 DEF LocalsTyped, IndInv, TypeOK, TaskTypeOK
<1>6. ClusterTypeOK' /\ ObjectTypeOK'
  BY <1>2, <1>3 DEF IndInv, TypeOK, ClusterTypeOK, ObjectTypeOK, clusterVars
<1>7. tries' \in [Msgs -> Nat] /\ net' \in SUBSET RequestType
  BY <1>2 DEF IndInv, TypeOK, CallTypeOK, MessageTypeOK, callVars
<1> QED
  BY <1>1, <1>2, <1>3, <1>4, <1>5, <1>6, <1>7, TaskStepInv DEF callVars

\* A broker stores a message: the one step that appends to a log and lets a
\* call return.
LEMMA StoreMessageInv ==
    ASSUME IndInv, NEW r \in net, StoreMessage(r)
    PROVE  IndInv'
<1> DEFINE t == r.msg[1]
<1>1. /\ log' = [log EXCEPT ![r.part] = Append(@, r.msg)]
      /\ net' = net \ {r}
      /\ UNCHANGED <<clusterVars, objectVars, rpc, answer, attempts,
                     createAttempts, sent, key, partition, tries>>
  BY DEF StoreMessage
<1>2. r.msg \in Msgs /\ r.part \in Parts /\ t \in Senders /\ t \in Tasks /\ t \notin Parts
  BY ProducerAssumption DEF IndInv, TypeOK, MessageTypeOK, RequestType, Msgs, Tasks
<1>3. partition[r.msg] = r.part
  BY DEF IndInv, Delivery, RequestsRouted
<1>4. \/ /\ r.msg = Cur(t)
         /\ pc' = [pc EXCEPT ![t] = "idle"]
         /\ result' = [result EXCEPT ![r.msg] = "ok"]
      \/ UNCHANGED <<pc, result>>
  BY DEF StoreMessage, Awaits, EndCall
<1>5. (ClusterTypeOK /\ ObjectTypeOK /\ GoodProducers)'
  BY <1>1 DEF IndInv, TypeOK, ClusterTypeOK, ObjectTypeOK, GoodProducers, clusterVars, objectVars
<1>6. /\ pc' \in [Tasks -> PCs]
      /\ result' \in [Msgs -> {"new", "pending", "ok", "raised"}]
  BY <1>2, <1>4 DEF IndInv, TypeOK, TaskTypeOK, CallTypeOK, PCs
<1>7. TaskTypeOK' /\ CallTypeOK'
  BY <1>1, <1>6 DEF IndInv, TypeOK, TaskTypeOK, CallTypeOK
<1>8. log' \in [Parts -> Seq(Msgs)]
  BY <1>1, <1>2 DEF IndInv, TypeOK, MessageTypeOK
<1>9. MessageTypeOK'
  BY <1>1, <1>8 DEF IndInv, TypeOK, MessageTypeOK
<1>10. TaskStates' /\ CallsUnderWay'
  <2>1. \/ pc' = [pc EXCEPT ![t] = "idle"]
        \/ pc' = pc
    BY <1>4
  <2>2. pc \in [Tasks -> PCs] /\ created' = created /\ UNCHANGED <<sent, partition>>
    BY <1>1 DEF IndInv, TypeOK, TaskTypeOK, objectVars
  <2>3. TaskStates'
    BY <1>2, <2>1, <2>2, ProducerAssumption DEF IndInv, TaskStates, Tasks
  <2>4. CallsUnderWay'
    BY <2>1, <2>2, ProducerAssumption DEF IndInv, CallsUnderWay, Busy, Cur, Tasks
  <2> QED
    BY <2>3, <2>4
<1>11. RequestsRouted' /\ PartitionsOfCalls' /\ KeysRouted'
  BY <1>1 DEF IndInv, Delivery, RequestsRouted, PartitionsOfCalls, KeysRouted
<1>12. ASSUME NEW p \in Parts
       PROVE  /\ log[p] \in Seq(Msgs)
              /\ p # r.part => log'[p] = log[p]
              /\ p = r.part => log'[p] = Append(log[p], r.msg)
  BY <1>1 DEF IndInv, TypeOK, MessageTypeOK
<1>13. OnePartitionPerMessage'
  <2>1. SUFFICES ASSUME NEW p \in Parts, NEW i \in DOMAIN log'[p]
                 PROVE  partition[log'[p][i]] = p
    BY <1>1 DEF OnePartitionPerMessage
  <2>2. CASE p # r.part
    BY <1>12, <2>2 DEF IndInv, Delivery, OnePartitionPerMessage
  <2>3. CASE p = r.part
    <3>1. \/ i \in DOMAIN log[p] /\ log'[p][i] = log[p][i]
          \/ log'[p][i] = r.msg
      BY <1>2, <1>12, <2>3
    <3> QED
      BY <1>3, <2>3, <3>1 DEF IndInv, Delivery, OnePartitionPerMessage
  <2> QED
    BY <2>2, <2>3
<1>14. AckedIsStored'
  <2>1. SUFFICES ASSUME NEW m \in Msgs, result'[m] = "ok"
                 PROVE  \E i \in DOMAIN log'[partition[m]] : log'[partition[m]][i] = m
    BY <1>1 DEF AckedIsStored
  <2>2. CASE m = r.msg
    <3>1. log'[r.part] = Append(log[r.part], r.msg) /\ log[r.part] \in Seq(Msgs)
      BY <1>2, <1>12
    <3>2. Len(log[r.part]) + 1 \in DOMAIN log'[r.part]
      BY <1>2, <3>1
    <3>3. log'[r.part][Len(log[r.part]) + 1] = r.msg
      BY <1>2, <3>1
    <3> QED
      BY <1>3, <2>2, <3>2, <3>3
  <2>3. CASE m # r.msg
    <3>1. result[m] = "ok"
      BY <1>2, <1>4, <2>1, <2>3 DEF IndInv, TypeOK, CallTypeOK
    <3>2. PICK i \in DOMAIN log[partition[m]] : log[partition[m]][i] = m
      BY <3>1 DEF IndInv, Delivery, AckedIsStored
    <3>3. CASE partition[m] \in Parts
      <4>1. i \in DOMAIN log'[partition[m]] /\ log'[partition[m]][i] = m
        <5>1. /\ log[partition[m]] \in Seq(Msgs)
              /\ \/ log'[partition[m]] = log[partition[m]]
                 \/ log'[partition[m]] = Append(log[partition[m]], r.msg)
          BY <1>12, <3>3
        <5> QED
          BY <1>2, <3>2, <5>1
      <4> QED
        BY <4>1
    <3>4. CASE partition[m] \notin Parts
      <4>1. log'[partition[m]] = log[partition[m]]
        BY <1>1, <1>2, <3>4 DEF IndInv, TypeOK, MessageTypeOK
      <4> QED
        BY <3>2, <4>1
    <3> QED
      BY <3>3, <3>4
  <2> QED
    BY <2>2, <2>3
<1> QED
  BY <1>5, <1>7, <1>9, <1>10, <1>11, <1>13, <1>14 DEF IndInv, TypeOK, Delivery

\* A SendMessage request that fails, without effect on objects and logs.
LEMMA SendErrorInv ==
    ASSUME IndInv, NEW t \in Senders, pc[t] = "sending", NEW code, SendError(t, code),
           ClusterTypeOK', net' \subseteq net,
           UNCHANGED <<objectVars, createAttempts, sent, key, partition, tries, log>>
    PROVE  IndInv'
<1>1. t \in Tasks /\ pc[t] \in Working
  BY DEF Tasks, Working
<1>2. /\ Moves(t)
      /\ rpc' \in [Tasks -> RouteType]
      /\ answer' \in [Tasks -> BrokerAddress \cup {NoAddr}]
      /\ attempts' \in [Senders -> Nat]
  BY SendErrorMoves
<1>3. LocalsTyped
  BY <1>2 DEF LocalsTyped, IndInv, TypeOK, TaskTypeOK
<1>4. ObjectTypeOK' /\ GoodProducers'
  BY DEF IndInv, TypeOK, ObjectTypeOK, GoodProducers, objectVars
<1>5. tries' \in [Msgs -> Nat] /\ net' \in SUBSET RequestType
  BY DEF IndInv, TypeOK, CallTypeOK, MessageTypeOK
<1> QED
  BY <1>1, <1>2, <1>3, <1>4, <1>5, TaskStepInv DEF objectVars

\* A broker, or the channel, turns a SendMessage request down.
LEMMA RejectMessageInv ==
    ASSUME IndInv, NEW r \in net, RejectMessage(r)
    PROVE  IndInv'
<1>1. /\ net' = net \ {r}
      /\ UNCHANGED <<clusterVars, objectVars, createAttempts, sent, key, partition,
                     tries, log>>
  BY DEF RejectMessage
<1>2. r.msg[1] \in Senders
  BY DEF IndInv, TypeOK, MessageTypeOK, RequestType, Msgs
<1>3. ClusterTypeOK'
  BY <1>1 DEF IndInv, TypeOK, ClusterTypeOK, clusterVars
<1>4. ASSUME NEW code, Awaits(r.msg[1], r), SendError(r.msg[1], code) PROVE IndInv'
  BY <1>1, <1>2, <1>3, <1>4, SendErrorInv DEF Awaits
<1>5. ASSUME UNCHANGED <<pc, result, attempts, rpc, answer>> PROVE IndInv'
  <2>1. (ObjectTypeOK /\ TaskTypeOK /\ CallTypeOK /\ MessageTypeOK)'
    BY <1>1, <1>5 DEF IndInv, TypeOK, ObjectTypeOK, TaskTypeOK, CallTypeOK, MessageTypeOK,
       objectVars
  <2>2. GoodProducers' /\ TaskStates' /\ CallsUnderWay'
    BY <1>1, <1>5 DEF IndInv, GoodProducers, TaskStates, CallsUnderWay, Busy, Cur, objectVars
  <2>3. Delivery'
    BY <1>1, <1>5, DeliveryKept
  <2> QED
    BY <1>3, <2>1, <2>2, <2>3 DEF IndInv, TypeOK
<1> QED
  BY <1>4, <1>5 DEF RejectMessage

\* A SendMessage RPC fails at the client while its request is on its way.
LEMMA SendFaultInv ==
    ASSUME IndInv, NEW t \in Senders, SendFault(t)
    PROVE  IndInv'
<1>1. ClusterTypeOK'
  BY FaultTyped DEF SendFault, IndInv, TypeOK, ClusterTypeOK
<1> QED
  BY <1>1, SendErrorInv DEF SendFault

\* The sleep in Producer.send ends: the same message, the same partition.
LEMMA WakeSendInv ==
    ASSUME IndInv, NEW t \in Tasks, WakeSend(t)
    PROVE  IndInv'
<1>1. pc[t] \in Working /\ t \in Senders /\ t \notin Parts
  BY ProducerAssumption DEF WakeSend, Working, IndInv, TaskStates, Tasks
<1>2. UNCHANGED <<clusterVars, objectVars, rpc, answer, attempts,
                  createAttempts, sent, key, partition, result, log>>
  BY DEF WakeSend
<1>3. /\ pc' = [pc EXCEPT ![t] = "sending"]
      /\ tries' \in [Msgs -> Nat]
      /\ net' \in SUBSET RequestType
      /\ \A r \in net' : r \in net \/ (r.msg = Cur(t) /\ r.part = PartOf(t))
  BY <1>1, WorkingTask, StartSendMessageMoves DEF WakeSend
<1>4. PartOf(t) = partition[Cur(t)]
  BY <1>1 DEF PartOf
<1>5. Moves(t)
  BY <1>1, <1>2, <1>3 DEF Moves, PCs
<1>6. LocalsTyped
  BY <1>2 DEF LocalsTyped, IndInv, TypeOK, TaskTypeOK
<1>7. (ClusterTypeOK /\ ObjectTypeOK /\ GoodProducers)'
  BY <1>2 DEF IndInv, TypeOK, ClusterTypeOK, ObjectTypeOK, GoodProducers, clusterVars, objectVars
<1> QED
  BY <1>1, <1>2, <1>3, <1>4, <1>5, <1>6, <1>7, TaskStepInv DEF objectVars

\* A health check ends, perhaps setting stop_event.
LEMMA HealthStepInv ==
    ASSUME IndInv, NEW p \in Parts, NEW h \in health[p], HealthStep(p, h)
    PROVE  IndInv'
<1>1. /\ health' = [health EXCEPT ![p] = @ \ {h}]
      /\ UNCHANGED <<alive, owner, sess, nextId, created, locked, closed, last, pc, rpc, answer,
                     attempts, createAttempts, callVars, net, log>>
  BY DEF HealthStep, HealthClose, HealthFails, HealthStops, EndHealthTask, clusterVars
<1>2. faults' \in 0 .. MaxFaults
  BY FaultTyped DEF HealthStep, HealthClose, HealthFails, HealthStops, RpcFault, IndInv, TypeOK,
     ClusterTypeOK, clusterVars
<1>3. tp' = tp \/ tp' = [tp EXCEPT ![p].stop_event = TRUE]
  BY DEF HealthStep, HealthClose, HealthFails, HealthStops
<1>4. tp' \in [Parts -> TopicProducerType] /\ GoodProducers'
  <2>1. GoodProducer([tp[p] EXCEPT !.stop_event = TRUE])
    BY DEF GoodProducer, TopicProducerType, IndInv, GoodProducers
  <2>2. tp \in [Parts -> TopicProducerType]
    BY DEF IndInv, TypeOK, ObjectTypeOK
  <2>3. tp' = tp \/ tp' = [tp EXCEPT ![p] = [tp[p] EXCEPT !.stop_event = TRUE]]
    BY <1>3
  <2> QED
    BY <2>1, <2>2, <2>3 DEF IndInv, GoodProducers, GoodProducer
<1>5. health' \in [Parts -> SUBSET [id : Nat, route : RouteType]]
  BY <1>1 DEF IndInv, TypeOK, ObjectTypeOK
<1>6. ClusterTypeOK' /\ ObjectTypeOK'
  BY <1>1, <1>2, <1>4, <1>5 DEF IndInv, TypeOK, ClusterTypeOK, ObjectTypeOK
<1>7. (TaskTypeOK /\ CallTypeOK /\ MessageTypeOK)'
  BY <1>1 DEF IndInv, TypeOK, TaskTypeOK, CallTypeOK, MessageTypeOK, callVars
<1>8. TaskStates' /\ CallsUnderWay'
  BY <1>1 DEF IndInv, TaskStates, CallsUnderWay, Busy, Cur, callVars
<1>9. Delivery'
  BY <1>1, DeliveryKept DEF callVars
<1> QED
  BY <1>4, <1>6, <1>7, <1>8, <1>9 DEF IndInv, TypeOK

-----------------------------------------------------------------------------
(***************************************************************************)
(* The theorems.                                                           *)
(***************************************************************************)

\* Every step preserves the inductive invariant.
LEMMA StepInv == IndInv /\ [Next]_vars => IndInv'
<1> SUFFICES ASSUME IndInv, [Next]_vars PROVE IndInv'
  OBVIOUS
<1>1. CASE UNCHANGED vars
  <2>1. (ClusterTypeOK /\ ObjectTypeOK /\ TaskTypeOK /\ CallTypeOK /\ MessageTypeOK)'
    BY <1>1 DEF IndInv, TypeOK, ClusterTypeOK, ObjectTypeOK, TaskTypeOK, CallTypeOK,
       MessageTypeOK, vars, clusterVars, objectVars, callVars
  <2>2. GoodProducers' /\ TaskStates' /\ CallsUnderWay'
    BY <1>1 DEF IndInv, GoodProducers, TaskStates, CallsUnderWay, Busy, Cur,
       vars, objectVars, callVars
  <2>3. Delivery'
    BY <1>1, DeliveryKept DEF vars, callVars
  <2> QED
    BY <2>1, <2>2, <2>3 DEF IndInv, TypeOK
<1>2. ASSUME NEW t \in Tasks, TaskStep(t) \/ CreateLost(t) \/ SchemaFails(t) PROVE IndInv'
  BY <1>2, ServeLookupInv, LookupReturnsInv, LookupFailsInv, CreateAcceptedInv, CreateLostInv,
     CreateRefusedInv, SchemaResolvedInv, SchemaFailsInv, WakeCreateInv, WakeSendInv DEF TaskStep
<1>3. ASSUME NEW r \in net, Answer(r) PROVE IndInv'
  BY <1>3, StoreMessageInv, RejectMessageInv DEF Answer
<1> QED
  BY <1>1, <1>2, <1>3, CreateInv, SendInv, SendWithKeyInv, CloseInv, SendFaultInv, HealthStepInv,
     EnvironmentInv DEF Next

\* What the theorems below rest on holds in every reachable state: objects point
\* where their last lookup said, tasks wait where their kind can wait, requests on
\* their way go to the partition of their call.
THEOREM ProducerIndInv == Spec => []IndInv
BY InitInv, StepInv, PTL DEF Spec

\* Every reachable state of the producer has the types of TypeOK.
THEOREM ProducerTypeOK == Spec => []TypeOK
<1>1. IndInv => TypeOK
  BY DEF IndInv
<1> QED
  BY InitInv, StepInv, <1>1, PTL DEF Spec

\* A send() or send_with_key() call that returned has its message in the log of
\* the partition it had selected, for any number of brokers, tasks, partitions
\* and faults.
THEOREM ProducerAckedIsStored == Spec => []AckedIsStored
<1>1. IndInv => AckedIsStored
  BY DEF IndInv, Delivery
<1> QED
  BY InitInv, StepInv, <1>1, PTL DEF Spec

\* The copies that retries leave behind are all in the partition that the call
\* has selected before its retry loop.
THEOREM ProducerOnePartition == Spec => []OnePartitionPerMessage
<1>1. IndInv => OnePartitionPerMessage
  BY DEF IndInv, Delivery
<1> QED
  BY InitInv, StepInv, <1>1, PTL DEF Spec

\* Messages with one routing key share one partition's log, whoever sends them.
THEOREM ProducerKeyStaysInPartition == Spec => []KeyStaysInPartition
<1>1. IndInv => KeyStaysInPartition
  <2> SUFFICES ASSUME IndInv, NEW p \in Parts, NEW q \in Parts,
                      NEW i \in DOMAIN log[p], NEW j \in DOMAIN log[q],
                      key[log[p][i]] = key[log[q][j]], key[log[p][i]] # NoKey
               PROVE  p = q
    BY DEF KeyStaysInPartition
  <2>1. log[p][i] \in Msgs /\ log[q][j] \in Msgs
    BY DEF IndInv, TypeOK, MessageTypeOK
  <2>2. partition[log[p][i]] = p /\ partition[log[q][j]] = q
    BY DEF IndInv, Delivery, OnePartitionPerMessage
  <2> QED
    BY <2>1, <2>2, ProducerAssumption DEF IndInv, Delivery, KeysRouted
<1> QED
  BY InitInv, StepInv, <1>1, PTL DEF Spec

-----------------------------------------------------------------------------
(***************************************************************************)
(* close(). A health check ends on its own only if it finds stop_event     *)
(* set, so what matters is that close() sets it for every object and that  *)
(* nothing clears it. There are objects to stop only once create() has     *)
(* succeeded; that it does not succeed after a close() that found none is  *)
(* CreateEnded.                                                            *)
(***************************************************************************)

\* What every step does but the calls of create() and close().
Onward ==
    /\ \A p \in Parts : tp[p].stop_event => tp'[p].stop_event
    /\ \A p \in Parts : pc[p] = "failed" => pc'[p] = "failed"
    /\ CreateCalled' <=> CreateCalled
    /\ closed' = closed
    /\ created => created'
    /\ created' => created \/ \A p \in Parts : pc'[p] = "done"
    /\ ~ locked' => ~ locked \/ created' \/ \E p \in Parts : pc'[p] = "failed"

\* stop_event is not among the fields that _connect, a lookup or a new session
\* assign.
LEMMA StopEventKept ==
    ASSUME NEW q \in TopicProducerType
    PROVE  /\ Connect(q).stop_event <=> q.stop_event
           /\ \A a : SetAddress(q, a).stop_event <=> q.stop_event
           /\ \A a : Connect(SetAddress(q, a)).stop_event <=> q.stop_event
           /\ \A id : Created(q, id).stop_event <=> q.stop_event
BY DEF Connect, SetAddress, Created, TopicProducerType

\* An object that replaces another one and has its stop_event.
LEMMA TpKept ==
    ASSUME IndInv, NEW p \in Parts, NEW q, q.stop_event <=> tp[p].stop_event,
           tp' = [tp EXCEPT ![p] = q]
    PROVE  \A r \in Parts : tp[r].stop_event => tp'[r].stop_event
<1>1. tp'[p] = q /\ \A r \in Parts \ {p} : tp'[r] = tp[r]
  BY DEF IndInv, TypeOK, ObjectTypeOK
<1> QED
  BY <1>1

\* A task that moves on leaves creators that have failed, or not begun, alone.
LEMMA MovesOnward ==
    ASSUME IndInv, NEW t \in Tasks, pc[t] \in Working, Moves(t)
    PROVE  /\ \A p \in Parts : pc[p] = "failed" => pc'[p] = "failed"
           /\ CreateCalled' <=> CreateCalled
<1>1. PICK s \in PCs : pc' = [pc EXCEPT ![t] = s] /\ (t \in Parts => s # "new")
  BY DEF Moves
<1>2. pc \in [Tasks -> PCs] /\ Parts \subseteq Tasks
  BY DEF IndInv, TypeOK, TaskTypeOK, Tasks
<1>3. \A p \in Parts : p # t => pc'[p] = pc[p]
  BY <1>1, <1>2
<1>4. t \in Parts => pc'[t] # "new" /\ pc[t] # "new" /\ pc[t] # "failed"
  BY <1>1, <1>2 DEF Working
<1> QED
  BY <1>3, <1>4 DEF CreateCalled

\* Steps after which creators, the lock and the objects are what they were.
LEMMA SameOnward ==
    ASSUME UNCHANGED <<closed, created, locked>>,
           \A p \in Parts : pc'[p] = pc[p],
           \A p \in Parts : tp[p].stop_event => tp'[p].stop_event
    PROVE  Onward
BY DEF Onward, CreateCalled

\* Steps of a task that change neither what create() has reached nor the lock.
LEMMA TaskOnward ==
    ASSUME IndInv, NEW t \in Tasks, pc[t] \in Working, Moves(t),
           UNCHANGED <<closed, created, locked>>,
           \A p \in Parts : tp[p].stop_event => tp'[p].stop_event
    PROVE  Onward
BY MovesOnward DEF Onward

\* An exception that leaves TopicProducer.create releases the lock of create()
\* only together with a creator that has failed.
LEMMA CreateErrorOnward ==
    ASSUME IndInv, NEW t \in Tasks, pc[t] \in Working, NEW code, CreateError(t, code),
           UNCHANGED <<tp, closed, created>>
    PROVE  Onward
<1>1. Moves(t)
  BY CreateErrorMoves
<1>2. ~ locked' => ~ locked \/ \E p \in Parts : pc'[p] = "failed"
  <2>1. locked' = locked \/ (t \in Parts /\ pc' = [pc EXCEPT ![t] = "failed"])
    BY DEF CreateError, CreateRaises
  <2>2. pc \in [Tasks -> PCs]
    BY DEF IndInv, TypeOK, TaskTypeOK
  <2> QED
    BY <2>1, <2>2
<1> QED
  BY <1>1, <1>2, MovesOnward DEF Onward

\* TopicProducer.create returns.
LEMMA CreateReturnsOnward ==
    ASSUME IndInv, NEW t \in Tasks, pc[t] \in Working, NEW q, GoodProducer(q),
           CreateReturns(t, q), UNCHANGED <<partition, sent, result, closed>>,
           \A p \in Parts : tp[p].stop_event => tp'[p].stop_event
    PROVE  Onward
<1>1. Moves(t)
  BY CreateReturnsMoves
<1>2. CASE t \in Parts
  <2>1. ~ created
    BY <1>2, WorkingTask
  <2>2. /\ created' <=> \A p \in Parts : pc'[p] = "done"
        /\ locked' <=> locked /\ ~ created'
    BY <1>2, ProducerAssumption DEF CreateReturns
  <2> QED
    BY <1>1, <2>1, <2>2, MovesOnward DEF Onward
<1>3. CASE t \in Senders
  <2>1. UNCHANGED <<created, locked>>
    BY <1>3, ProducerAssumption DEF CreateReturns
  <2> QED
    BY <1>1, <2>1, TaskOnward
<1> QED
  BY <1>2, <1>3 DEF Tasks

\* Whatever a task does by itself.
LEMMA TaskStepOnward ==
    ASSUME IndInv, NEW t \in Tasks, TaskStep(t) \/ CreateLost(t) \/ SchemaFails(t)
    PROVE  Onward
<1>1. CASE ServeLookup(t)
  BY <1>1, SameOnward DEF ServeLookup, objectVars
<1>2. CASE LookupReturns(t)
  <2> DEFINE q == SetAddress(tp[PartOf(t)], answer[t])
  <2>1. /\ pc[t] \in Working /\ answer[t] \in BrokerAddress
        /\ UNCHANGED <<closed, created, locked, result>>
    BY <1>2 DEF LookupReturns, InLookup, Working, IndInv, TypeOK, TaskTypeOK, callVars
  <2>2. /\ PartOf(t) \in Parts /\ tp[PartOf(t)] \in TopicProducerType
        /\ GoodProducer(q)
    BY <2>1, WorkingTask, SetAddressGood DEF GoodProducer
  <2>3. /\ q.stop_event <=> tp[PartOf(t)].stop_event
        /\ Connect(q).stop_event <=> tp[PartOf(t)].stop_event
    BY <2>2, StopEventKept
  <2>4. tp' = [tp EXCEPT ![PartOf(t)] = q] \/ tp' = [tp EXCEPT ![PartOf(t)] = Connect(q)]
    BY <1>2 DEF LookupReturns, AfterCreateLookup, StartCreateProducer
  <2>5. \A p \in Parts : tp[p].stop_event => tp'[p].stop_event
    BY <2>2, <2>3, <2>4, TpKept
  <2>6. Moves(t)
    <3>1. CASE AfterCreateLookup(t, q)
      BY <2>1, <2>2, <3>1, AfterCreateLookupMoves
    <3>2. CASE pc' = [pc EXCEPT ![t] = "lookup"]
      BY <2>1, <3>2 DEF Moves, PCs
    <3> QED
      BY <1>2, <3>1, <3>2 DEF LookupReturns, StartLookup
  <2> QED
    BY <2>1, <2>5, <2>6, TaskOnward
<1>3. CASE LookupFails(t)
  <2>1. pc[t] \in Working /\ UNCHANGED <<closed, created, locked>>
    BY <1>3 DEF LookupFails, InLookup, Working
  <2>2. /\ PartOf(t) \in Parts /\ tp[PartOf(t)] \in TopicProducerType
        /\ GoodProducer(tp[PartOf(t)])
    BY <2>1, WorkingTask DEF GoodProducer
  <2>3. CASE AfterCreateLookup(t, tp[PartOf(t)]) /\ UNCHANGED result
    <3>1. \/ tp' = [tp EXCEPT ![PartOf(t)] = tp[PartOf(t)]]
          \/ tp' = [tp EXCEPT ![PartOf(t)] = Connect(tp[PartOf(t)])]
      BY <2>3 DEF AfterCreateLookup, StartCreateProducer
    <3>2. \A p \in Parts : tp[p].stop_event => tp'[p].stop_event
      BY <2>2, <3>1, StopEventKept, TpKept
    <3> QED
      BY <2>1, <2>2, <2>3, <3>2, AfterCreateLookupMoves, TaskOnward
  <2>4. CASE pc[t] = "relook" /\ EndCall(t, "raised") /\ UNCHANGED tp
    <3>1. t \in Senders /\ t \notin Parts
      BY <2>4, ProducerAssumption DEF IndInv, TaskStates, Tasks
    <3>2. Moves(t)
      BY <2>4, <3>1 DEF EndCall, Moves, PCs
    <3> QED
      BY <2>1, <2>4, <3>2, TaskOnward
  <2> QED
    BY <1>3, <2>3, <2>4 DEF LookupFails
<1>4. CASE CreateAccepted(t)
  <2> DEFINE q == Created(tp[PartOf(t)], nextId)
  <2>1. pc[t] \in Working /\ UNCHANGED <<closed, sent, partition, result>>
    BY <1>4 DEF CreateAccepted, Working
  <2>2. /\ PartOf(t) \in Parts /\ tp[PartOf(t)] \in TopicProducerType
        /\ GoodProducer(q)
    BY <2>1, WorkingTask, CreatedGood DEF GoodProducer, IndInv, TypeOK, ClusterTypeOK
  <2>3. tp' = [tp EXCEPT ![PartOf(t)] = q]
    BY <1>4 DEF CreateAccepted
  <2>4. \A p \in Parts : tp[p].stop_event => tp'[p].stop_event
    BY <2>2, <2>3, StopEventKept, TpKept
  <2>5. CASE pc' = [pc EXCEPT ![t] = "schema"] /\ UNCHANGED <<created, locked>>
    <3>1. Moves(t)
      BY <2>1, <2>5 DEF Moves, PCs
    <3> QED
      BY <2>1, <2>4, <2>5, <3>1, TaskOnward
  <2>6. CASE CreateReturns(t, q)
    BY <2>1, <2>2, <2>4, <2>6, CreateReturnsOnward
  <2> QED
    BY <1>4, <2>5, <2>6 DEF CreateAccepted
<1>5. CASE SchemaResolved(t)
  <2>1. /\ pc[t] \in Working
        /\ UNCHANGED <<tp, closed, sent, partition, result>>
        /\ CreateReturns(t, tp[PartOf(t)])
    BY <1>5 DEF SchemaResolved, Working
  <2>2. GoodProducer(tp[PartOf(t)])
    BY <2>1, WorkingTask
  <2> QED
    BY <2>1, <2>2, CreateReturnsOnward
<1>6. CASE CreateRefused(t) \/ CreateLost(t) \/ SchemaFails(t)
  <2>1. pc[t] \in Working /\ UNCHANGED <<tp, closed, created>>
    BY <1>6 DEF CreateRefused, CreateLost, SchemaFails, Working
  <2>2. \E code : CreateError(t, code)
    BY <1>6 DEF CreateRefused, CreateLost, SchemaFails
  <2> QED
    BY <2>1, <2>2, CreateErrorOnward
<1>7. CASE WakeCreate(t)
  <2>1. /\ pc[t] \in Working
        /\ UNCHANGED <<closed, created, locked, result>>
        /\ pc' = [pc EXCEPT ![t] = "creating"]
        /\ tp' = [tp EXCEPT ![PartOf(t)] = Connect(tp[PartOf(t)])]
    BY <1>7 DEF WakeCreate, StartCreateProducer, Working, callVars
  <2>2. PartOf(t) \in Parts /\ tp[PartOf(t)] \in TopicProducerType
    BY <2>1, WorkingTask DEF GoodProducer
  <2>3. \A p \in Parts : tp[p].stop_event => tp'[p].stop_event
    BY <2>1, <2>2, StopEventKept, TpKept
  <2>4. Moves(t)
    BY <2>1 DEF Moves, PCs
  <2> QED
    BY <2>1, <2>3, <2>4, TaskOnward
<1>8. CASE WakeSend(t)
  <2>1. /\ pc[t] = "backoff"
        /\ UNCHANGED <<tp, closed, created, locked, result>>
        /\ pc' = [pc EXCEPT ![t] = "sending"]
    BY <1>8 DEF WakeSend, StartSendMessage, objectVars
  <2>2. pc[t] \in Working /\ t \notin Parts
    BY <2>1 DEF Working, IndInv, TaskStates
  <2>3. Moves(t)
    BY <2>1, <2>2 DEF Moves, PCs
  <2> QED
    BY <2>1, <2>2, <2>3, TaskOnward
<1> QED
  BY <1>1, <1>2, <1>3, <1>4, <1>5, <1>6, <1>7, <1>8 DEF TaskStep

\* All steps but the calls of create() and close() go onward.
LEMMA StepOnward ==
    ASSUME IndInv, [Next]_vars
    PROVE  Onward \/ Create \/ Close
<1>0. /\ pc \in [Tasks -> PCs] /\ Parts \cap Senders = {} /\ Tasks = Parts \cup Senders
      /\ \A r \in net : r.msg[1] \in Senders
  BY ProducerAssumption DEF IndInv, TypeOK, TaskTypeOK, MessageTypeOK, RequestType, Msgs, Tasks
<1>1. CASE UNCHANGED vars
  BY <1>1, SameOnward DEF vars, objectVars
<1>2. ASSUME NEW t \in Senders, Send(t) \/ \E k \in Keys : SendWithKey(t, k) PROVE Onward
  <2>1. \E k, p : CallSend(t, k, p)
    BY <1>2 DEF Send, SendWithKey
  <2>2. pc' = pc \/ pc' = [pc EXCEPT ![t] = "sending"]
    BY <2>1 DEF CallSend, StartSendMessage
  <2>3. \A p \in Parts : pc'[p] = pc[p]
    BY <1>0, <2>2
  <2> QED
    BY <2>1, <2>3, SameOnward DEF CallSend
<1>3. ASSUME NEW t \in Senders, SendFault(t) PROVE Onward
  <2>1. pc[t] \in Working /\ Moves(t) /\ t \in Tasks
    BY <1>0, <1>3, SendErrorMoves DEF SendFault, Working
  <2> QED
    BY <1>3, <2>1, TaskOnward DEF SendFault, objectVars
<1>4. ASSUME NEW r \in net, StoreMessage(r) PROVE Onward
  <2>1. pc' = pc \/ pc' = [pc EXCEPT ![r.msg[1]] = "idle"]
    BY <1>4 DEF StoreMessage, EndCall
  <2>2. \A p \in Parts : pc'[p] = pc[p]
    BY <1>0, <2>1
  <2> QED
    BY <1>4, <2>2, SameOnward DEF StoreMessage, objectVars
<1>5. ASSUME NEW r \in net, RejectMessage(r) PROVE Onward
  <2>1. UNCHANGED <<tp, closed, created, locked>>
    BY <1>5 DEF RejectMessage, objectVars
  <2>2. CASE UNCHANGED pc
    BY <2>1, <2>2, SameOnward
  <2>3. ASSUME NEW code, Awaits(r.msg[1], r), SendError(r.msg[1], code) PROVE Onward
    <3>1. pc[r.msg[1]] = "sending" /\ r.msg[1] \in Senders /\ r.msg[1] \in Tasks
      BY <1>0, <2>3 DEF Awaits
    <3>2. pc[r.msg[1]] \in Working /\ Moves(r.msg[1])
      BY <2>3, <3>1, SendErrorMoves DEF Working
    <3> QED
      BY <2>1, <3>1, <3>2, TaskOnward
  <2>4. \/ UNCHANGED pc
        \/ \E code : Awaits(r.msg[1], r) /\ SendError(r.msg[1], code)
    BY <1>5 DEF RejectMessage
  <2> QED
    BY <2>2, <2>3, <2>4
<1>6. ASSUME NEW p \in Parts, NEW h \in health[p], HealthStep(p, h) PROVE Onward
  <2>1. UNCHANGED <<pc, closed, created, locked>>
    BY <1>6 DEF HealthStep, HealthClose, HealthFails, HealthStops
  <2>2. tp' = tp \/ tp' = [tp EXCEPT ![p].stop_event = TRUE]
    BY <1>6 DEF HealthStep, HealthClose, HealthFails, HealthStops
  <2>3. \A q \in Parts : tp[q].stop_event => tp'[q].stop_event
    BY <2>2 DEF IndInv, TypeOK, ObjectTypeOK, TopicProducerType
  <2> QED
    BY <2>1, <2>3, SameOnward
<1>7. CASE Environment
  BY <1>7, SameOnward DEF Environment, objectVars
<1> QED
  BY <1>1, <1>2, <1>3, <1>4, <1>5, <1>6, <1>7, TaskStepOnward DEF Next, Answer

\* After a step onward: what is closed stays closed, with its events set.
LEMMA OnwardStops ==
    ASSUME IndInv, StoppedForGood, CreateEnded, Onward
    PROVE  StoppedForGood' /\ CreateEnded'
<1>1. StoppedForGood'
  <2> SUFFICES ASSUME closed', created', NEW p \in Parts
               PROVE  tp'[p].stop_event
    BY DEF StoppedForGood
  <2>1. CASE created
    BY <2>1 DEF Onward, StoppedForGood
  <2>2. CASE ~ created
    <3>1. \A q \in Parts : pc'[q] = "done"
      BY <2>2 DEF Onward
    <3>2. \E q \in Parts : pc[q] = "failed"
      BY <2>2 DEF Onward, CreateEnded
    <3> QED
      BY <3>1, <3>2 DEF Onward
  <2> QED
    BY <2>1, <2>2
<1>2. CreateEnded'
  BY DEF Onward, CreateEnded
<1> QED
  BY <1>1, <1>2

\* close() of a producer whose create() has ended: with all objects stopped, or
\* with none there and none to come.
LEMMA CloseStops ==
    ASSUME IndInv, CreateEnded, Close
    PROVE  StoppedForGood' /\ CreateEnded'
<1>1. CreateEnded'
  BY DEF Close, CreateEnded, CreateCalled
<1>2. StoppedForGood'
  <2> SUFFICES ASSUME created, NEW p \in Parts PROVE tp'[p].stop_event
    BY DEF Close, StoppedForGood
  <2>1. tp'[p] = Stop(tp[p]) /\ tp[p] \in TopicProducerType
    BY DEF Close, IndInv, TypeOK, ObjectTypeOK
  <2> QED
    BY <2>1 DEF Stop, TopicProducerType
<1> QED
  BY <1>1, <1>2

\* create() begins: nothing was closed before it, and it holds the lock.
LEMMA CreateBegins ==
    ASSUME IndInv, CreateEnded, Create
    PROVE  StoppedForGood' /\ CreateEnded'
<1>1. Parts # {}
  BY ProducerAssumption
<1>2. ~ closed /\ ~ closed' /\ locked'
  BY <1>1 DEF Create, CreateEnded, CreateCalled
<1> QED
  BY <1>2 DEF StoppedForGood, CreateEnded

\* Once close() of a created producer was called, every health check, also one
\* that a re-creation starts later, finds stop_event set when it wakes up.
THEOREM ProducerStoppedForGood == Spec => [](StoppedForGood /\ CreateEnded)
<1>1. Init => StoppedForGood /\ CreateEnded
  <2> SUFFICES ASSUME Init PROVE StoppedForGood /\ CreateEnded
    OBVIOUS
  <2>1. ~ closed /\ 0 \in Parts /\ pc[0] = "new"
    BY ProducerAssumption DEF Init, Tasks
  <2> QED
    BY <2>1 DEF StoppedForGood, CreateEnded, CreateCalled
<1>2. IndInv /\ (StoppedForGood /\ CreateEnded) /\ [Next]_vars => (StoppedForGood /\ CreateEnded)'
  BY StepOnward, OnwardStops, CloseStops, CreateBegins
<1> QED
  BY <1>1, <1>2, ProducerIndInv, PTL DEF Spec
=============================================================================
