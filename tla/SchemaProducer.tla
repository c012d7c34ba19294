--------------------------- MODULE SchemaProducer ---------------------------
(***************************************************************************)
(* A producer with a schema reference, from its ProducerBuilder            *)
(* (danube/producer.py:215) to the schema_version of the messages it       *)
(* sends: the part of danube/topic_producer.py that module Producer        *)
(* reduces to an outcome. CreateProducer is followed by one or two calls   *)
(* of the schema registry, while other applications register and delete    *)
(* versions and other tasks of this application re-create the same         *)
(* TopicProducer.                                                          *)
(*                                                                         *)
(* One partition. Module Producer has the addresses, the lookups that      *)
(* cannot fail a create(), health checks and requests that arrive late;    *)
(* none of them touches the schema, so they are left out. pc[t] says what  *)
(* task t awaits:                                                          *)
(*                                                                         *)
(*   idle            nothing: between two calls                            *)
(*   creating        the answer of CreateProducer                          *)
(*   latest          GetLatestSchema to be handled by the registry         *)
(*   latestAnswered  its answer, which is on the way                       *)
(*   version         GetSchema of the pinned version to be handled         *)
(*   versionAnswered its answer, which is on the way                       *)
(*   createBackoff   asyncio.sleep in the loop of TopicProducer.create     *)
(*   sending         the answer of SendMessage                             *)
(*   backoff         asyncio.sleep in the loop of Producer.send            *)
(***************************************************************************)
EXTENDS RetryManager, SchemaRegistry, Sequences

CONSTANTS Tasks,         \* application tasks that share the producer
          PinnedVersions, MinVersions,  \* arguments of the builder
          FaultCodes,    \* status codes an RPC may fail with for no reason
          RejectCodes,   \* status codes of a broker without the session
          MaxConfigure,  \* bound on with_schema_* calls
          MaxSends,      \* calls of send() per task
          MaxRetries,    \* ProducerOptions.max_retries
          MaxFaults      \* bound on lost sessions and failing RPCs

ASSUME SchemaProducerAssumption ==
    /\ PinnedVersions \subseteq Nat
    /\ MinVersions \subseteq Nat
    /\ MaxConfigure \in Nat /\ MaxSends \in Nat /\ MaxFaults \in Nat
    /\ MaxRetries \in Int

VARIABLES builder,     \* the ProducerBuilder
          configured,  \* number of with_schema_* calls
          ref,         \* TopicProducer.schema_ref
          built,       \* build() has returned a producer
          created,     \* create() has returned: self._producers is filled
          producer_id, schema_version,   \* fields of the TopicProducer
          session,     \* id of the producer's session at the broker, or 0
          nextId,      \* the next session id
          pc, answer, request,   \* of each task: place, registry answer, message
          attempts,    \* local variable of Producer.send
          createAttempts,        \* local variable of TopicProducer.create
          sent,        \* number of calls each task has made
          overlapped,  \* overlapped[t]: another create() ran beside that of t
          log,         \* schema versions of the stored messages
          faults       \* number of faults so far

builderVars == <<builder, configured, ref, built>>
brokerVars == <<session, nextId, log>>
objectVars == <<created, producer_id, schema_version>>
taskVars == <<pc, answer, request, attempts, createAttempts, sent, overlapped>>
vars == <<registryVars, builderVars, brokerVars, objectVars, taskVars, faults>>

Retries == Effective(MaxRetries, DEFAULT_MAX_RETRIES)

\* The branches of SchemaReference.version_ref. A reference that names a version
\* keeps it apart from an absent one: pinned_version = 0 is a legal request.
NoRef == [kind |-> "none", version |-> 0]
with_schema_subject == [kind |-> "use_latest", version |-> 0]
with_schema_version(v) == [kind |-> "pinned_version", version |-> v]
with_schema_min_version(v) == [kind |-> "min_version", version |-> v]

References ==
    {with_schema_subject} \cup {with_schema_version(v) : v \in PinnedVersions}
    \cup {with_schema_min_version(v) : v \in MinVersions}

\* ProducerBuilder.__init__, and nothing has happened yet.
Init ==
    /\ RegistryInit
    /\ builder = [topic |-> FALSE, producer_name |-> FALSE, schema_ref |-> NoRef]
    /\ configured = 0 /\ ref = NoRef /\ built = FALSE
    /\ created = FALSE /\ producer_id = 0 /\ schema_version = NoVersion
    /\ session = 0 /\ nextId = 1 /\ log = <<>>
    /\ pc = [t \in Tasks |-> "idle"]
    /\ answer = [t \in Tasks |-> NoVersion]
    /\ request = [t \in Tasks |-> [producer_id |-> 0, version |-> NoVersion]]
    /\ attempts = [t \in Tasks |-> 0]
    /\ createAttempts = [t \in Tasks |-> 0]
    /\ sent = [t \in Tasks |-> 0]
    /\ overlapped = [t \in Tasks |-> FALSE]
    /\ faults = 0
-----------------------------------------------------------------------------
(***************************************************************************)
(* The builder. A later with_schema_* call replaces the reference; build() *)
(* takes the fields as they are, and the builder may be used again for     *)
(* another producer, which must not touch this one.                        *)
(***************************************************************************)
SetField(field, value) ==
    /\ builder' = [builder EXCEPT ![field] = value]
    /\ UNCHANGED <<ref, built>>

WithTopic == ~builder.topic /\ SetField("topic", TRUE) /\ UNCHANGED configured

WithName ==
    /\ ~builder.producer_name
    /\ SetField("producer_name", TRUE)
    /\ UNCHANGED configured

\* A defect to detect: the producer goes on reading the builder's reference.
WithSchemaShared(r) ==
    /\ configured < MaxConfigure
    /\ configured' = configured + 1
    /\ builder' = [builder EXCEPT !.schema_ref = r]
    /\ ref' = IF built THEN r ELSE ref
    /\ UNCHANGED built

WithSchema(r) ==
    /\ configured < MaxConfigure
    /\ configured' = configured + 1
    /\ SetField("schema_ref", r)

\* build(), which raises ValueError without a topic or a name.
Build ==
    /\ ~built
    /\ builder.topic /\ builder.producer_name
    /\ built' = TRUE
    /\ ref' = builder.schema_ref
    /\ UNCHANGED <<builder, configured>>

BuilderStep ==
    /\ WithTopic \/ WithName \/ Build \/ \E r \in References : WithSchema(r)
    /\ UNCHANGED <<registryVars, brokerVars, objectVars, taskVars, faults>>
-----------------------------------------------------------------------------
CreatePlaces == {"creating", "latest", "latestAnswered", "version",
                 "versionAnswered", "createBackoff"}
Creating == {t \in Tasks : pc[t] \in CreatePlaces}

At(t, place) == pc' = [pc EXCEPT ![t] = place]

Fault == faults < MaxFaults /\ faults' = faults + 1

\* TopicProducer.create is called, and runs up to the await of CreateProducer.
BeginCreate(t) ==
    /\ At(t, "creating")
    /\ createAttempts' = [createAttempts EXCEPT ![t] = 0]
    /\ overlapped' = [u \in Tasks |->
                        IF u = t THEN Creating # {} ELSE overlapped[u] \/ u \in Creating]

\* TopicProducer.send up to the await: id and version are read in one stretch.
StartSend(t) ==
    /\ At(t, "sending")
    /\ request' = [request EXCEPT ![t] =
                      [producer_id |-> producer_id, version |-> schema_version]]

\* The call that t has made ends, with a result or an exception.
EndCall(t) == At(t, "idle")

\* A defect to detect: the limit is compared before the attempt is counted.
CreateErrorLate(t, code) ==
    IF is_retryable(code) /\ createAttempts[t] <= Retries
    THEN /\ createAttempts' = [createAttempts EXCEPT ![t] = @ + 1]
         /\ At(t, "createBackoff")
    ELSE EndCall(t) /\ UNCHANGED createAttempts

\* An exception in _try_create: sleep for another attempt, or raise. An
\* exception of create() ends the send() that called it as well.
CreateError(t, code) ==
    IF is_retryable(code) /\ createAttempts[t] < Retries
    THEN /\ createAttempts' = [createAttempts EXCEPT ![t] = @ + 1]
         /\ At(t, "createBackoff")
    ELSE EndCall(t) /\ UNCHANGED createAttempts

\* _try_create returns. In send() the loop starts over with the new session.
CreateReturns(t, id, version) ==
    IF created
    THEN /\ At(t, "sending")
         /\ request' = [request EXCEPT ![t] = [producer_id |-> id, version |-> version]]
         /\ attempts' = [attempts EXCEPT ![t] = 0]
         /\ UNCHANGED created
    ELSE /\ created' = TRUE
         /\ EndCall(t)
         /\ UNCHANGED <<request, attempts>>

\* A defect to detect: an answer of an earlier call is used again.
StartResolveCached(t) ==
    At(t, IF answer[t] = NoVersion THEN "latest" ELSE "latestAnswered")

\* _resolve_schema_metadata up to its first await.
StartResolve(t) == At(t, "latest")
-----------------------------------------------------------------------------
(***************************************************************************)
(* Producer.create. One task calls it, once.                               *)
(***************************************************************************)
Create(t) ==
    /\ built /\ ~created
    /\ \A u \in Tasks : pc[u] = "idle" /\ sent[u] = 0
    /\ nextId = 1
    /\ BeginCreate(t)
    /\ UNCHANGED <<registryVars, builderVars, brokerVars, objectVars, answer,
                   request, attempts, sent, faults>>

\* The broker opens a session for the producer's name, unless it has one.
Register == session = 0 /\ session' = nextId /\ nextId' = nextId + 1

\* The id is stored, then the schema is resolved if there is a reference.
CreateAccepted(t) ==
    /\ pc[t] = "creating"
    /\ Register
    /\ producer_id' = nextId
    /\ IF ref = NoRef
       THEN CreateReturns(t, nextId, schema_version)
       ELSE StartResolve(t) /\ UNCHANGED <<created, request, attempts>>
    /\ UNCHANGED <<registryVars, builderVars, log, schema_version, answer,
                   createAttempts, sent, overlapped, faults>>

\* ALREADY_EXISTS becomes UnrecoverableError, whoever opened the session.
CreateRefused(t) ==
    /\ pc[t] = "creating" /\ session # 0
    /\ CreateError(t, "ALREADY_EXISTS")
    /\ UNCHANGED <<registryVars, builderVars, brokerVars, objectVars, answer,
                   request, attempts, sent, overlapped, faults>>

\* CreateProducer fails at the client, carried out by the broker or not.
CreateLost(t) ==
    /\ pc[t] = "creating"
    /\ Fault
    /\ Register \/ UNCHANGED <<session, nextId>>
    /\ \E code \in FaultCodes : CreateError(t, code)
    /\ UNCHANGED <<registryVars, builderVars, log, objectVars, answer, request,
                   attempts, sent, overlapped>>

\* The sleep is over; the lookup before it has kept or replaced the address.
WakeCreate(t) ==
    /\ pc[t] = "createBackoff"
    /\ At(t, "creating")
    /\ UNCHANGED <<registryVars, builderVars, brokerVars, objectVars, answer,
                   request, attempts, createAttempts, sent, overlapped, faults>>
-----------------------------------------------------------------------------
(***************************************************************************)
(* TopicProducer._resolve_schema_metadata.                                 *)
(***************************************************************************)
\* The registry answers; NOT_FOUND when there is nothing to answer with.
Answer(t, place, next, version) ==
    /\ pc[t] = place
    /\ IF version = NoVersion
       THEN CreateError(t, "NOT_FOUND") /\ UNCHANGED answer
       ELSE /\ At(t, next)
            /\ answer' = [answer EXCEPT ![t] = version]
            /\ UNCHANGED createAttempts
    /\ UNCHANGED <<registryVars, builderVars, brokerVars, objectVars, request,
                   attempts, sent, overlapped, faults>>

LatestAnswered(t) == Answer(t, "latest", "latestAnswered", get_latest_schema)

VersionAnswered(t) ==
    Answer(t, "version", "versionAnswered", get_schema_version(ref.version))

\* A call of the registry fails, or its answer gets lost: _try_create fails
\* although the producer has been registered.
ResolveLost(t) ==
    /\ pc[t] \in {"latest", "version"}
    /\ Fault
    /\ \E code \in FaultCodes : CreateError(t, code)
    /\ UNCHANGED <<registryVars, builderVars, brokerVars, objectVars, answer,
                   request, attempts, sent, overlapped>>

\* The version that the reference admits is stored with its schema_id.
Resolved(t, version) ==
    /\ schema_version' = version
    /\ CreateReturns(t, producer_id, version)
    /\ UNCHANGED <<producer_id, createAttempts>>

\* ValueError: the registry has no version that the reference admits.
ResolveRaises(t) ==
    CreateError(t, "ValueError") /\ UNCHANGED <<objectVars, request, attempts>>

\* A defect to detect: the latest version stands in for the pinned one.
ResolveTakesLatest(t, latest) ==
    IF ref.kind = "pinned_version" /\ ref.version > latest
    THEN ResolveRaises(t) ELSE Resolved(t, latest)

\* What follows the await of get_latest_schema.
Resolve(t, latest) ==
    CASE ref.kind = "pinned_version" /\ ref.version > latest -> ResolveRaises(t)
      [] ref.kind = "pinned_version" /\ ref.version < latest ->
            At(t, "version") /\ UNCHANGED <<objectVars, request, attempts, createAttempts>>
      [] ref.kind = "min_version" /\ latest < ref.version -> ResolveRaises(t)
      [] OTHER -> Resolved(t, latest)

LatestArrives(t) ==
    /\ pc[t] = "latestAnswered"
    /\ Resolve(t, answer[t])
    /\ UNCHANGED <<registryVars, builderVars, brokerVars, answer, sent, overlapped, faults>>

VersionArrives(t) ==
    /\ pc[t] = "versionAnswered"
    /\ Resolved(t, answer[t])
    /\ UNCHANGED <<registryVars, builderVars, brokerVars, answer, sent, overlapped, faults>>
-----------------------------------------------------------------------------
(***************************************************************************)
(* Producer.send on the one TopicProducer. Every task sends when it likes, *)
(* also while another one re-creates the object.                           *)
(***************************************************************************)
Send(t) ==
    /\ created
    /\ pc[t] = "idle" /\ sent[t] < MaxSends
    /\ sent' = [sent EXCEPT ![t] = @ + 1]
    /\ attempts' = [attempts EXCEPT ![t] = 0]
    /\ StartSend(t)
    /\ UNCHANGED <<registryVars, builderVars, brokerVars, objectVars, answer,
                   createAttempts, overlapped, faults>>

\* Whether the broker still has the session that the request names.
Known(t) == session # 0 /\ request[t].producer_id = session

Store(t) == log' = Append(log, request[t].version)

\* SendMessage is stored and answered.
SendAnswered(t) ==
    /\ pc[t] = "sending" /\ Known(t)
    /\ Store(t)
    /\ EndCall(t)
    /\ UNCHANGED <<registryVars, builderVars, session, nextId, objectVars, answer,
                   request, attempts, createAttempts, sent, overlapped, faults>>

\* A defect to detect: an outer loop that counts nothing.
SendErrorForever(t, code) ==
    /\ IF is_retryable(code)
       THEN At(t, "backoff")
       ELSE EndCall(t)
    /\ UNCHANGED <<attempts, createAttempts, overlapped>>

\* The exception handler of send(): sleep, re-create the producer (the lookup
\* before it may fail, then the error is raised), or raise.
SendError(t, code) ==
    \/ /\ is_retryable(code) /\ attempts[t] < Retries
       /\ attempts' = [attempts EXCEPT ![t] = @ + 1]
       /\ At(t, "backoff")
       /\ UNCHANGED <<createAttempts, overlapped>>
    \/ /\ is_retryable(code) /\ attempts[t] = Retries
       /\ BeginCreate(t)
       /\ UNCHANGED attempts
    \/ /\ is_retryable(code) => attempts[t] = Retries
       /\ EndCall(t)
       /\ UNCHANGED <<attempts, createAttempts, overlapped>>

SendRejected(t) ==
    /\ pc[t] = "sending" /\ ~Known(t)
    /\ \E code \in RejectCodes : SendError(t, code)
    /\ UNCHANGED <<registryVars, builderVars, brokerVars, objectVars, answer,
                   request, sent, faults>>

\* SendMessage fails at the client, carried out by the broker or not.
SendLost(t) ==
    /\ pc[t] = "sending"
    /\ Fault
    /\ (Known(t) /\ Store(t)) \/ UNCHANGED log
    /\ \E code \in FaultCodes : SendError(t, code)
    /\ UNCHANGED <<registryVars, builderVars, session, nextId, objectVars, answer,
                   request, sent>>

WakeSend(t) ==
    /\ pc[t] = "backoff"
    /\ StartSend(t)
    /\ UNCHANGED <<registryVars, builderVars, brokerVars, objectVars, answer,
                   attempts, createAttempts, sent, overlapped, faults>>
-----------------------------------------------------------------------------
\* The broker crashes, or the topic moves: the session is gone.
LoseSession ==
    /\ session # 0
    /\ Fault
    /\ session' = 0
    /\ UNCHANGED <<registryVars, builderVars, nextId, log, objectVars, taskVars>>

\* Other applications, through their own SchemaRegistryClient.
OtherApplication ==
    /\ RegistryStep
    /\ UNCHANGED <<builderVars, brokerVars, objectVars, taskVars, faults>>

TaskStep(t) ==
    \/ CreateAccepted(t) \/ CreateRefused(t) \/ CreateLost(t) \/ WakeCreate(t)
    \/ LatestAnswered(t) \/ LatestArrives(t)
    \/ VersionAnswered(t) \/ VersionArrives(t) \/ ResolveLost(t)
    \/ SendAnswered(t) \/ SendRejected(t) \/ SendLost(t) \/ WakeSend(t)

Next ==
    \/ BuilderStep \/ LoseSession \/ OtherApplication
    \/ \E t \in Tasks : Create(t) \/ Send(t) \/ TaskStep(t)

Spec == Init /\ [][Next]_vars

\* Every RPC is answered or fails, sleeps end, and the event loop runs a
\* coroutine that can go on.
FairSpec == Spec /\ \A t \in Tasks : WF_vars(TaskStep(t))
-----------------------------------------------------------------------------
Places == CreatePlaces \cup {"idle", "sending", "backoff"}

\* Type correctness, with the limits of both retry loops.
TypeOK ==
    /\ RegistryTypeOK
    /\ builder \in [topic : BOOLEAN, producer_name : BOOLEAN,
                    schema_ref : References \cup {NoRef}]
    /\ configured \in 0 .. MaxConfigure
    /\ ref \in References \cup {NoRef}
    /\ built \in BOOLEAN /\ created \in BOOLEAN
    /\ producer_id \in 0 .. nextId - 1 /\ session \in 0 .. nextId - 1
    /\ nextId \in Nat \ {0}
    /\ schema_version \in 0 .. top
    /\ pc \in [Tasks -> Places]
    /\ answer \in [Tasks -> 0 .. top]
    /\ request \in [Tasks -> [producer_id : 0 .. nextId - 1, version : 0 .. top]]
    /\ attempts \in [Tasks -> 0 .. Retries]
    /\ createAttempts \in [Tasks -> 0 .. Retries]
    /\ sent \in [Tasks -> 0 .. MaxSends]
    /\ overlapped \in [Tasks -> BOOLEAN]
    /\ log \in Seq(0 .. top)
    /\ faults \in 0 .. MaxFaults

Admits(r, version) ==
    CASE r.kind = "pinned_version" -> version = r.version
      [] r.kind = "min_version" -> version >= r.version /\ version # NoVersion
      [] r.kind = "use_latest" -> version # NoVersion
      [] OTHER -> version = NoVersion

\* Every message carries a version that the reference given before build()
\* admits, and one without reference carries none: whatever is registered or
\* deleted between the two calls of the registry, whichever re-creation failed
\* half-way, and however the builder is used later (test_schema_version.py:66
\* and 126; producer.py:235, topic_producer.py:112 and 149).
VersionAsReferenced == \A i \in DOMAIN log : Admits(ref, log[i])

\* A re-creation replaces the version by an older one only if the newer one has
\* been deleted, or if another re-creation ran at the same time: then the answer
\* that arrives last wins, whichever was given first (topic_producer.py:113).
OlderVersionNeedsOverlap ==
    [][\A t \in Tasks :
          schema_version' < schema_version /\ pc'[t] # pc[t] =>
             overlapped[t] \/ schema_version \notin versions]_vars

\* Every create() and send() returns or raises, in spite of loops in loops that
\* start over after a re-creation (topic_producer.py:62, producer.py:111).
CallsReturn == \A t \in Tasks : pc[t] # "idle" ~> pc[t] = "idle"

\* Before build() the producer has no reference, and nothing is called.
NothingBeforeBuild ==
    /\ ~built => ref = NoRef /\ ~created /\ schema_version = NoVersion /\ log = <<>>
    /\ \A t \in Tasks : pc[t] # "idle" => built

\* The object has a version that its reference admits, except that it has none
\* before create() has returned for the first time (topic_producer.py:112).
VersionAdmitted == Admits(ref, schema_version) \/ (schema_version = NoVersion /\ ~created)

\* So has a message on its way to the broker, and an answer of the registry on
\* its way to the task fits the call that was made.
TaskAdmitted(t) ==
    /\ pc[t] \in {"sending", "backoff"} => created
    /\ pc[t] = "sending" => Admits(ref, request[t].version)
    /\ pc[t] \in {"latest", "latestAnswered", "version", "versionAnswered"} => ref # NoRef
    /\ pc[t] \in {"version", "versionAnswered"} => ref.kind = "pinned_version"
    /\ pc[t] = "latestAnswered" => answer[t] # NoVersion
    /\ pc[t] = "versionAnswered" => answer[t] = ref.version

Admitted == VersionAsReferenced /\ VersionAdmitted /\ \A t \in Tasks : TaskAdmitted(t)

\* A create() beside which no other one ran is alone, so that nobody replaces
\* the version between the answer it got and what it makes of it.
Alone ==
    \A t \in Creating : ~overlapped[t] =>
        /\ \A u \in Creating : u = t
        /\ pc[t] = "latestAnswered" /\ schema_version \in versions => schema_version <= answer[t]

\* The inductive invariant of Spec.
IndInv == TypeOK /\ NothingBeforeBuild /\ Admitted /\ Alone
=============================================================================
