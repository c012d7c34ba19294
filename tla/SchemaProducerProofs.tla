------------------------ MODULE SchemaProducerProofs ------------------------
(***************************************************************************)
(* Proofs about SchemaProducer, for any tasks, references, versions and    *)
(* bounds: type correctness with the limits of both retry loops, the       *)
(* versions that messages carry, and when a version may be replaced by an  *)
(* older one. They follow from the inductive invariant IndInv of           *)
(* SchemaProducer.                                                         *)
(***************************************************************************)
EXTENDS SchemaProducer, FiniteSetTheorems, TLAPS

-----------------------------------------------------------------------------
(* Operators.                                                              *)

\* A sequence of versions stays one when a version is added.
LEMMA SeqMonotone ==
    ASSUME NEW S, NEW T, \A x \in S : x \in T, NEW s \in Seq(S)
    PROVE  s \in Seq(T)
OBVIOUS

\* The ids given out before m are among those given out before n.
LEMMA IdsGrow ==
    ASSUME NEW m \in Nat, NEW n \in Nat, m <= n, NEW x \in 0 .. m - 1
    PROVE  x \in 0 .. n - 1
OBVIOUS

\* A set of versions that is not empty has a newest one.
LEMMA NewestVersion ==
    ASSUME NEW n \in Nat, NEW S \in SUBSET (1 .. n), S # {}
    PROVE  \E v \in S : \A w \in S : w <= v
<1> DEFINE Above(v) == {w \in S : w > v}
           Sets == {Above(v) : v \in S}
<1>1. IsFiniteSet(S)
  <2>1. IsFiniteSet(1 .. n)
    BY FS_Interval
  <2> QED
    BY <2>1, FS_Subset
<1>2. IsWellFoundedOn(StrictSubsetOrdering(S), SUBSET S)
  BY <1>1, FS_StrictSubsetOrderingWellFounded, FS_FiniteSubsetsOfFinite
<1>3. Sets \subseteq SUBSET S /\ Sets # {}
  OBVIOUS
<1>4. PICK least \in Sets : \A U \in Sets : ~ (<<U, least>> \in StrictSubsetOrdering(S))
  <2> HIDE DEF Sets
  <2> QED
    BY <1>2, <1>3, WFMin
<1>5. PICK v \in S : least = Above(v)
  OBVIOUS
<1>6. ASSUME NEW w \in S, w > v PROVE FALSE
  <2>1. Above(w) \subseteq Above(v) /\ Above(w) # Above(v)
    <3>1. w \in Above(v) /\ w \notin Above(w)
      BY <1>6
    <3>2. ASSUME NEW x \in Above(w) PROVE x \in Above(v)
      <4>1. x \in Nat /\ w \in Nat /\ v \in Nat /\ x > w
        OBVIOUS
      <4> QED
        BY <1>6, <4>1
    <3> QED
      BY <3>1, <3>2
  <2>2. Above(w) \in SUBSET S /\ Above(v) \in SUBSET S /\ Above(w) \in Sets
    OBVIOUS
  <2>3. <<Above(w), Above(v)>> \in StrictSubsetOrdering(S)
    <3> HIDE DEF Above
    <3> QED
      BY <2>1, <2>2 DEF StrictSubsetOrdering
  <2> QED
    BY <1>4, <1>5, <2>2, <2>3
<1> QED
  BY <1>6

\* get_latest_schema gives the newest version, or none when there is none.
LEMMA LatestSchema ==
    ASSUME RegistryTypeOK
    PROVE  /\ get_latest_schema \in 0 .. top
           /\ versions # {} => get_latest_schema \in versions
           /\ get_latest_schema = NoVersion <=> versions = {}
           /\ \A w \in versions : w <= get_latest_schema
<1>1. CASE versions = {}
  BY <1>1 DEF get_latest_schema, NoVersion, RegistryTypeOK
<1>2. CASE versions # {}
  <2>1. \E v \in versions : \A w \in versions : w <= v
    <3>1. top \in Nat /\ versions \in SUBSET (1 .. top)
      BY SchemaRegistryAssumption DEF RegistryTypeOK
    <3> QED
      BY <1>2, <3>1, NewestVersion
  <2>2. get_latest_schema = CHOOSE v \in versions : \A w \in versions : w <= v
    BY <1>2 DEF get_latest_schema
  <2>3. get_latest_schema \in versions /\ \A w \in versions : w <= get_latest_schema
    BY <2>1, <2>2
  <2> QED
    BY <1>2, <2>3 DEF NoVersion, RegistryTypeOK
<1> QED
  BY <1>1, <1>2

\* The limit of the retry loops.
LEMMA RetriesType == Retries \in Nat \ {0}
BY SchemaProducerAssumption DEF Retries, Effective, DEFAULT_MAX_RETRIES

\* What a reference can be.
LEMMA RefType ==
    ASSUME NEW r \in References \cup {NoRef}
    PROVE  /\ r.kind \in {"none", "use_latest", "pinned_version", "min_version"}
           /\ r.version \in Nat
           /\ r.kind = "none" <=> r = NoRef
BY SchemaProducerAssumption
   DEF References, NoRef, with_schema_subject, with_schema_version, with_schema_min_version

-----------------------------------------------------------------------------
(* Type correctness.                                                       *)

\* A task goes from one place to another.
LEMMA AtType ==
    ASSUME TypeOK, NEW t \in Tasks, NEW place \in Places, At(t, place)
    PROVE  pc' \in [Tasks -> Places] /\ pc'[t] = place
BY DEF TypeOK, At

\* A call that fails leaves the attempts of create() within their limit.
LEMMA CreateErrorType ==
    ASSUME TypeOK, NEW t \in Tasks, NEW code, CreateError(t, code)
    PROVE  /\ pc' \in [Tasks -> Places]
           /\ createAttempts' \in [Tasks -> 0 .. Retries]
<1>1. createAttempts \in [Tasks -> 0 .. Retries] /\ Retries \in Nat
  BY RetriesType DEF TypeOK
<1>2. CASE /\ createAttempts[t] < Retries
           /\ createAttempts' = [createAttempts EXCEPT ![t] = @ + 1]
           /\ At(t, "createBackoff")
  BY <1>1, <1>2, AtType DEF Places, CreatePlaces
<1>3. CASE EndCall(t) /\ UNCHANGED createAttempts
  BY <1>1, <1>3, AtType DEF EndCall, Places
<1> QED
  BY <1>2, <1>3 DEF CreateError

\* A call of create() that begins starts to count its attempts.
LEMMA BeginCreateType ==
    ASSUME TypeOK, NEW t \in Tasks, BeginCreate(t)
    PROVE  /\ pc' \in [Tasks -> Places]
           /\ createAttempts' \in [Tasks -> 0 .. Retries]
           /\ overlapped' \in [Tasks -> BOOLEAN]
<1>1. createAttempts \in [Tasks -> 0 .. Retries] /\ Retries \in Nat
      /\ overlapped \in [Tasks -> BOOLEAN]
  BY RetriesType DEF TypeOK
<1>2. pc' \in [Tasks -> Places]
  BY AtType DEF BeginCreate, Places, CreatePlaces
<1>3. createAttempts' \in [Tasks -> 0 .. Retries]
  BY <1>1 DEF BeginCreate
<1>4. overlapped' \in [Tasks -> BOOLEAN]
  BY <1>1 DEF BeginCreate
<1> QED
  BY <1>2, <1>3, <1>4

\* What the return of create() changes.
LEMMA CreateReturnsType ==
    ASSUME TypeOK, NEW t \in Tasks, NEW i \in Nat, NEW n \in Nat,
           NEW id \in 0 .. i, NEW version \in 0 .. n, nextId - 1 <= i, top <= n,
           CreateReturns(t, id, version)
    PROVE  /\ pc' \in [Tasks -> Places]
           /\ created' \in BOOLEAN
           /\ request' \in [Tasks -> [producer_id : 0 .. i, version : 0 .. n]]
           /\ attempts' \in [Tasks -> 0 .. Retries]
<1>1. attempts \in [Tasks -> 0 .. Retries] /\ Retries \in Nat
  BY RetriesType DEF TypeOK
<1>2. request \in [Tasks -> [producer_id : 0 .. i, version : 0 .. n]]
  <2>1. request \in [Tasks -> [producer_id : 0 .. nextId - 1, version : 0 .. top]]
        /\ nextId \in Nat /\ top \in Nat
    BY SchemaRegistryAssumption DEF TypeOK, RegistryTypeOK
  <2> QED
    BY <2>1
<1>3. CASE created
  <2>1. At(t, "sending") /\ UNCHANGED created
    BY <1>3 DEF CreateReturns
  <2>2. request' = [request EXCEPT ![t] = [producer_id |-> id, version |-> version]]
        /\ attempts' = [attempts EXCEPT ![t] = 0]
    BY <1>3 DEF CreateReturns
  <2>3. pc' \in [Tasks -> Places]
    BY <2>1, AtType DEF Places
  <2>4. attempts' \in [Tasks -> 0 .. Retries]
    BY <1>1, <2>2
  <2>5. request' \in [Tasks -> [producer_id : 0 .. i, version : 0 .. n]]
    BY <1>2, <2>2
  <2> QED
    BY <1>3, <2>1, <2>3, <2>4, <2>5
<1>4. CASE ~created
  <2>1. created' = TRUE /\ EndCall(t) /\ UNCHANGED <<request, attempts>>
    BY <1>4 DEF CreateReturns
  <2>2. pc' \in [Tasks -> Places]
    BY <2>1, AtType DEF EndCall, Places
  <2> QED
    BY <1>1, <1>2, <2>1, <2>2
<1> QED
  BY <1>3, <1>4

\* What the start of a request changes.
LEMMA StartSendType ==
    ASSUME TypeOK, NEW t \in Tasks, StartSend(t)
    PROVE  /\ pc' \in [Tasks -> Places]
           /\ request' \in [Tasks -> [producer_id : 0 .. nextId - 1, version : 0 .. top]]
<1>1. request \in [Tasks -> [producer_id : 0 .. nextId - 1, version : 0 .. top]]
      /\ producer_id \in 0 .. nextId - 1 /\ schema_version \in 0 .. top
  BY DEF TypeOK
<1>2. pc' \in [Tasks -> Places]
  BY AtType DEF StartSend, Places
<1>3. request' \in [Tasks -> [producer_id : 0 .. nextId - 1, version : 0 .. top]]
  BY <1>1 DEF StartSend
<1> QED
  BY <1>2, <1>3

\* What an error of send() changes.
LEMMA SendErrorType ==
    ASSUME TypeOK, NEW t \in Tasks, NEW code, SendError(t, code)
    PROVE  /\ pc' \in [Tasks -> Places]
           /\ attempts' \in [Tasks -> 0 .. Retries]
           /\ createAttempts' \in [Tasks -> 0 .. Retries]
           /\ overlapped' \in [Tasks -> BOOLEAN]
<1>1. /\ attempts \in [Tasks -> 0 .. Retries] /\ Retries \in Nat
      /\ createAttempts \in [Tasks -> 0 .. Retries]
      /\ overlapped \in [Tasks -> BOOLEAN]
  BY RetriesType DEF TypeOK
<1>2. CASE /\ attempts[t] < Retries
           /\ attempts' = [attempts EXCEPT ![t] = @ + 1]
           /\ At(t, "backoff")
           /\ UNCHANGED <<createAttempts, overlapped>>
  BY <1>1, <1>2, AtType DEF Places
<1>3. CASE BeginCreate(t) /\ UNCHANGED attempts
  BY <1>1, <1>3, BeginCreateType
<1>4. CASE EndCall(t) /\ UNCHANGED <<attempts, createAttempts, overlapped>>
  BY <1>1, <1>4, AtType DEF EndCall, Places
<1> QED
  BY <1>2, <1>3, <1>4 DEF SendError

\* A message that is stored has a version that exists or has existed.
LEMMA StoreType ==
    ASSUME TypeOK, NEW t \in Tasks, Store(t)
    PROVE  log' \in Seq(0 .. top)
<1>1. request[t].version \in 0 .. top /\ log \in Seq(0 .. top)
  BY DEF TypeOK
<1> QED
  BY <1>1 DEF Store

\* Every step keeps the types.
LEMMA StepType ==
    ASSUME TypeOK, [Next]_vars
    PROVE  TypeOK'
<1> USE DEF registryVars, builderVars, brokerVars, objectVars, taskVars
<1>1. ASSUME BuilderStep PROVE TypeOK'
  <2>1. builder' \in [topic : BOOLEAN, producer_name : BOOLEAN,
                      schema_ref : References \cup {NoRef}]
        /\ configured' \in 0 .. MaxConfigure
        /\ ref' \in References \cup {NoRef} /\ built' \in BOOLEAN
    <3>1. /\ builder \in [topic : BOOLEAN, producer_name : BOOLEAN,
                          schema_ref : References \cup {NoRef}]
          /\ configured \in 0 .. MaxConfigure /\ MaxConfigure \in Nat
          /\ ref \in References \cup {NoRef} /\ built \in BOOLEAN
      BY SchemaProducerAssumption DEF TypeOK
    <3>2. CASE WithTopic
      BY <3>1, <3>2 DEF WithTopic, SetField
    <3>3. CASE WithName
      BY <3>1, <3>3 DEF WithName, SetField
    <3>4. CASE Build
      BY <3>1, <3>4 DEF Build
    <3>5. ASSUME NEW r \in References, WithSchema(r)
          PROVE  /\ builder' \in [topic : BOOLEAN, producer_name : BOOLEAN,
                               schema_ref : References \cup {NoRef}]
                 /\ configured' \in 0 .. MaxConfigure
                 /\ ref' \in References \cup {NoRef} /\ built' \in BOOLEAN
      BY <3>1, <3>5 DEF WithSchema, SetField
    <3> QED
      BY <1>1, <3>2, <3>3, <3>4, <3>5 DEF BuilderStep
  <2>2. UNCHANGED <<registryVars, brokerVars, objectVars, taskVars, faults>>
    BY <1>1 DEF BuilderStep
  <2> QED
    BY <2>1, <2>2 DEF TypeOK, RegistryTypeOK
<1>2. ASSUME LoseSession PROVE TypeOK'
  BY <1>2, SchemaProducerAssumption DEF LoseSession, Fault, TypeOK, RegistryTypeOK
<1>3. ASSUME OtherApplication PROVE TypeOK'
  <2>1. RegistryTypeOK' /\ top <= top' /\ top \in Nat /\ top' \in Nat
    <3>1. top \in 1 .. MaxVersion /\ versions \subseteq 1 .. top /\ MaxVersion \in Nat
      BY SchemaRegistryAssumption DEF TypeOK, RegistryTypeOK
    <3>2. CASE RegisterSchema
      BY <3>1, <3>2 DEF RegisterSchema, RegistryTypeOK
    <3>3. CASE \E v \in 1 .. MaxVersion : DeleteSchemaVersion(v)
      BY <3>1, <3>3 DEF DeleteSchemaVersion, RegistryTypeOK
    <3> QED
      BY <1>3, <3>2, <3>3 DEF OtherApplication, RegistryStep
  <2>2. UNCHANGED <<builderVars, brokerVars, objectVars, taskVars, faults>>
    BY <1>3 DEF OtherApplication
  <2>3. \A x \in 0 .. top : x \in 0 .. top'
    BY <2>1
  <2>4. log' \in Seq(0 .. top')
    <3>1. log \in Seq(0 .. top) /\ log' = log
      BY <2>2 DEF TypeOK
    <3> QED
      BY <2>3, <3>1, SeqMonotone
  <2>5. request' \in [Tasks -> [producer_id : 0 .. nextId' - 1, version : 0 .. top']]
    BY <2>2, <2>3 DEF TypeOK
  <2>6. answer' \in [Tasks -> 0 .. top'] /\ schema_version' \in 0 .. top'
    BY <2>2, <2>3 DEF TypeOK
  <2> QED
    BY <2>1, <2>2, <2>4, <2>5, <2>6 DEF TypeOK
<1>4. ASSUME NEW t \in Tasks, Create(t) PROVE TypeOK'
  BY <1>4, BeginCreateType DEF Create, TypeOK, RegistryTypeOK
<1>5. ASSUME NEW t \in Tasks, Send(t) PROVE TypeOK'
  <2>1. sent' \in [Tasks -> 0 .. MaxSends] /\ attempts' \in [Tasks -> 0 .. Retries]
    BY <1>5, RetriesType, SchemaProducerAssumption DEF Send, TypeOK
  <2> QED
    BY <1>5, <2>1, StartSendType DEF Send, TypeOK, RegistryTypeOK
<1>6. ASSUME NEW t \in Tasks, CreateAccepted(t) PROVE TypeOK'
  <2>0. nextId \in Nat /\ nextId' = nextId + 1 /\ producer_id' = nextId /\ session' = nextId
        /\ top \in Nat /\ schema_version \in 0 .. top
    BY <1>6, SchemaRegistryAssumption DEF CreateAccepted, Register, TypeOK, RegistryTypeOK
  <2>1. /\ pc' \in [Tasks -> Places]
        /\ created' \in BOOLEAN
        /\ request' \in [Tasks -> [producer_id : 0 .. nextId, version : 0 .. top]]
        /\ attempts' \in [Tasks -> 0 .. Retries]
    <3>1. CASE CreateReturns(t, nextId, schema_version)
      BY <2>0, <3>1, CreateReturnsType
    <3>2. CASE StartResolve(t) /\ UNCHANGED <<created, request, attempts>>
      <4>1. pc' \in [Tasks -> Places]
        BY <3>2, AtType DEF StartResolve, Places, CreatePlaces
      <4>2. request' \in [Tasks -> [producer_id : 0 .. nextId, version : 0 .. top]]
        <5>1. /\ request \in [Tasks -> [producer_id : 0 .. nextId - 1, version : 0 .. top]]
              /\ request' = request
          BY <3>2 DEF TypeOK
        <5>2. 0 .. nextId - 1 \subseteq 0 .. nextId
          BY <2>0
        <5>3. [producer_id : 0 .. nextId - 1, version : 0 .. top]
                \subseteq [producer_id : 0 .. nextId, version : 0 .. top]
          BY <5>2
        <5> QED
          BY <5>1, <5>3
      <4>3. created' \in BOOLEAN /\ attempts' \in [Tasks -> 0 .. Retries]
        BY <3>2 DEF TypeOK
      <4> QED
        BY <4>1, <4>2, <4>3
    <3> QED
      BY <1>6, <3>1, <3>2 DEF CreateAccepted
  <2>2. UNCHANGED <<registryVars, builderVars, log, schema_version, answer,
                    createAttempts, sent, overlapped, faults>>
    BY <1>6 DEF CreateAccepted
  <2>3. /\ nextId' - 1 = nextId /\ nextId' \in Nat \ {0} /\ top' = top
        /\ producer_id' \in 0 .. nextId /\ session' \in 0 .. nextId
    BY <2>0, <2>2
  <2>4. /\ producer_id' \in 0 .. nextId' - 1 /\ session' \in 0 .. nextId' - 1
        /\ request' \in [Tasks -> [producer_id : 0 .. nextId' - 1, version : 0 .. top']]
    BY <2>1, <2>3
  <2>5. RegistryTypeOK'
    BY <2>2 DEF TypeOK, RegistryTypeOK
  <2>6. /\ builder' = builder /\ configured' = configured /\ ref' = ref /\ built' = built
        /\ log' = log /\ schema_version' = schema_version /\ answer' = answer
        /\ createAttempts' = createAttempts /\ sent' = sent
        /\ overlapped' = overlapped /\ faults' = faults
    BY <2>2
  <2> HIDE DEF registryVars, builderVars, brokerVars, objectVars, taskVars
  <2> QED
    BY <2>1, <2>3, <2>4, <2>5, <2>6 DEF TypeOK
<1>7. ASSUME NEW t \in Tasks, CreateRefused(t) PROVE TypeOK'
  BY <1>7, CreateErrorType DEF CreateRefused, TypeOK, RegistryTypeOK
<1>8. ASSUME NEW t \in Tasks, CreateLost(t) PROVE TypeOK'
  <2>1. /\ nextId \in Nat \ {0} /\ nextId' \in Nat \ {0} /\ nextId <= nextId'
        /\ session' \in 0 .. nextId' - 1
        /\ faults' \in 0 .. MaxFaults
    <3>1. /\ nextId \in Nat \ {0} /\ session \in 0 .. nextId - 1
          /\ faults \in 0 .. MaxFaults /\ MaxFaults \in Nat
      BY SchemaProducerAssumption DEF TypeOK
    <3>2. faults < MaxFaults /\ faults' = faults + 1
      BY <1>8 DEF CreateLost, Fault
    <3>3. \/ session' = nextId /\ nextId' = nextId + 1
          \/ session' = session /\ nextId' = nextId
      BY <1>8 DEF CreateLost, Register
    <3>4. faults' \in 0 .. MaxFaults
      BY <3>1, <3>2
    <3> QED
      BY <3>1, <3>3, <3>4
  <2>2. /\ pc' \in [Tasks -> Places]
        /\ createAttempts' \in [Tasks -> 0 .. Retries]
    BY <1>8, CreateErrorType DEF CreateLost
  <2>3. UNCHANGED <<registryVars, builderVars, log, objectVars, answer, request,
                    attempts, sent, overlapped>>
    BY <1>8 DEF CreateLost
  <2>4. producer_id' \in 0 .. nextId' - 1
    <3>1. producer_id \in 0 .. nextId - 1 /\ producer_id' = producer_id
      BY <2>3 DEF TypeOK
    <3>2. nextId \in Nat /\ nextId' \in Nat /\ nextId <= nextId'
      BY <2>1
    <3> QED
      BY <3>1, <3>2, IdsGrow
  <2>5. request' \in [Tasks -> [producer_id : 0 .. nextId' - 1, version : 0 .. top']]
    <3>1. /\ request \in [Tasks -> [producer_id : 0 .. nextId - 1, version : 0 .. top]]
          /\ request' = request /\ top' = top
      BY <2>3 DEF TypeOK
    <3>2. \A x \in 0 .. nextId - 1 : x \in 0 .. nextId' - 1
      <4>1. nextId \in Nat /\ nextId' \in Nat /\ nextId <= nextId'
        BY <2>1
      <4> QED
        BY <4>1, IdsGrow
    <3> QED
      BY <3>1, <3>2
  <2> QED
    BY <2>1, <2>2, <2>3, <2>4, <2>5 DEF TypeOK, RegistryTypeOK
<1>9. ASSUME NEW t \in Tasks, WakeCreate(t) PROVE TypeOK'
  <2>1. pc' \in [Tasks -> Places]
    BY <1>9, AtType DEF WakeCreate, Places, CreatePlaces
  <2> QED
    BY <1>9, <2>1 DEF WakeCreate, TypeOK, RegistryTypeOK
<1>10. ASSUME NEW t \in Tasks, NEW place, NEW next \in Places, NEW version \in 0 .. top,
              Answer(t, place, next, version)
       PROVE  TypeOK'
  <2>1. pc' \in [Tasks -> Places] /\ createAttempts' \in [Tasks -> 0 .. Retries]
        /\ answer' \in [Tasks -> 0 .. top]
    <3>1. CASE CreateError(t, "NOT_FOUND") /\ UNCHANGED answer
      BY <3>1, CreateErrorType DEF TypeOK
    <3>2. CASE /\ At(t, next)
               /\ answer' = [answer EXCEPT ![t] = version]
               /\ UNCHANGED createAttempts
      <4>1. answer' \in [Tasks -> 0 .. top]
        BY <3>2 DEF TypeOK
      <4> QED
        BY <3>2, <4>1, AtType DEF TypeOK
    <3> QED
      BY <1>10, <3>1, <3>2 DEF Answer
  <2> QED
    BY <1>10, <2>1 DEF Answer, TypeOK, RegistryTypeOK
<1>11. ASSUME NEW t \in Tasks, LatestAnswered(t) PROVE TypeOK'
  BY <1>10, <1>11, LatestSchema DEF LatestAnswered, Places, CreatePlaces, TypeOK
<1>12. ASSUME NEW t \in Tasks, VersionAnswered(t) PROVE TypeOK'
  <2>1. get_schema_version(ref.version) \in 0 .. top
    <3>1. top \in Nat /\ versions \subseteq 0 .. top
      BY SchemaRegistryAssumption DEF TypeOK, RegistryTypeOK
    <3>2. ref.version \in versions => ref.version \in 0 .. top
      BY <3>1
    <3>3. 0 \in 0 .. top
      BY <3>1
    <3> QED
      BY <3>2, <3>3 DEF get_schema_version, NoVersion
  <2> QED
    BY <1>10, <1>12, <2>1 DEF VersionAnswered, Places, CreatePlaces
<1>13. ASSUME NEW t \in Tasks, ResolveLost(t) PROVE TypeOK'
  <2>1. /\ pc' \in [Tasks -> Places]
        /\ createAttempts' \in [Tasks -> 0 .. Retries]
    BY <1>13, CreateErrorType DEF ResolveLost
  <2>2. faults' \in 0 .. MaxFaults
    BY <1>13, SchemaProducerAssumption DEF ResolveLost, Fault, TypeOK
  <2> QED
    BY <1>13, <2>1, <2>2 DEF ResolveLost, TypeOK, RegistryTypeOK
<1>14. ASSUME NEW t \in Tasks, Resolved(t, answer[t]),
              UNCHANGED <<registryVars, builderVars, brokerVars, answer, sent, overlapped, faults>>
       PROVE  TypeOK'
  <2>1. nextId - 1 \in Nat /\ top \in Nat /\ producer_id \in 0 .. nextId - 1
        /\ answer[t] \in 0 .. top
    BY SchemaRegistryAssumption DEF TypeOK, RegistryTypeOK
  <2>2. /\ pc' \in [Tasks -> Places]
        /\ created' \in BOOLEAN
        /\ request' \in [Tasks -> [producer_id : 0 .. nextId - 1, version : 0 .. top]]
        /\ attempts' \in [Tasks -> 0 .. Retries]
    BY <1>14, <2>1, CreateReturnsType DEF Resolved
  <2> QED
    BY <1>14, <2>1, <2>2 DEF Resolved, TypeOK, RegistryTypeOK
<1>15. ASSUME NEW t \in Tasks, LatestArrives(t) PROVE TypeOK'
  <2>1. UNCHANGED <<registryVars, builderVars, brokerVars, answer, sent, overlapped, faults>>
    BY <1>15 DEF LatestArrives
  <2>2. CASE ResolveRaises(t)
    BY <2>1, <2>2, CreateErrorType DEF ResolveRaises, TypeOK, RegistryTypeOK
  <2>3. CASE At(t, "version") /\ UNCHANGED <<objectVars, request, attempts, createAttempts>>
    <3>1. pc' \in [Tasks -> Places]
      BY <2>3, AtType DEF Places, CreatePlaces
    <3> QED
      BY <2>1, <2>3, <3>1 DEF TypeOK, RegistryTypeOK
  <2>4. CASE Resolved(t, answer[t])
    BY <1>14, <2>1, <2>4
  <2> QED
    BY <1>15, <2>2, <2>3, <2>4 DEF LatestArrives, Resolve
<1>16. ASSUME NEW t \in Tasks, VersionArrives(t) PROVE TypeOK'
  BY <1>14, <1>16 DEF VersionArrives
<1>17. ASSUME NEW t \in Tasks, SendAnswered(t) PROVE TypeOK'
  <2>1. pc' \in [Tasks -> Places]
    BY <1>17, AtType DEF SendAnswered, EndCall, Places
  <2>2. log' \in Seq(0 .. top)
    BY <1>17, StoreType DEF SendAnswered
  <2> QED
    BY <1>17, <2>1, <2>2 DEF SendAnswered, TypeOK, RegistryTypeOK
<1>18. ASSUME NEW t \in Tasks, SendRejected(t) PROVE TypeOK'
  BY <1>18, SendErrorType DEF SendRejected, TypeOK, RegistryTypeOK
<1>19. ASSUME NEW t \in Tasks, SendLost(t) PROVE TypeOK'
  <2>1. log' \in Seq(0 .. top)
    BY <1>19, StoreType DEF SendLost, TypeOK
  <2>2. /\ pc' \in [Tasks -> Places]
        /\ attempts' \in [Tasks -> 0 .. Retries]
        /\ createAttempts' \in [Tasks -> 0 .. Retries]
        /\ overlapped' \in [Tasks -> BOOLEAN]
    BY <1>19, SendErrorType DEF SendLost
  <2>3. faults' \in 0 .. MaxFaults
    BY <1>19, SchemaProducerAssumption DEF SendLost, Fault, TypeOK
  <2> QED
    BY <1>19, <2>1, <2>2, <2>3 DEF SendLost, TypeOK, RegistryTypeOK
<1>20. ASSUME NEW t \in Tasks, WakeSend(t) PROVE TypeOK'
  BY <1>20, StartSendType DEF WakeSend, TypeOK, RegistryTypeOK
<1>21. CASE UNCHANGED vars
  BY <1>21 DEF vars, TypeOK, RegistryTypeOK
<1> QED
  BY <1>1, <1>2, <1>3, <1>4, <1>5, <1>6, <1>7, <1>8, <1>9, <1>11, <1>12, <1>13, <1>15,
     <1>16, <1>17, <1>18, <1>19, <1>20, <1>21 DEF Next, TaskStep

-----------------------------------------------------------------------------
(* Versions that the reference admits.                                     *)

\* Only a producer that has been built is called, and its reference is fixed.
LEMMA TaskBuilt ==
    ASSUME NothingBeforeBuild, NEW t \in Tasks, Create(t) \/ Send(t) \/ TaskStep(t)
    PROVE  built /\ UNCHANGED builderVars
<1>1. CASE Create(t)
  BY <1>1 DEF Create
<1>2. CASE Send(t)
  BY <1>2 DEF Send, NothingBeforeBuild
<1>3. CASE TaskStep(t)
  <2>1. pc[t] # "idle"
    BY <1>3 DEF TaskStep, CreateAccepted, CreateRefused, CreateLost, WakeCreate, LatestAnswered,
                LatestArrives, VersionAnswered, VersionArrives, ResolveLost, Answer, SendAnswered,
                SendRejected, SendLost, WakeSend
  <2>2. UNCHANGED builderVars
    BY <1>3 DEF TaskStep, CreateAccepted, CreateRefused, CreateLost, WakeCreate, LatestAnswered,
                LatestArrives, VersionAnswered, VersionArrives, ResolveLost, Answer, SendAnswered,
                SendRejected, SendLost, WakeSend
  <2> QED
    BY <2>1, <2>2 DEF NothingBeforeBuild
<1> QED
  BY <1>1, <1>2, <1>3

\* A step of one task leaves what the others wait for.
LEMMA OthersAdmitted ==
    ASSUME TypeOK, Admitted, NEW t \in Tasks, NEW place, At(t, place),
           ref' = ref, created => created',
           \A w \in Tasks \ {t} : request'[w] = request[w] /\ answer'[w] = answer[w],
           NEW u \in Tasks \ {t}
    PROVE  TaskAdmitted(u)'
<1>1. pc'[u] = pc[u] /\ request'[u] = request[u] /\ answer'[u] = answer[u]
  BY DEF TypeOK, At
<1>2. TaskAdmitted(u)
  BY DEF Admitted
<1> QED
  BY <1>1, <1>2 DEF TaskAdmitted

\* What is stored is what the task has sent.
LEMMA LogAdmitted ==
    ASSUME TypeOK, Admitted, NEW t \in Tasks, UNCHANGED log \/ (pc[t] = "sending" /\ Store(t)),
           ref' = ref
    PROVE  VersionAsReferenced'
<1>1. CASE UNCHANGED log
  BY <1>1 DEF Admitted, VersionAsReferenced
<1>2. CASE pc[t] = "sending" /\ Store(t)
  <2>1. Admits(ref, request[t].version)
    BY <1>2 DEF Admitted, TaskAdmitted
  <2>2. log \in Seq(0 .. top) /\ log' = Append(log, request[t].version)
    BY <1>2 DEF TypeOK, Store
  <2>3. /\ DOMAIN log = 1 .. Len(log) /\ DOMAIN log' = 1 .. Len(log) + 1 /\ Len(log) \in Nat
        /\ \A i \in 1 .. Len(log) : log'[i] = log[i]
        /\ log'[Len(log) + 1] = request[t].version
    BY <2>2
  <2>4. ASSUME NEW i \in DOMAIN log' PROVE Admits(ref, log'[i])
    <3>1. CASE i \in 1 .. Len(log)
      BY <2>3, <3>1 DEF Admitted, VersionAsReferenced
    <3>2. CASE i = Len(log) + 1
      BY <2>1, <2>3, <3>2
    <3> QED
      BY <2>3, <3>1, <3>2
  <2>5. ASSUME NEW i \in DOMAIN log' PROVE Admits(ref', log'[i])
    BY <2>4, <2>5
  <2> QED
    BY <2>5 DEF VersionAsReferenced
<1> QED
  BY <1>1, <1>2

\* A task that goes where nothing is asked of it: its call ends, or it sleeps or
\* waits in create() or in send().
LEMMA ParkedAdmitted ==
    ASSUME TypeOK, Admitted, NEW t \in Tasks,
           NEW place \in {"idle", "creating", "createBackoff", "backoff"},
           At(t, place), place = "backoff" => pc[t] = "sending",
           UNCHANGED <<ref, created, schema_version, request, answer>>,
           UNCHANGED log \/ (pc[t] = "sending" /\ Store(t))
    PROVE  Admitted'
<1>1. VersionAsReferenced'
  BY LogAdmitted
<1>2. VersionAdmitted'
  BY DEF Admitted, VersionAdmitted
<1>3. ASSUME NEW u \in Tasks \ {t} PROVE TaskAdmitted(u)'
  BY <1>3, OthersAdmitted
<1>4. TaskAdmitted(t)'
  <2>1. pc'[t] = place
    BY DEF TypeOK, At
  <2>2. TaskAdmitted(t)
    BY DEF Admitted
  <2> QED
    BY <2>1, <2>2 DEF TaskAdmitted
<1> QED
  BY <1>1, <1>2, <1>3, <1>4 DEF Admitted

\* An exception in create() ends the call or lets it sleep.
LEMMA CreateErrorAdmitted ==
    ASSUME TypeOK, Admitted, NEW t \in Tasks, NEW code, CreateError(t, code),
           UNCHANGED <<ref, created, schema_version, request, answer, log>>
    PROVE  Admitted'
BY ParkedAdmitted DEF CreateError, EndCall

\* An exception in send() ends the call, lets it sleep, or leads to create().
LEMMA SendErrorAdmitted ==
    ASSUME TypeOK, Admitted, NEW t \in Tasks, NEW code, SendError(t, code), pc[t] = "sending",
           UNCHANGED <<ref, created, schema_version, request, answer>>,
           UNCHANGED log \/ Store(t)
    PROVE  Admitted'
BY ParkedAdmitted DEF SendError, BeginCreate, EndCall

\* create() returns with a version that the reference admits.
LEMMA CreateReturnsAdmitted ==
    ASSUME TypeOK, Admitted, NEW t \in Tasks, NEW id, NEW version,
           CreateReturns(t, id, version), Admits(ref, version), schema_version' = version,
           UNCHANGED <<ref, answer, log>>
    PROVE  Admitted'
<1>1. VersionAsReferenced'
  BY LogAdmitted
<1>2. VersionAdmitted'
  <2>1. Admits(ref', schema_version')
    OBVIOUS
  <2> QED
    BY <2>1 DEF VersionAdmitted
<1>3. CASE created
  <2>1. At(t, "sending") /\ UNCHANGED created
        /\ request' = [request EXCEPT ![t] = [producer_id |-> id, version |-> version]]
    BY <1>3 DEF CreateReturns
  <2>2. request \in [Tasks -> [producer_id : 0 .. nextId - 1, version : 0 .. top]]
    BY DEF TypeOK
  <2>3. request'[t].version = version /\ \A u \in Tasks \ {t} : request'[u] = request[u]
    BY <2>1, <2>2
  <2>4. pc'[t] = "sending"
    BY <2>1 DEF TypeOK, At
  <2>5. Admits(ref', request'[t].version)
    BY <2>3
  <2>6. TaskAdmitted(t)'
    BY <1>3, <2>1, <2>4, <2>5 DEF TaskAdmitted
  <2>7. ASSUME NEW u \in Tasks \ {t} PROVE TaskAdmitted(u)'
    BY <2>1, <2>3, <2>7, OthersAdmitted
  <2> QED
    BY <1>1, <1>2, <2>6, <2>7 DEF Admitted
<1>4. CASE ~created
  <2>1. At(t, "idle") /\ created' /\ UNCHANGED request
    BY <1>4 DEF CreateReturns, EndCall
  <2>2. pc'[t] = "idle"
    BY <2>1 DEF TypeOK, At
  <2>3. TaskAdmitted(t)'
    BY <2>2 DEF TaskAdmitted
  <2>4. ASSUME NEW u \in Tasks \ {t} PROVE TaskAdmitted(u)'
    BY <2>1, <2>4, OthersAdmitted
  <2> QED
    BY <1>1, <1>2, <2>3, <2>4 DEF Admitted
<1> QED
  BY <1>3, <1>4

\* What the task that goes on is asked for, after a step of its own.
LEMMA MovedAdmitted ==
    ASSUME TypeOK, Admitted, NEW t \in Tasks, NEW place, At(t, place),
           UNCHANGED <<ref, created, schema_version, log>>,
           \A w \in Tasks \ {t} : request'[w] = request[w] /\ answer'[w] = answer[w],
           TaskAdmitted(t)'
    PROVE  Admitted'
<1>1. VersionAsReferenced'
  BY LogAdmitted
<1>2. VersionAdmitted'
  BY DEF Admitted, VersionAdmitted
<1>3. ASSUME NEW u \in Tasks \ {t} PROVE TaskAdmitted(u)'
  BY <1>3, OthersAdmitted
<1> QED
  BY <1>1, <1>2, <1>3 DEF Admitted

\* A task that starts a request sends the version of the object.
LEMMA StartSendAdmitted ==
    ASSUME TypeOK, Admitted, NEW t \in Tasks, StartSend(t), created,
           UNCHANGED <<ref, created, schema_version, log, answer>>
    PROVE  Admitted'
<1>1. request' = [request EXCEPT ![t] = [producer_id |-> producer_id, version |-> schema_version]]
  BY DEF StartSend
<1>2. request \in [Tasks -> [producer_id : 0 .. nextId - 1, version : 0 .. top]]
  BY DEF TypeOK
<1>3. request'[t].version = schema_version /\ \A u \in Tasks \ {t} : request'[u] = request[u]
  BY <1>1, <1>2
<1>4. Admits(ref, schema_version)
  BY DEF Admitted, VersionAdmitted
<1>5. Admits(ref', request'[t].version)
  BY <1>3, <1>4
<1>6. pc'[t] = "sending"
  BY DEF TypeOK, StartSend, At
<1>7. TaskAdmitted(t)'
  BY <1>5, <1>6 DEF TaskAdmitted
<1> QED
  BY <1>3, <1>7, MovedAdmitted DEF StartSend

\* The answer of the registry is one that can be given to the call.
LEMMA AnswerAdmitted ==
    ASSUME TypeOK, Admitted, NEW t \in Tasks, NEW place, NEW next, NEW version,
           Answer(t, place, next, version),
           \/ place = "latest" /\ next = "latestAnswered"
           \/ place = "version" /\ next = "versionAnswered"
              /\ version \in {ref.version, NoVersion}
    PROVE  Admitted'
<1>0. UNCHANGED <<ref, created, schema_version, log, request>>
  BY DEF Answer, builderVars, brokerVars, objectVars
<1>1. CASE version = NoVersion
  BY <1>0, <1>1, CreateErrorAdmitted DEF Answer
<1>2. CASE version # NoVersion
  <2>1. At(t, next) /\ answer' = [answer EXCEPT ![t] = version] /\ pc[t] = place
    BY <1>2 DEF Answer
  <2>2. answer'[t] = version /\ \A w \in Tasks \ {t} : answer'[w] = answer[w]
    BY <2>1 DEF TypeOK
  <2>3. pc'[t] = next
    BY <2>1 DEF TypeOK, At
  <2>4. TaskAdmitted(t)
    BY DEF Admitted
  <2>5. TaskAdmitted(t)'
    BY <1>0, <1>2, <2>1, <2>2, <2>3, <2>4 DEF TaskAdmitted
  <2> QED
    BY <1>0, <2>1, <2>2, <2>5, MovedAdmitted
<1> QED
  BY <1>1, <1>2

\* What _resolve_schema_metadata takes from the latest version is admitted.
LEMMA ResolvedAdmitted ==
    ASSUME TypeOK, Admitted, NEW t \in Tasks, Resolved(t, answer[t]), Admits(ref, answer[t]),
           UNCHANGED <<ref, answer, log>>
    PROVE  Admitted'
BY CreateReturnsAdmitted DEF Resolved

\* Every step keeps what is admitted (topic_producer.py:112 and 175).
LEMMA StepAdmitted ==
    ASSUME TypeOK, NothingBeforeBuild, Admitted, [Next]_vars
    PROVE  Admitted'
<1> USE DEF registryVars, builderVars, brokerVars, objectVars, taskVars
<1>1. ASSUME BuilderStep PROVE Admitted'
  <2>1. UNCHANGED <<brokerVars, objectVars, taskVars>>
    BY <1>1 DEF BuilderStep
  <2>2. CASE UNCHANGED ref
    BY <2>1, <2>2 DEF Admitted, VersionAsReferenced, VersionAdmitted, TaskAdmitted
  <2>3. CASE ~built
    <3>1. log = <<>> /\ schema_version = NoVersion /\ ~created
          /\ \A t \in Tasks : pc[t] = "idle"
      BY <2>3 DEF NothingBeforeBuild
    <3>2. VersionAsReferenced'
      BY <2>1, <3>1 DEF VersionAsReferenced
    <3>3. VersionAdmitted'
      BY <2>1, <3>1 DEF VersionAdmitted, NoVersion
    <3>4. \A t \in Tasks : TaskAdmitted(t)'
      BY <2>1, <3>1 DEF TaskAdmitted
    <3> QED
      BY <3>2, <3>3, <3>4 DEF Admitted
  <2> QED
    BY <1>1, <2>2, <2>3 DEF BuilderStep, WithTopic, WithName, WithSchema, Build, SetField
<1>2. ASSUME UNCHANGED <<builderVars, log, objectVars, taskVars>> PROVE Admitted'
  BY <1>2 DEF Admitted, VersionAsReferenced, VersionAdmitted, TaskAdmitted
<1>3. ASSUME LoseSession \/ OtherApplication \/ UNCHANGED vars PROVE Admitted'
  BY <1>2, <1>3 DEF LoseSession, OtherApplication, vars
<1>4. ASSUME NEW t \in Tasks, Create(t) PROVE Admitted'
  BY <1>4, ParkedAdmitted DEF Create, BeginCreate
<1>5. ASSUME NEW t \in Tasks, Send(t) PROVE Admitted'
  BY <1>5, StartSendAdmitted DEF Send
<1>6. ASSUME NEW t \in Tasks, CreateAccepted(t) PROVE Admitted'
  <2>1. UNCHANGED <<ref, schema_version, answer, log>>
    BY <1>6 DEF CreateAccepted
  <2>2. CASE ref = NoRef
    <3>1. Admits(ref, schema_version)
      BY <2>2 DEF Admitted, VersionAdmitted, Admits, NoRef
    <3> QED
      BY <1>6, <2>1, <2>2, <3>1, CreateReturnsAdmitted DEF CreateAccepted
  <2>3. CASE ref # NoRef
    <3>1. At(t, "latest") /\ UNCHANGED <<created, request, attempts>>
      BY <1>6, <2>3 DEF CreateAccepted, StartResolve
    <3>2. pc'[t] = "latest"
      BY <3>1 DEF TypeOK, At
    <3>3. TaskAdmitted(t)'
      BY <2>1, <2>3, <3>2 DEF TaskAdmitted
    <3> QED
      BY <2>1, <3>1, <3>3, MovedAdmitted
  <2> QED
    BY <2>2, <2>3
<1>7. ASSUME NEW t \in Tasks, CreateRefused(t) \/ CreateLost(t) \/ ResolveLost(t)
      PROVE  Admitted'
  BY <1>7, CreateErrorAdmitted DEF CreateRefused, CreateLost, ResolveLost
<1>8. ASSUME NEW t \in Tasks, WakeCreate(t) PROVE Admitted'
  BY <1>8, ParkedAdmitted DEF WakeCreate
<1>9. ASSUME NEW t \in Tasks, LatestAnswered(t) PROVE Admitted'
  BY <1>9, AnswerAdmitted DEF LatestAnswered
<1>10. ASSUME NEW t \in Tasks, VersionAnswered(t) PROVE Admitted'
  BY <1>10, AnswerAdmitted DEF VersionAnswered, get_schema_version
<1>11. ASSUME NEW t \in Tasks, LatestArrives(t) PROVE Admitted'
  <2>1. UNCHANGED <<ref, log, answer>> /\ pc[t] = "latestAnswered"
    BY <1>11 DEF LatestArrives
  <2>2. /\ ref.kind \in {"use_latest", "pinned_version", "min_version"}
        /\ ref.version \in Nat
        /\ answer[t] \in Nat /\ answer[t] # NoVersion
    BY <2>1, RefType, SchemaRegistryAssumption DEF TypeOK, RegistryTypeOK, Admitted, TaskAdmitted
  <2>3. CASE ResolveRaises(t)
    BY <2>1, <2>3, CreateErrorAdmitted DEF ResolveRaises
  <2>4. CASE /\ ref.kind = "pinned_version"
             /\ At(t, "version")
             /\ UNCHANGED <<objectVars, request, attempts, createAttempts>>
    <3>1. pc'[t] = "version"
      BY <2>4 DEF TypeOK, At
    <3>2. TaskAdmitted(t)'
      <4>1. ref # NoRef
        BY <2>2 DEF NoRef
      <4> QED
        BY <2>1, <2>4, <3>1, <4>1 DEF TaskAdmitted
    <3> QED
      BY <2>1, <2>4, <3>2, MovedAdmitted
  <2>5. CASE /\ Resolved(t, answer[t])
             /\ ~ (ref.kind = "pinned_version" /\ ref.version > answer[t])
             /\ ~ (ref.kind = "pinned_version" /\ ref.version < answer[t])
             /\ ~ (ref.kind = "min_version" /\ answer[t] < ref.version)
    <3>1. Admits(ref, answer[t])
      BY <2>2, <2>5 DEF Admits
    <3> QED
      BY <2>1, <2>5, <3>1, ResolvedAdmitted
  <2>6. Resolve(t, answer[t])
    BY <1>11 DEF LatestArrives
  <2> QED
    BY <2>3, <2>4, <2>5, <2>6 DEF Resolve
<1>12. ASSUME NEW t \in Tasks, VersionArrives(t) PROVE Admitted'
  <2>1. pc[t] = "versionAnswered" /\ Resolved(t, answer[t]) /\ UNCHANGED <<ref, answer, log>>
    BY <1>12 DEF VersionArrives
  <2>2. ref.kind = "pinned_version" /\ answer[t] = ref.version
    BY <2>1 DEF Admitted, TaskAdmitted
  <2>3. Admits(ref, answer[t])
    BY <2>2 DEF Admits
  <2> QED
    BY <2>1, <2>3, ResolvedAdmitted
<1>13. ASSUME NEW t \in Tasks, SendAnswered(t) PROVE Admitted'
  BY <1>13, ParkedAdmitted DEF SendAnswered, EndCall
<1>14. ASSUME NEW t \in Tasks, SendRejected(t) \/ SendLost(t) PROVE Admitted'
  BY <1>14, SendErrorAdmitted DEF SendRejected, SendLost
<1>15. ASSUME NEW t \in Tasks, WakeSend(t) PROVE Admitted'
  <2>1. created
    BY <1>15 DEF WakeSend, Admitted, TaskAdmitted
  <2> QED
    BY <1>15, <2>1, StartSendAdmitted DEF WakeSend
<1> QED
  BY <1>1, <1>3, <1>4, <1>5, <1>6, <1>7, <1>8, <1>9, <1>10, <1>11, <1>12, <1>13, <1>14,
     <1>15 DEF Next, TaskStep

\* Nothing happens before build().
LEMMA StepNothingBeforeBuild ==
    ASSUME TypeOK, NothingBeforeBuild, [Next]_vars
    PROVE  NothingBeforeBuild'
<1> USE DEF registryVars, builderVars, brokerVars, objectVars, taskVars
<1>1. CASE BuilderStep
  BY <1>1 DEF BuilderStep, WithTopic, WithName, WithSchema, Build, SetField, NothingBeforeBuild
<1>2. CASE LoseSession \/ OtherApplication \/ UNCHANGED vars
  BY <1>2 DEF LoseSession, OtherApplication, vars, NothingBeforeBuild
<1>3. ASSUME NEW t \in Tasks, Create(t) \/ Send(t) \/ TaskStep(t) PROVE NothingBeforeBuild'
  BY <1>3, TaskBuilt DEF NothingBeforeBuild
<1> QED
  BY <1>1, <1>2, <1>3 DEF Next

-----------------------------------------------------------------------------
(* A create() beside which no other one runs.                              *)

\* A task that stays in create() or leaves it, without an answer.
LEMMA MovedAlone ==
    ASSUME TypeOK, Alone, NEW t \in Tasks, NEW place, At(t, place), place # "latestAnswered",
           pc[t] \in CreatePlaces \/ place \notin CreatePlaces,
           UNCHANGED <<versions, schema_version, overlapped, answer>>
    PROVE  Alone'
<1>1. pc'[t] = place /\ \A u \in Tasks \ {t} : pc'[u] = pc[u]
  BY DEF TypeOK, At
<1>2. Creating' \subseteq Creating
  BY <1>1 DEF Creating
<1>3. ASSUME NEW u \in Creating', ~overlapped'[u]
      PROVE  /\ \A v \in Creating' : v = u
             /\ pc'[u] = "latestAnswered" /\ schema_version' \in versions' =>
                   schema_version' <= answer'[u]
  <2>1. u \in Creating /\ u \in Tasks /\ ~overlapped[u]
    BY <1>2, <1>3 DEF Creating
  <2>2. pc'[u] = "latestAnswered" => pc[u] = "latestAnswered"
    BY <1>1, <2>1
  <2> QED
    BY <1>2, <2>1, <2>2 DEF Alone
<1> QED
  BY <1>3 DEF Alone

\* A call of create() that begins overlaps those that are under way, and they
\* overlap it.
LEMMA BeginCreateAlone ==
    ASSUME TypeOK, Alone, NEW t \in Tasks, BeginCreate(t), pc[t] \notin CreatePlaces,
           UNCHANGED <<versions, schema_version, answer>>
    PROVE  Alone'
<1>1. pc'[t] = "creating" /\ \A u \in Tasks \ {t} : pc'[u] = pc[u]
  BY DEF TypeOK, BeginCreate, At
<1>2. t \notin Creating /\ Creating' \subseteq Creating \cup {t}
  BY <1>1 DEF Creating
<1>3. /\ overlapped'[t] <=> Creating # {}
      /\ \A u \in Tasks \ {t} : overlapped'[u] <=> (overlapped[u] \/ u \in Creating)
  BY DEF BeginCreate
<1>4. ASSUME NEW u \in Creating', ~overlapped'[u]
      PROVE  /\ \A v \in Creating' : v = u
             /\ pc'[u] # "latestAnswered"
  <2>1. u \in Tasks
    BY <1>4 DEF Creating
  <2>2. u = t
    BY <1>2, <1>3, <1>4, <2>1
  <2> QED
    BY <1>1, <1>2, <1>3, <1>4, <2>2
<1> QED
  BY <1>4 DEF Alone

\* The latest version that the registry gives is not older than the version of
\* the object, if that one has not been deleted.
LEMMA LatestAnsweredAlone ==
    ASSUME TypeOK, Alone, NEW t \in Tasks, LatestAnswered(t)
    PROVE  Alone'
<1>0. UNCHANGED <<versions, schema_version, overlapped>> /\ pc[t] = "latest"
  BY DEF LatestAnswered, Answer, registryVars, objectVars
<1>1. CASE get_latest_schema = NoVersion
  <2>1. CreateError(t, "NOT_FOUND") /\ UNCHANGED answer
    BY <1>1 DEF LatestAnswered, Answer
  <2> QED
    BY <1>0, <2>1, MovedAlone DEF CreateError, EndCall, CreatePlaces
<1>2. CASE get_latest_schema # NoVersion
  <2>1. At(t, "latestAnswered") /\ answer' = [answer EXCEPT ![t] = get_latest_schema]
    BY <1>2 DEF LatestAnswered, Answer
  <2>2. pc'[t] = "latestAnswered" /\ \A u \in Tasks \ {t} : pc'[u] = pc[u]
    BY <2>1 DEF TypeOK, At
  <2>3. answer'[t] = get_latest_schema /\ \A u \in Tasks \ {t} : answer'[u] = answer[u]
    BY <2>1 DEF TypeOK
  <2>4. Creating' = Creating /\ t \in Creating
    BY <1>0, <2>2 DEF Creating, CreatePlaces
  <2>5. schema_version \in versions => schema_version <= get_latest_schema
    BY LatestSchema DEF TypeOK
  <2>6. ASSUME NEW u \in Creating', ~overlapped'[u]
        PROVE  /\ \A v \in Creating' : v = u
               /\ pc'[u] = "latestAnswered" /\ schema_version' \in versions' =>
                     schema_version' <= answer'[u]
    <3>1. \A v \in Creating : v = u
      BY <1>0, <2>4, <2>6 DEF Alone
    <3>2. u = t
      BY <2>4, <3>1
    <3> QED
      BY <1>0, <2>3, <2>4, <2>5, <3>1, <3>2
  <2> QED
    BY <2>6 DEF Alone
<1> QED
  BY <1>1, <1>2

\* A version is stored: whoever else is in create() is overlapped.
LEMMA ResolvedAlone ==
    ASSUME TypeOK, Alone, NEW t \in Tasks, NEW version, Resolved(t, version),
           pc[t] \in CreatePlaces, UNCHANGED overlapped
    PROVE  Alone'
<1>1. PICK place \in {"sending", "idle"} : At(t, place)
  BY DEF Resolved, CreateReturns, EndCall
<1>2. pc'[t] = place /\ \A u \in Tasks \ {t} : pc'[u] = pc[u]
  BY <1>1 DEF TypeOK, At
<1>3. t \in Creating /\ Creating' = Creating \ {t}
  BY <1>2 DEF Creating, CreatePlaces
<1>4. \A u \in Creating' : overlapped'[u]
  BY <1>3 DEF Alone
<1> QED
  BY <1>4 DEF Alone

\* A version that is registered is newer than all that are stored.
LEMMA RegistryStepAlone ==
    ASSUME TypeOK, Alone, RegistryStep, UNCHANGED <<pc, overlapped, answer, schema_version>>
    PROVE  Alone'
<1>1. schema_version \in 0 .. top /\ top \in Nat
  BY SchemaRegistryAssumption DEF TypeOK, RegistryTypeOK
<1>2. schema_version' \in versions' => schema_version \in versions
  <2>1. CASE RegisterSchema
    BY <1>1, <2>1 DEF RegisterSchema
  <2>2. CASE \E v \in 1 .. MaxVersion : DeleteSchemaVersion(v)
    BY <2>2 DEF DeleteSchemaVersion
  <2> QED
    BY <2>1, <2>2 DEF RegistryStep
<1> QED
  BY <1>2 DEF Alone, Creating

\* Every step keeps Alone.
LEMMA StepAlone ==
    ASSUME TypeOK, Alone, [Next]_vars
    PROVE  Alone'
<1> USE DEF registryVars, builderVars, brokerVars, objectVars, taskVars
<1>1. CASE BuilderStep \/ LoseSession \/ UNCHANGED vars
  BY <1>1 DEF BuilderStep, LoseSession, vars, Alone, Creating
<1>2. CASE OtherApplication
  BY <1>2, RegistryStepAlone DEF OtherApplication
<1>3. ASSUME NEW t \in Tasks, Create(t) PROVE Alone'
  <2>1. pc[t] \notin CreatePlaces
    BY <1>3 DEF Create, CreatePlaces
  <2> QED
    BY <1>3, <2>1, BeginCreateAlone DEF Create
<1>4. ASSUME NEW t \in Tasks, Send(t) \/ WakeSend(t) \/ SendAnswered(t) PROVE Alone'
  BY <1>4, MovedAlone DEF Send, WakeSend, SendAnswered, StartSend, EndCall, CreatePlaces
<1>5. ASSUME NEW t \in Tasks, NEW code, SendError(t, code), pc[t] = "sending",
             UNCHANGED <<versions, schema_version, answer>>
      PROVE  Alone'
  <2>1. CASE BeginCreate(t)
    BY <1>5, <2>1, BeginCreateAlone DEF CreatePlaces
  <2>2. CASE ~BeginCreate(t)
    BY <1>5, <2>2, MovedAlone DEF SendError, EndCall, CreatePlaces
  <2> QED
    BY <2>1, <2>2
<1>6. ASSUME NEW t \in Tasks, SendRejected(t) \/ SendLost(t) PROVE Alone'
  BY <1>5, <1>6 DEF SendRejected, SendLost
<1>7. ASSUME NEW t \in Tasks, NEW code, CreateError(t, code), pc[t] \in CreatePlaces,
             UNCHANGED <<versions, schema_version, overlapped, answer>>
      PROVE  Alone'
  BY <1>7, MovedAlone DEF CreateError, EndCall
<1>8. ASSUME NEW t \in Tasks, CreateRefused(t) \/ CreateLost(t) \/ ResolveLost(t) PROVE Alone'
  <2>1. pc[t] \in CreatePlaces
    BY <1>8 DEF CreateRefused, CreateLost, ResolveLost, CreatePlaces
  <2> QED
    BY <1>7, <1>8, <2>1 DEF CreateRefused, CreateLost, ResolveLost
<1>9. ASSUME NEW t \in Tasks, CreateAccepted(t) PROVE Alone'
  <2>1. pc[t] \in CreatePlaces /\ UNCHANGED <<versions, schema_version, overlapped, answer>>
    BY <1>9 DEF CreateAccepted, CreatePlaces
  <2>2. At(t, "latest") \/ At(t, "sending") \/ At(t, "idle")
    BY <1>9 DEF CreateAccepted, CreateReturns, StartResolve, EndCall
  <2> QED
    BY <2>1, <2>2, MovedAlone
<1>10. ASSUME NEW t \in Tasks, WakeCreate(t) PROVE Alone'
  BY <1>10, MovedAlone DEF WakeCreate, CreatePlaces
<1>11. ASSUME NEW t \in Tasks, LatestAnswered(t) PROVE Alone'
  BY <1>11, LatestAnsweredAlone
<1>12. ASSUME NEW t \in Tasks, VersionAnswered(t) PROVE Alone'
  <2>1. pc[t] = "version" /\ UNCHANGED <<versions, schema_version, overlapped>>
    BY <1>12 DEF VersionAnswered, Answer
  <2>2. CASE get_schema_version(ref.version) = NoVersion
    BY <1>7, <1>12, <2>1, <2>2 DEF VersionAnswered, Answer, CreatePlaces
  <2>3. CASE get_schema_version(ref.version) # NoVersion
    <3>1. /\ At(t, "versionAnswered")
          /\ answer' = [answer EXCEPT ![t] = get_schema_version(ref.version)]
      BY <1>12, <2>3 DEF VersionAnswered, Answer
    <3>2. pc'[t] = "versionAnswered" /\ \A u \in Tasks \ {t} : pc'[u] = pc[u]
      BY <3>1 DEF TypeOK, At
    <3>3. \A u \in Tasks \ {t} : answer'[u] = answer[u]
      BY <3>1 DEF TypeOK
    <3>4. Creating' = Creating
      BY <2>1, <3>2 DEF Creating, CreatePlaces
    <3>5. ASSUME NEW u \in Creating', ~overlapped'[u]
          PROVE  /\ \A v \in Creating' : v = u
                 /\ pc'[u] = "latestAnswered" /\ schema_version' \in versions' =>
                       schema_version' <= answer'[u]
      <4>1. u \in Tasks /\ u \in Creating /\ ~overlapped[u]
        BY <2>1, <3>4, <3>5 DEF Creating
      <4>2. CASE u = t
        BY <3>2, <3>4, <4>1, <4>2 DEF Alone
      <4>3. CASE u # t
        BY <2>1, <3>2, <3>3, <3>4, <4>1, <4>3 DEF Alone
      <4> QED
        BY <4>2, <4>3
    <3> QED
      BY <3>5 DEF Alone
  <2> QED
    BY <2>2, <2>3
<1>13. ASSUME NEW t \in Tasks, LatestArrives(t) PROVE Alone'
  <2>1. pc[t] = "latestAnswered" /\ UNCHANGED <<versions, overlapped, answer>>
    BY <1>13 DEF LatestArrives
  <2>2. CASE ResolveRaises(t)
    BY <1>7, <2>1, <2>2 DEF ResolveRaises, CreatePlaces
  <2>3. CASE At(t, "version") /\ UNCHANGED <<objectVars, request, attempts, createAttempts>>
    BY <2>1, <2>3, MovedAlone DEF CreatePlaces
  <2>4. CASE Resolved(t, answer[t])
    BY <2>1, <2>4, ResolvedAlone DEF CreatePlaces
  <2> QED
    BY <1>13, <2>2, <2>3, <2>4 DEF LatestArrives, Resolve
<1>14. ASSUME NEW t \in Tasks, VersionArrives(t) PROVE Alone'
  BY <1>14, ResolvedAlone DEF VersionArrives, CreatePlaces
<1> QED
  BY <1>1, <1>2, <1>3, <1>4, <1>6, <1>8, <1>9, <1>10, <1>11, <1>12, <1>13, <1>14
     DEF Next, TaskStep

-----------------------------------------------------------------------------
(* The invariant and what follows from it.                                 *)

\* Nothing has happened yet.
LEMMA InitIndInv ==
    ASSUME Init
    PROVE  IndInv
<1>1. TypeOK
  <2>1. RegistryTypeOK /\ top \in Nat
    BY SchemaRegistryAssumption DEF Init, RegistryInit, RegistryTypeOK
  <2>2. log \in Seq(0 .. top)
    <3>1. log = <<>>
      BY DEF Init
    <3> QED
      BY <3>1
  <2>3. answer \in [Tasks -> 0 .. top] /\ schema_version \in 0 .. top
    BY <2>1 DEF Init, NoVersion
  <2>4. request \in [Tasks -> [producer_id : 0 .. nextId - 1, version : 0 .. top]]
        /\ producer_id \in 0 .. nextId - 1 /\ session \in 0 .. nextId - 1
        /\ nextId \in Nat \ {0}
    BY <2>1 DEF Init, NoVersion
  <2>5. /\ attempts \in [Tasks -> 0 .. Retries] /\ createAttempts \in [Tasks -> 0 .. Retries]
        /\ sent \in [Tasks -> 0 .. MaxSends] /\ faults \in 0 .. MaxFaults
        /\ configured \in 0 .. MaxConfigure
    BY RetriesType, SchemaProducerAssumption DEF Init
  <2>6. pc \in [Tasks -> Places] /\ overlapped \in [Tasks -> BOOLEAN]
    BY DEF Init, Places
  <2>7. builder \in [topic : BOOLEAN, producer_name : BOOLEAN, schema_ref : References \cup {NoRef}]
        /\ ref \in References \cup {NoRef} /\ built \in BOOLEAN /\ created \in BOOLEAN
    BY DEF Init
  <2> QED
    BY <2>1, <2>2, <2>3, <2>4, <2>5, <2>6, <2>7 DEF TypeOK
<1>2. NothingBeforeBuild
  BY DEF Init, NothingBeforeBuild
<1>3. Admitted
  <2>1. log = <<>> /\ schema_version = NoVersion /\ ~created /\ \A t \in Tasks : pc[t] = "idle"
    BY DEF Init
  <2>2. VersionAsReferenced
    BY <2>1 DEF VersionAsReferenced
  <2> QED
    BY <2>1, <2>2 DEF Admitted, VersionAdmitted, TaskAdmitted
<1>4. Alone
  BY DEF Init, Alone, Creating, CreatePlaces
<1> QED
  BY <1>1, <1>2, <1>3, <1>4 DEF IndInv

\* IndInv holds of every state: the object, the messages on their way and the
\* answers of the registry on their way fit the reference, and a create() beside
\* which no other one runs is alone (topic_producer.py:112 and 175).
THEOREM SchemaProducerIndInv == Spec => []IndInv
<1>1. Init => IndInv
  BY InitIndInv
<1>2. IndInv /\ [Next]_vars => IndInv'
  BY StepType, StepNothingBeforeBuild, StepAdmitted, StepAlone DEF IndInv
<1> QED
  BY <1>1, <1>2, PTL DEF Spec

\* Type correctness: in particular, neither retry loop exceeds its limit
\* (topic_producer.py:62, producer.py:111).
THEOREM SchemaProducerTypeOK == Spec => []TypeOK
<1>1. IndInv => TypeOK
  BY DEF IndInv
<1> QED
  BY <1>1, SchemaProducerIndInv, PTL

\* Every message carries a version that the reference given before build()
\* admits, and one without reference carries none: whatever is registered or
\* deleted between the two calls of the registry, whichever re-creation failed
\* half-way, and however the builder is used later (topic_producer.py:112 and 149).
THEOREM SchemaProducerVersionAsReferenced == Spec => []VersionAsReferenced
<1>1. IndInv => VersionAsReferenced
  BY DEF IndInv, Admitted
<1> QED
  BY <1>1, SchemaProducerIndInv, PTL

\* The version of the object changes when a task in create() has an answer; the
\* pinned version can only replace itself.
LEMMA VersionStep ==
    ASSUME IndInv, Next, schema_version' # schema_version
    PROVE  \E t \in Tasks :
              /\ Resolved(t, answer[t])
              /\ \/ pc[t] = "latestAnswered"
                 \/ pc[t] = "versionAnswered" /\ schema_version = NoVersion
<1> USE DEF registryVars, builderVars, brokerVars, objectVars, taskVars
<1>1. CASE BuilderStep \/ LoseSession \/ OtherApplication
  BY <1>1 DEF BuilderStep, LoseSession, OtherApplication
<1>2. ASSUME NEW t \in Tasks, Create(t) \/ Send(t) PROVE FALSE
  BY <1>2 DEF Create, Send
<1>3. ASSUME NEW t \in Tasks,
             \/ CreateAccepted(t) \/ CreateRefused(t) \/ CreateLost(t) \/ WakeCreate(t)
             \/ LatestAnswered(t) \/ VersionAnswered(t) \/ ResolveLost(t)
             \/ SendAnswered(t) \/ SendRejected(t) \/ SendLost(t) \/ WakeSend(t)
      PROVE  FALSE
  BY <1>3 DEF CreateAccepted, CreateRefused, CreateLost, WakeCreate, LatestAnswered,
              VersionAnswered, Answer, ResolveLost, SendAnswered, SendRejected, SendLost, WakeSend
<1>4. ASSUME NEW t \in Tasks, LatestArrives(t)
      PROVE  Resolved(t, answer[t]) /\ pc[t] = "latestAnswered"
  BY <1>4 DEF LatestArrives, Resolve, ResolveRaises
<1>5. ASSUME NEW t \in Tasks, VersionArrives(t)
      PROVE  Resolved(t, answer[t]) /\ pc[t] = "versionAnswered" /\ schema_version = NoVersion
  <2>1. Resolved(t, answer[t]) /\ pc[t] = "versionAnswered" /\ schema_version' = answer[t]
    BY <1>5 DEF VersionArrives, Resolved
  <2>2. ref.kind = "pinned_version" /\ answer[t] = ref.version
    BY <2>1 DEF IndInv, Admitted, TaskAdmitted
  <2>3. schema_version = ref.version \/ schema_version = NoVersion
    BY <2>2 DEF IndInv, Admitted, VersionAdmitted, Admits
  <2> QED
    BY <2>1, <2>2, <2>3
<1> QED
  BY <1>1, <1>2, <1>3, <1>4, <1>5 DEF Next, TaskStep

\* A re-creation replaces the version by an older one only if the newer one has
\* been deleted, or if another re-creation ran at the same time: then the answer
\* that arrives last wins, whichever was given first (topic_producer.py:113).
THEOREM SchemaProducerOlderVersion == Spec => OlderVersionNeedsOverlap
<1>1. ASSUME IndInv, Next, NEW t \in Tasks, schema_version' < schema_version, pc'[t] # pc[t]
      PROVE  overlapped[t] \/ schema_version \notin versions
  <2>1. schema_version \in Nat /\ \A u \in Tasks : answer[u] \in Nat
    BY <1>1, SchemaRegistryAssumption DEF IndInv, TypeOK, RegistryTypeOK
  <2>2. PICK u \in Tasks :
              /\ Resolved(u, answer[u])
              /\ \/ pc[u] = "latestAnswered"
                 \/ pc[u] = "versionAnswered" /\ schema_version = NoVersion
    <3>1. schema_version' # schema_version
      <4>1. schema_version' = schema_version => ~ (schema_version' < schema_version)
        BY <2>1
      <4> QED
        BY <1>1, <4>1
    <3> QED
      BY <1>1, <3>1, VersionStep
  <2>3. schema_version' = answer[u] /\ answer[u] < schema_version
    BY <1>1, <2>2 DEF Resolved
  <2>4. pc[u] = "latestAnswered"
    BY <2>1, <2>2, <2>3 DEF NoVersion
  <2>5. u = t
    <3>1. PICK place \in {"sending", "idle"} : At(u, place)
      BY <2>2 DEF Resolved, CreateReturns, EndCall
    <3> QED
      BY <1>1, <3>1 DEF IndInv, TypeOK, At
  <2>6. t \in Creating
    BY <2>4, <2>5 DEF Creating, CreatePlaces
  <2>7. ~overlapped[t] /\ schema_version \in versions => schema_version <= answer[t]
    BY <1>1, <2>4, <2>5, <2>6 DEF IndInv, Alone
  <2> QED
    BY <2>1, <2>3, <2>5, <2>7
<1>2. IndInv /\ [Next]_vars =>
         [\A t \in Tasks :
             schema_version' < schema_version /\ pc'[t] # pc[t] =>
                overlapped[t] \/ schema_version \notin versions]_vars
  BY <1>1
<1> QED
  BY <1>2, SchemaProducerIndInv, PTL DEF Spec, OlderVersionNeedsOverlap
=============================================================================
