----------------------- MODULE ProducerRecoveryProofs -----------------------
(***************************************************************************)
(* How often send() retries, and that it comes back to a healthy cluster.  *)
(*                                                                         *)
(* The first part is about any instance of Producer: the requests of one   *)
(* call are bounded by the faults (SendsNeedFaults). The counter attempts  *)
(* starts over with every re-creation, so what pays for the requests       *)
(* before it is the fault that took the session: a partition's faults and  *)
(* its live session together never become fewer (Covers).                  *)
(***************************************************************************)
EXTENDS ProducerRecovery, ProducerPromise

\* Faults and live sessions: of no partition does their sum get smaller.
Covers ==
    /\ faults <= faults'
    /\ \A p \in Parts : faults + Sessions(p) <= faults' + Sessions(p)'

\* A longer budget of requests for a larger number of faults and sessions.
LEMMA BudgetGrows ==
    ASSUME NEW R \in Nat, NEW a \in Int, NEW b \in Int, a <= b
    PROVE  (R + 1) * a <= (R + 1) * b /\ (R + 1) * a \in Int /\ (R + 1) * b \in Int
OBVIOUS

\* So for one fault more than were counted.
LEMMA BudgetOfFaults ==
    ASSUME NEW R \in Nat, NEW f \in Nat, NEW g \in Nat, f <= g
    PROVE  /\ (R + 1) * (1 + f) <= (R + 1) * (1 + g)
           /\ (R + 1) * (1 + f) \in Int /\ (R + 1) * (1 + g) \in Int
OBVIOUS

\* One more fault, or session, pays for Retries + 1 requests.
LEMMA BudgetOfOne ==
    ASSUME NEW R \in Nat, NEW a \in Int
    PROVE  (R + 1) * (a + 1) = (R + 1) * a + (R + 1)
OBVIOUS

-----------------------------------------------------------------------------
(***************************************************************************)
(* Sessions and faults.                                                    *)
(***************************************************************************)

\* What a step of the client does to the cluster: at most it registers one
\* producer with a broker that is up and does not know it, and counts a fault.
Client ==
    /\ UNCHANGED <<alive, owner>>
    /\ faults' = faults \/ faults' = faults + 1
    /\ \/ sess' = sess
       \/ \E p \in Parts : owner[p] \in alive /\ sess[p] = 0 /\ Register(p)

\* Every step is one of the client or one of the environment.
LEMMA StepClient ==
    ASSUME IndInv, [Next]_vars
    PROVE  Client \/ ClusterStep
<1>1. CASE UNCHANGED vars
  BY <1>1 DEF vars, clusterVars, Client
<1>2. ASSUME NEW t \in Tasks, CreateAccepted(t) \/ CreateLost(t) PROVE Client
  <2>1. /\ pc[t] \in Working
        /\ \E b \in Brokers : Accepts(t, b)
        /\ Register(PartOf(t))
        /\ UNCHANGED <<alive, owner>>
        /\ faults' = faults \/ faults' = faults + 1
    BY <1>2 DEF CreateAccepted, CreateLost, Fault, Working
  <2>2. PartOf(t) \in Parts
    BY <2>1, WorkingTask
  <2> QED
    BY <2>1, <2>2 DEF Client, Accepts
<1>3. ASSUME NEW t \in Tasks, TaskStep(t) \/ SchemaFails(t), ~ CreateAccepted(t) PROVE Client
  BY <1>3 DEF TaskStep, ServeLookup, LookupReturns, LookupFails, CreateRefused, SchemaFails,
              SchemaResolved, WakeCreate, WakeSend, clusterVars, Client, Fault, RpcFault
<1>4. ASSUME NEW t \in Senders, Send(t) \/ (\E k \in Keys : SendWithKey(t, k)) \/ SendFault(t)
      PROVE  Client
  BY <1>4 DEF Send, SendWithKey, CallSend, SendFault, clusterVars, Client, Fault
<1>5. ASSUME NEW r \in net, Answer(r) PROVE Client
  BY <1>5 DEF Answer, StoreMessage, RejectMessage, clusterVars, Client
<1>6. ASSUME NEW p \in Parts, NEW h \in health[p], HealthStep(p, h) PROVE Client
  BY <1>6 DEF HealthStep, HealthClose, HealthFails, HealthStops, clusterVars, Client,
              Fault, RpcFault
<1>7. CASE Create \/ Close
  BY <1>7 DEF Create, Close, clusterVars, Client
<1> QED
  BY <1>1, <1>2, <1>3, <1>4, <1>5, <1>6, <1>7 DEF Next, Environment

\* A registration at a broker that is up adds a session.
LEMMA ClientCovers ==
    ASSUME IndInv, DeadOwnersForget, Client
    PROVE  Covers /\ DeadOwnersForget'
<1>1. faults \in Nat /\ sess \in [Parts -> Nat] /\ nextId \in Nat \ {0}
  BY DEF IndInv, TypeOK, ClusterTypeOK
<1>2. CASE sess' = sess
  BY <1>1, <1>2 DEF Client, Covers, Sessions, DeadOwnersForget
<1>3. ASSUME NEW p \in Parts, owner[p] \in alive, sess[p] = 0, Register(p)
      PROVE  Covers /\ DeadOwnersForget'
  <2>1. sess'[p] # 0 /\ \A q \in Parts \ {p} : sess'[q] = sess[q]
    BY <1>1, <1>3 DEF Register
  <2>2. \A q \in Parts : Sessions(q) <= Sessions(q)' /\ Sessions(q) \in Nat /\ Sessions(q)' \in Nat
    BY <1>3, <2>1 DEF Sessions
  <2>3. DeadOwnersForget'
    BY <1>3, <2>1 DEF DeadOwnersForget, Client
  <2> QED
    BY <1>1, <2>2, <2>3 DEF Client, Covers
<1> QED
  BY <1>2, <1>3 DEF Client

\* Sessions that are lost cost a fault, except those that were lost before.
LEMMA ClusterCovers ==
    ASSUME IndInv, DeadOwnersForget, ClusterStep
    PROVE  Covers /\ DeadOwnersForget'
<1>1. /\ faults \in Nat /\ sess \in [Parts -> Nat] /\ owner \in [Parts -> Brokers]
      /\ \A p \in Parts : Sessions(p) \in 0 .. 1 /\ Sessions(p)' \in 0 .. 1
  BY DEF IndInv, TypeOK, ClusterTypeOK, Sessions
<1>2. ASSUME NEW b \in Brokers, Crash(b) PROVE Covers /\ DeadOwnersForget'
  BY <1>1, <1>2 DEF Crash, Fault, DropSessions, Covers, DeadOwnersForget
<1>3. ASSUME NEW b \in Brokers, Restart(b) PROVE Covers /\ DeadOwnersForget'
  BY <1>1, <1>3 DEF Restart, Covers, Sessions, DeadOwnersForget
<1>4. ASSUME NEW p \in Parts, NEW b \in Brokers, Move(p, b) PROVE Covers /\ DeadOwnersForget'
  <2>1. /\ b \in alive /\ alive' = alive
        /\ owner'[p] = b /\ sess'[p] = 0
        /\ \A q \in Parts \ {p} : owner'[q] = owner[q] /\ sess'[q] = sess[q]
    BY <1>1, <1>4 DEF Move
  <2>2. DeadOwnersForget'
    BY <2>1 DEF DeadOwnersForget
  <2>3. faults' = faults + 1 \/ (faults' = faults /\ sess[p] = 0)
    BY <1>4 DEF Move, Fault, DeadOwnersForget
  <2>4. \A q \in Parts \ {p} : Sessions(q)' = Sessions(q)
    BY <2>1 DEF Sessions
  <2>5. faults + Sessions(p) <= faults' + Sessions(p)'
    BY <1>1, <2>1, <2>3 DEF Sessions
  <2> QED
    BY <1>1, <2>2, <2>3, <2>4, <2>5 DEF Covers
<1> QED
  BY <1>2, <1>3, <1>4 DEF ClusterStep

\* No step takes more sessions of a partition than it counts faults.
LEMMA StepCovers ==
    ASSUME IndInv, DeadOwnersForget, [Next]_vars
    PROVE  Covers /\ DeadOwnersForget'
BY StepClient, ClientCovers, ClusterCovers

-----------------------------------------------------------------------------
(***************************************************************************)
(* The requests of one call.                                               *)
(***************************************************************************)

\* Where a sender is while it looks for the owner and registers anew.
Lookups == {"relook", "lookup", "creating", "lookupAgain", "createBackoff"}

\* Task t has just registered the object it works with.
Registers(t) == sess[PartOf(t)] = 0 /\ sess'[PartOf(t)] # 0

\* What a step can make of the retries of a sender that is in a call.
Progress(t) ==
    \/ pc'[t] = pc[t] /\ attempts'[t] = attempts[t] /\ tries'[Cur(t)] = tries[Cur(t)]
    \/ pc'[t] = "idle" /\ tries'[Cur(t)] = tries[Cur(t)]
    \/ pc'[t] \in Lookups /\ tries'[Cur(t)] = tries[Cur(t)]
    \/ /\ pc[t] = "sending" /\ pc'[t] = "backoff"
       /\ attempts'[t] = attempts[t] + 1 /\ attempts'[t] <= Retries
       /\ tries'[Cur(t)] = tries[Cur(t)]
    \/ /\ pc[t] = "backoff" /\ pc'[t] = "sending"
       /\ attempts'[t] = attempts[t]
       /\ tries'[Cur(t)] = tries[Cur(t)] + 1
    \/ /\ pc[t] = "creating" /\ Registers(t) /\ pc'[t] = "schema"
       /\ tries'[Cur(t)] = tries[Cur(t)]
    \/ /\ pc[t] = "schema" \/ (pc[t] = "creating" /\ Registers(t))
       /\ pc'[t] = "sending"
       /\ attempts'[t] = 0
       /\ tries'[Cur(t)] = tries[Cur(t)] + 1

\* The calls stay what they are, and only those under way make requests.
SameCalls ==
    /\ UNCHANGED <<sent, partition>>
    /\ \A m \in Msgs : tries'[m] = tries[m] \/ \E t \in Senders : Busy(t) /\ m = Cur(t)
    /\ \A t \in Senders : Busy(t)' => Busy(t)
    /\ \A t \in Senders : Busy(t) => Progress(t)

\* Each progress of a call that the faults paid for is paid for.
LEMMA ProgressPaid ==
    ASSUME IndInv, IndInv', RequestsPaid, Covers,
           UNCHANGED <<sent, partition>>, NEW t \in Senders, Busy(t), Progress(t)
    PROVE  /\ tries'[Cur(t)] <= (Retries + 1) * (1 + faults')
           /\ Busy(t)' => /\ pc'[t] \in {"sending", "backoff"} => attempts'[t] <= Retries
                          /\ tries'[Cur(t)] <= Paid(PartOf(t))' + Spent(t)'
<1> DEFINE p == PartOf(t)
<1>1. /\ p \in Parts /\ PartOf(t)' = p /\ Cur(t)' = Cur(t) /\ Cur(t) \in Msgs
      /\ p = partition[Cur(t)]
  BY ProducerAssumption
     DEF IndInv, CallsUnderWay, TypeOK, CallTypeOK, PartOf, Cur, Msgs
<1>2. /\ Retries \in Nat /\ attempts[t] \in Nat /\ attempts'[t] \in Nat
      /\ tries[Cur(t)] \in Nat /\ tries'[Cur(t)] \in Nat
      /\ faults \in Nat /\ faults' \in Nat
      /\ Sessions(p) \in 0 .. 1 /\ Sessions(p)' \in 0 .. 1
  BY <1>1, RetriesPositive
     DEF IndInv, TypeOK, TaskTypeOK, CallTypeOK, ClusterTypeOK, Sessions
<1>3. /\ pc[t] \in {"sending", "backoff"} => attempts[t] <= Retries
      /\ tries[Cur(t)] <= Paid(p) + Spent(t)
  BY DEF RequestsPaid
<1>4. faults + Sessions(p) - 1 <= faults' + Sessions(p)' - 1
  BY <1>1, <1>2 DEF Covers
<1>5. Paid(p) <= Paid(p)' /\ Paid(p) \in Int /\ Paid(p)' \in Int
  BY <1>2, <1>4, BudgetGrows DEF Paid
<1>6. Paid(p)' + (Retries + 1) <= (Retries + 1) * (1 + faults')
  <2>1. Paid(p)' + (Retries + 1) = (Retries + 1) * (faults' + Sessions(p)')
    BY <1>2, BudgetOfOne DEF Paid
  <2> QED
    BY <1>2, <2>1, BudgetGrows
<1>7. Registers(t) => Paid(p) + (Retries + 1) <= Paid(p)'
  <2> SUFFICES ASSUME Registers(t) PROVE Paid(p) + (Retries + 1) <= Paid(p)'
    OBVIOUS
  <2>1. Sessions(p) = 0 /\ Sessions(p)' = 1
    BY <1>1 DEF Registers, Sessions
  <2>2. Paid(p) + (Retries + 1) = (Retries + 1) * faults
    BY <1>2, <2>1, BudgetOfOne DEF Paid
  <2>3. Paid(p)' = (Retries + 1) * faults'
    BY <1>2, <2>1 DEF Paid
  <2> QED
    BY <1>2, <2>2, <2>3, BudgetGrows DEF Covers
<1>8. Spent(t) \in 0 .. (Retries + 1)
  BY <1>2, <1>3 DEF Spent
<1>9. CASE Busy(t)'
  <2>1. /\ pc'[t] \in {"sending", "backoff"} => attempts'[t] <= Retries
        /\ tries'[Cur(t)] <= Paid(p)' + Spent(t)'
    <3>1. CASE pc'[t] = pc[t] /\ attempts'[t] = attempts[t] /\ tries'[Cur(t)] = tries[Cur(t)]
      <4>1. Spent(t)' = Spent(t)
        BY <3>1 DEF Spent
      <4> QED
        BY <1>2, <1>3, <1>5, <1>8, <3>1, <4>1
    <3>2. CASE pc'[t] \in Lookups /\ tries'[Cur(t)] = tries[Cur(t)]
      <4>1. Spent(t)' = Retries + 1
        BY <3>2 DEF Spent, Lookups
      <4> QED
        BY <1>2, <1>3, <1>5, <1>8, <3>2, <4>1 DEF Lookups
    <3>3. CASE /\ pc[t] = "sending" /\ pc'[t] = "backoff"
               /\ attempts'[t] = attempts[t] + 1 /\ attempts'[t] <= Retries
               /\ tries'[Cur(t)] = tries[Cur(t)]
      <4>1. Spent(t) = attempts[t] + 1 /\ Spent(t)' = attempts'[t]
        BY <3>3 DEF Spent
      <4> QED
        BY <1>2, <1>3, <1>5, <3>3, <4>1
    <3>4. CASE /\ pc[t] = "backoff" /\ pc'[t] = "sending"
               /\ attempts'[t] = attempts[t]
               /\ tries'[Cur(t)] = tries[Cur(t)] + 1
      <4>1. Spent(t) = attempts[t] /\ Spent(t)' = attempts'[t] + 1
        BY <3>4 DEF Spent
      <4> QED
        BY <1>2, <1>3, <1>5, <3>4, <4>1
    <3>5. CASE /\ pc[t] = "creating" /\ Registers(t) /\ pc'[t] = "schema"
               /\ tries'[Cur(t)] = tries[Cur(t)]
      <4>1. Spent(t)' = 0
        BY <3>5 DEF Spent
      <4> QED
        BY <1>2, <1>3, <1>5, <1>7, <1>8, <3>5, <4>1
    <3>6. CASE /\ pc[t] = "schema" \/ (pc[t] = "creating" /\ Registers(t))
               /\ pc'[t] = "sending"
               /\ attempts'[t] = 0
               /\ tries'[Cur(t)] = tries[Cur(t)] + 1
      <4>1. Spent(t)' = 1
        BY <3>6 DEF Spent
      <4>2. pc[t] = "schema" => Spent(t) = 0
        BY DEF Spent
      <4> QED
        BY <1>2, <1>3, <1>5, <1>7, <1>8, <3>6, <4>1, <4>2
    <3> QED
      BY <1>9, <3>1, <3>2, <3>3, <3>4, <3>5, <3>6 DEF Progress, Busy
  <2>2. Spent(t)' \in 0 .. (Retries + 1)
    BY <1>2, <2>1 DEF Spent
  <2> QED
    BY <1>1, <1>2, <1>5, <1>6, <2>1, <2>2
<1>10. CASE ~ Busy(t)'
  <2>1. tries'[Cur(t)] = tries[Cur(t)]
    BY <1>10 DEF Busy, Progress, Lookups
  <2> QED
    BY <1>2, <1>3, <1>5, <1>6, <1>8, <1>10, <2>1
<1> QED
  BY <1>9, <1>10

\* A creator has resolved a schema, or is done, only if it has registered.
CreatorsRegister ==
    \A p \in Parts : pc'[p] \in {"schema", "done"} =>
        pc[p] \in {"schema", "done"} \/ sess'[p] # 0

\* A step of task t leaves the other tasks where they are.
Alone(t) ==
    /\ \A u \in Tasks \ {t} : pc'[u] = pc[u]
    /\ \A u \in Senders \ {t} : attempts'[u] = attempts[u]
    /\ \A m \in Msgs : tries'[m] = tries[m] \/ (t \in Senders /\ m = Cur(t))
    /\ UNCHANGED <<sent, partition>>

\* All that has to be shown of a step of task t.
LEMMA AloneSameCalls ==
    ASSUME IndInv, NEW t \in Tasks, Alone(t),
           t \in Senders => Busy(t) /\ Progress(t),
           t \in Parts /\ pc'[t] \in {"schema", "done"} =>
               pc[t] \in {"schema", "done"} \/ sess'[t] # 0
    PROVE  SameCalls /\ CreatorsRegister
<1>1. ASSUME NEW u \in Senders, u # t, Busy(u) PROVE Progress(u)
  <2>1. Cur(u) \in Msgs /\ Cur(u) # Cur(t)
    BY <1>1, ProducerAssumption DEF IndInv, CallsUnderWay, TypeOK, CallTypeOK, Cur, Msgs
  <2> QED
    BY <1>1, <2>1 DEF Alone, Progress, Tasks
<1>2. \A u \in Senders : Busy(u)' => Busy(u)
  BY DEF Alone, Busy, Tasks
<1>3. \A m \in Msgs : tries'[m] = tries[m] \/ \E u \in Senders : Busy(u) /\ m = Cur(u)
  BY DEF Alone
<1>4. SameCalls
  BY <1>1, <1>2, <1>3 DEF SameCalls, Alone
<1>5. CreatorsRegister
  BY DEF CreatorsRegister, Alone, Tasks
<1> QED
  BY <1>4, <1>5

\* A task that goes to another program point, and makes no request.
LEMMA MovesAlone ==
    ASSUME IndInv, NEW t \in Tasks, pc[t] \in Working, NEW s, pc' = [pc EXCEPT ![t] = s],
           UNCHANGED <<attempts, tries, sent, partition>>
    PROVE  Alone(t) /\ pc'[t] = s /\ (t \in Senders => Busy(t))
BY DEF Alone, Busy, Working, IndInv, TypeOK, TaskTypeOK

\* Steps of tasks between two attempts, which make no request.
LEMMA SeekSameCalls ==
    ASSUME IndInv, NEW t \in Tasks, pc[t] \in Working, NEW s, pc' = [pc EXCEPT ![t] = s],
           UNCHANGED <<attempts, tries, sent, partition>>,
           s \in Lookups \/ (t \in Senders /\ s = "idle") \/ (t \in Parts /\ s = "failed")
    PROVE  SameCalls /\ CreatorsRegister
<1>1. Alone(t) /\ pc'[t] = s /\ (t \in Senders => Busy(t)) /\ Parts \cap Senders = {}
  BY MovesAlone, ProducerAssumption
<1>2. t \in Senders => Progress(t) /\ Cur(t) \in Msgs
  BY <1>1, WorkingTask DEF Progress
<1> QED
  BY <1>1, <1>2, AloneSameCalls DEF Lookups

\* TopicProducer.create returns: the sender makes the first request to its new
\* session.
LEMMA ReturnSameCalls ==
    ASSUME IndInv, NEW t \in Tasks, pc[t] \in {"creating", "schema"},
           NEW q, CreateReturns(t, q), UNCHANGED <<sent, partition>>,
           pc[t] = "creating" => Registers(t)
    PROVE  SameCalls /\ CreatorsRegister
<1>0. /\ Parts \cap Senders = {} /\ pc[t] \in Working
      /\ pc \in [Tasks -> PCs] /\ attempts \in [Senders -> Nat] /\ tries \in [Msgs -> Nat]
  BY ProducerAssumption DEF Working, IndInv, TypeOK, TaskTypeOK, CallTypeOK
<1>1. CASE t \in Parts
  <2>1. pc' = [pc EXCEPT ![t] = "done"] /\ UNCHANGED <<attempts, tries>>
    BY <1>0, <1>1 DEF CreateReturns
  <2>2. PartOf(t) = t
    BY <1>1 DEF PartOf
  <2> QED
    BY <1>0, <1>1, <2>1, <2>2, MovesAlone, AloneSameCalls DEF Registers
<1>2. CASE t \in Senders
  <2>1. /\ attempts' = [attempts EXCEPT ![t] = 0]
        /\ tries' = [tries EXCEPT ![Cur(t)] = @ + 1]
        /\ pc' = [pc EXCEPT ![t] = "sending"]
    BY <1>0, <1>2 DEF CreateReturns, StartSendMessage
  <2>2. Cur(t) \in Msgs
    BY <1>0, <1>2, WorkingTask
  <2>3. Alone(t)
    BY <1>0, <1>2, <2>1, <2>2 DEF Alone
  <2>4. Progress(t) /\ Busy(t)
    BY <1>0, <1>2, <2>1, <2>2 DEF Progress, Busy
  <2> QED
    BY <1>0, <1>2, <2>3, <2>4, AloneSameCalls
<1> QED
  BY <1>1, <1>2 DEF Tasks

\* The except branch of TopicProducer.create.
LEMMA ErrorSameCalls ==
    ASSUME IndInv, NEW t \in Tasks, pc[t] \in Working, NEW code, CreateError(t, code),
           UNCHANGED <<attempts, tries, sent, partition>>
    PROVE  SameCalls /\ CreatorsRegister
<1>1. \/ pc' = [pc EXCEPT ![t] = "lookupAgain"]
      \/ t \in Parts /\ pc' = [pc EXCEPT ![t] = "failed"]
      \/ t \in Senders /\ pc' = [pc EXCEPT ![t] = "idle"]
  BY DEF CreateError, CreateRaises, EndCall, StartLookup
<1> QED
  BY <1>1, SeekSameCalls DEF Lookups

\* Whatever a task does by itself, or because an RPC of create() fails.
LEMMA TaskSameCalls ==
    ASSUME IndInv, NEW t \in Tasks, TaskStep(t) \/ CreateLost(t) \/ SchemaFails(t)
    PROVE  SameCalls /\ CreatorsRegister
<1>1. CASE ServeLookup(t)
  BY <1>1 DEF ServeLookup, callVars, SameCalls, CreatorsRegister, Progress, Busy
<1>2. CASE LookupReturns(t)
  <2>1. pc[t] \in Working /\ UNCHANGED <<attempts, tries, sent, partition>>
    BY <1>2 DEF LookupReturns, InLookup, Working, callVars
  <2>2. \E s \in Lookups \cup {"lookup"} : pc' = [pc EXCEPT ![t] = s]
    BY <1>2 DEF LookupReturns, AfterCreateLookup, StartCreateProducer, StartLookup, Lookups
  <2> QED
    BY <2>1, <2>2, SeekSameCalls DEF Lookups
<1>3. CASE LookupFails(t)
  <2>1. pc[t] \in Working /\ UNCHANGED <<attempts, tries, sent, partition>>
    BY <1>3 DEF LookupFails, InLookup, Working
  <2>2. CASE AfterCreateLookup(t, tp[PartOf(t)])
    <3>1. \E s \in Lookups : pc' = [pc EXCEPT ![t] = s]
      BY <2>2 DEF AfterCreateLookup, StartCreateProducer, Lookups
    <3> QED
      BY <2>1, <3>1, SeekSameCalls
  <2>3. CASE pc[t] = "relook" /\ EndCall(t, "raised")
    <3>1. t \in Senders
      BY <2>3 DEF IndInv, TaskStates, Tasks
    <3> QED
      BY <2>1, <2>3, <3>1, SeekSameCalls DEF EndCall
  <2> QED
    BY <1>3, <2>2, <2>3 DEF LookupFails
<1>4. CASE CreateAccepted(t)
  <2>1. /\ pc[t] = "creating" /\ pc[t] \in Working
        /\ \E b \in Brokers : Accepts(t, b)
        /\ Register(PartOf(t))
        /\ UNCHANGED <<sent, partition>>
    BY <1>4 DEF CreateAccepted, Working
  <2>2. PartOf(t) \in Parts /\ sess \in [Parts -> Nat] /\ nextId # 0
    BY <2>1, WorkingTask DEF IndInv, TypeOK, ClusterTypeOK
  <2>3. Registers(t)
    <3>1. PartOf(t) \in Parts /\ sess'[PartOf(t)] # 0 /\ sess[PartOf(t)] = 0
      BY <2>1, <2>2 DEF Accepts, Register
    <3> QED
      BY <3>1 DEF Registers
  <2>4. CASE pc' = [pc EXCEPT ![t] = "schema"] /\ UNCHANGED <<attempts, tries>>
    <3>1. Alone(t) /\ pc'[t] = "schema" /\ (t \in Senders => Busy(t))
      BY <2>1, <2>4, MovesAlone
    <3>2. t \in Senders => Progress(t)
      BY <2>1, <2>3, <2>4, <3>1, WorkingTask DEF Progress
    <3>3. t \in Parts => sess'[t] # 0
      BY <2>3 DEF Registers, PartOf
    <3> QED
      BY <3>1, <3>2, <3>3, AloneSameCalls
  <2>5. ASSUME NEW q, CreateReturns(t, q) PROVE SameCalls /\ CreatorsRegister
    BY <2>1, <2>3, <2>5, ReturnSameCalls
  <2> QED
    BY <1>4, <2>4, <2>5 DEF CreateAccepted
<1>5. CASE SchemaResolved(t)
  BY <1>5, ReturnSameCalls DEF SchemaResolved
<1>6. CASE CreateRefused(t) \/ CreateLost(t) \/ SchemaFails(t)
  <2>1. /\ pc[t] \in Working
        /\ UNCHANGED <<attempts, tries, sent, partition>>
        /\ \E code : CreateError(t, code)
    BY <1>6 DEF CreateRefused, CreateLost, SchemaFails, Working
  <2> QED
    BY <2>1, ErrorSameCalls
<1>7. CASE WakeCreate(t)
  <2>1. /\ pc[t] \in Working /\ pc' = [pc EXCEPT ![t] = "creating"]
        /\ UNCHANGED <<attempts, tries, sent, partition>>
    BY <1>7 DEF WakeCreate, StartCreateProducer, Working, callVars
  <2> QED
    BY <2>1, SeekSameCalls DEF Lookups
<1>8. CASE WakeSend(t)
  <2>1. /\ pc[t] = "backoff" /\ pc[t] \in Working
        /\ pc' = [pc EXCEPT ![t] = "sending"]
        /\ tries' = [tries EXCEPT ![Cur(t)] = @ + 1]
        /\ UNCHANGED <<attempts, sent, partition>>
    BY <1>8 DEF WakeSend, StartSendMessage, Working
  <2>2. /\ t \in Senders /\ t \notin Parts /\ Cur(t) \in Msgs
        /\ pc \in [Tasks -> PCs] /\ tries \in [Msgs -> Nat]
    BY <2>1, WorkingTask DEF IndInv, TaskStates, Tasks, TypeOK, TaskTypeOK, CallTypeOK
  <2>3. Alone(t) /\ Progress(t) /\ Busy(t)
    BY <2>1, <2>2 DEF Alone, Progress, Busy
  <2> QED
    BY <2>2, <2>3, AloneSameCalls
<1> QED
  BY <1>1, <1>2, <1>3, <1>4, <1>5, <1>6, <1>7, <1>8 DEF TaskStep

\* The except branch of Producer.send.
LEMMA SendErrorSameCalls ==
    ASSUME IndInv, NEW t \in Senders, pc[t] = "sending", NEW code, SendError(t, code),
           UNCHANGED <<tries, sent, partition>>
    PROVE  SameCalls /\ CreatorsRegister
<1>1. /\ t \in Tasks /\ t \notin Parts /\ pc[t] \in Working
      /\ pc \in [Tasks -> PCs] /\ attempts \in [Senders -> Nat]
  BY ProducerAssumption DEF Tasks, Working, IndInv, TypeOK, TaskTypeOK
<1>2. CASE ~ is_retryable(code)
  <2>1. pc' = [pc EXCEPT ![t] = "idle"] /\ UNCHANGED attempts
    BY <1>2 DEF SendError, EndCall
  <2> QED
    BY <1>1, <2>1, SeekSameCalls
<1>3. CASE is_retryable(code)
  <2>1. /\ attempts' = [attempts EXCEPT ![t] = @ + 1]
        /\ \/ pc' = [pc EXCEPT ![t] = "backoff"] /\ attempts[t] + 1 <= Retries
           \/ pc' = [pc EXCEPT ![t] = "relook"]
    BY <1>3 DEF SendError, StartLookup
  <2>2. Alone(t) /\ Progress(t) /\ Busy(t)
    BY <1>1, <2>1, WorkingTask DEF Alone, Progress, Busy, Lookups
  <2> QED
    BY <1>1, <2>2, AloneSameCalls
<1> QED
  BY <1>2, <1>3

\* send() and send_with_key() select a partition that the topic has.
LEMMA CallsSelect ==
    ASSUME IndInv, NEW t \in Senders, Send(t) \/ \E k \in Keys : SendWithKey(t, k)
    PROVE  \E k, p : p \in Parts /\ CallSend(t, k, p)
<1>1. CASE Send(t)
  <2>1. HasRouter /\ last' = round_robin(last, NumPartitions) => last' \in Parts
    BY ProducerAssumption DEF HasRouter, round_robin, IndInv, TypeOK, ObjectTypeOK
  <2>2. ~ HasRouter => 0 \in Parts
    BY ProducerAssumption
  <2> QED
    BY <1>1, <2>1, <2>2 DEF Send
<1>2. ASSUME NEW k \in Keys, SendWithKey(t, k) PROVE \E p \in Parts : CallSend(t, k, p)
  <2>1. KeyPartition(k) \in Parts
    BY ProducerAssumption DEF KeyPartition, HasRouter, key_route
  <2> QED
    BY <1>2, <2>1 DEF SendWithKey
<1> QED
  BY <1>1, <1>2

\* Steps that no call is concerned with.
LEMMA IdleSameCalls ==
    ASSUME UNCHANGED <<attempts, tries, sent, partition>>,
           \A t \in Senders : pc'[t] = pc[t],
           \A p \in Parts : pc'[p] = pc[p] \/ pc'[p] \notin {"schema", "done"}
    PROVE  SameCalls /\ CreatorsRegister
BY DEF SameCalls, CreatorsRegister, Progress, Busy

\* All steps but those in which a call begins.
LEMMA StepSameCalls ==
    ASSUME IndInv, [Next]_vars
    PROVE  \/ SameCalls /\ CreatorsRegister
           \/ \E t \in Senders : \E k, p : p \in Parts /\ CallSend(t, k, p)
<1>0. /\ pc \in [Tasks -> PCs] /\ Parts \cap Senders = {} /\ Tasks = Parts \cup Senders
      /\ \A r \in net : r.msg[1] \in Senders
  BY ProducerAssumption DEF IndInv, TypeOK, TaskTypeOK, MessageTypeOK, RequestType, Msgs, Tasks
<1>1. CASE UNCHANGED vars \/ Environment \/ Close
  BY <1>1, IdleSameCalls DEF vars, callVars, Environment, Close
<1>2. CASE Create
  BY <1>0, <1>2, IdleSameCalls DEF Create, callVars
<1>3. ASSUME NEW p \in Parts, NEW h \in health[p], HealthStep(p, h)
      PROVE  SameCalls /\ CreatorsRegister
  BY <1>3, IdleSameCalls DEF HealthStep, HealthClose, HealthFails, HealthStops, callVars
<1>4. ASSUME NEW t \in Senders, SendFault(t) PROVE SameCalls /\ CreatorsRegister
  BY <1>4, SendErrorSameCalls DEF SendFault
<1>5. ASSUME NEW r \in net, StoreMessage(r) PROVE SameCalls /\ CreatorsRegister
  <2>1. UNCHANGED <<attempts, tries, sent, partition>>
    BY <1>5 DEF StoreMessage
  <2>2. CASE UNCHANGED pc
    BY <2>1, <2>2, IdleSameCalls
  <2>3. CASE Awaits(r.msg[1], r) /\ pc' = [pc EXCEPT ![r.msg[1]] = "idle"]
    BY <1>0, <2>1, <2>3, SeekSameCalls DEF Awaits, Working
  <2> QED
    BY <1>5, <2>2, <2>3 DEF StoreMessage, EndCall
<1>6. ASSUME NEW r \in net, RejectMessage(r) PROVE SameCalls /\ CreatorsRegister
  <2>1. UNCHANGED <<tries, sent, partition>>
    BY <1>6 DEF RejectMessage
  <2>2. CASE UNCHANGED <<pc, attempts>>
    BY <2>1, <2>2, IdleSameCalls
  <2>3. ASSUME NEW code, Awaits(r.msg[1], r), SendError(r.msg[1], code)
        PROVE  SameCalls /\ CreatorsRegister
    BY <1>0, <2>1, <2>3, SendErrorSameCalls DEF Awaits
  <2> QED
    BY <1>6, <2>2, <2>3 DEF RejectMessage
<1>7. ASSUME NEW t \in Senders, Send(t) \/ \E k \in Keys : SendWithKey(t, k)
      PROVE  \E k, p : p \in Parts /\ CallSend(t, k, p)
  BY <1>7, CallsSelect
<1> QED
  BY <1>1, <1>2, <1>3, <1>4, <1>5, <1>6, <1>7, TaskSameCalls DEF Next, Answer

\* The creators of a producer in use have registered.
LEMMA StepLost ==
    ASSUME IndInv, IndInv', SessionsLostByFaults, CreatorsRegister, Covers
    PROVE  SessionsLostByFaults'
<1>1. /\ faults \in Nat /\ faults' \in Nat
      /\ \A p \in Parts : Sessions(p) \in 0 .. 1 /\ Sessions(p)' \in 0 .. 1
  BY DEF IndInv, TypeOK, ClusterTypeOK, Sessions
<1> SUFFICES ASSUME NEW p \in Parts, pc'[p] \in {"schema", "done"}
             PROVE  sess'[p] # 0 \/ faults' > 0
  BY DEF SessionsLostByFaults
<1>2. CASE sess'[p] # 0
  BY <1>2
<1>3. CASE sess'[p] = 0
  <2>1. sess[p] # 0 \/ faults > 0
    BY <1>3 DEF CreatorsRegister, SessionsLostByFaults
  <2>2. sess[p] # 0 => Sessions(p) = 1
    BY DEF Sessions
  <2>3. faults + Sessions(p) <= faults' + Sessions(p)' /\ faults <= faults'
    BY DEF Covers
  <2>4. Sessions(p)' = 0
    BY <1>3 DEF Sessions
  <2> QED
    BY <1>1, <2>1, <2>2, <2>3, <2>4
<1> QED
  BY <1>2, <1>3

\* Steps in which no call begins.
LEMMA SameCallsPaid ==
    ASSUME IndInv, IndInv', RetriesPaid, SameCalls, Covers
    PROVE  RequestsPaid' /\ NoRequestYet' /\ SendsNeedFaults'
<1>1. /\ Retries \in Nat /\ faults \in Nat /\ faults' \in Nat /\ faults <= faults'
      /\ tries \in [Msgs -> Nat]
  BY RetriesPositive DEF IndInv, TypeOK, ClusterTypeOK, CallTypeOK, Covers
<1>2. RequestsPaid'
  <2> SUFFICES ASSUME NEW t \in Senders, Busy(t)'
               PROVE  /\ pc'[t] \in {"sending", "backoff"} => attempts'[t] <= Retries
                      /\ (tries[Cur(t)] <= Paid(PartOf(t)) + Spent(t))'
    BY DEF RequestsPaid
  <2>1. Busy(t) /\ Progress(t) /\ UNCHANGED <<sent, partition>> /\ RequestsPaid
    BY DEF SameCalls, RetriesPaid
  <2>2. Cur(t)' = Cur(t)
    BY <2>1 DEF Cur
  <2>3. /\ pc'[t] \in {"sending", "backoff"} => attempts'[t] <= Retries
        /\ tries'[Cur(t)] <= Paid(PartOf(t))' + Spent(t)'
    BY <2>1, ProgressPaid
  <2> QED
    BY <2>2, <2>3
<1>3. \A m \in Msgs : tries[m] <= (Retries + 1) * (1 + faults')
  <2>1. /\ (Retries + 1) * (1 + faults) <= (Retries + 1) * (1 + faults')
        /\ (Retries + 1) * (1 + faults) \in Int /\ (Retries + 1) * (1 + faults') \in Int
    BY <1>1, BudgetOfFaults
  <2> QED
    BY <1>1, <2>1 DEF SendsNeedFaults, RetriesPaid
<1>4. SendsNeedFaults'
  BY <1>3, ProgressPaid DEF SameCalls, SendsNeedFaults, RetriesPaid
<1>5. NoRequestYet'
  <2> SUFFICES ASSUME NEW m \in Msgs, m[2] > sent[m[1]] PROVE tries'[m] = 0
    BY DEF NoRequestYet, SameCalls
  <2>1. ASSUME NEW t \in Senders, m = Cur(t) PROVE FALSE
    BY <2>1 DEF Cur, IndInv, TypeOK, CallTypeOK
  <2> QED
    BY <2>1 DEF SameCalls, NoRequestYet, RetriesPaid
<1> QED
  BY <1>2, <1>4, <1>5

\* A call begins: it has made one request, or none because it is turned down.
LEMMA CallSendPaid ==
    ASSUME IndInv, IndInv', RetriesPaid, NEW t \in Senders, NEW k, NEW p \in Parts,
           CallSend(t, k, p)
    PROVE  /\ RequestsPaid' /\ NoRequestYet' /\ SendsNeedFaults'
           /\ CreatorsRegister
<1> DEFINE m == <<t, sent[t] + 1>>
<1>0. /\ pc \in [Tasks -> PCs] /\ Parts \cap Senders = {} /\ Tasks = Parts \cup Senders
      /\ sent \in [Senders -> 0 .. MaxSends] /\ MaxSends \in Nat
      /\ tries \in [Msgs -> Nat] /\ attempts \in [Senders -> Nat]
      /\ partition \in [Msgs -> Parts \cup {NoPart}]
      /\ Retries \in Nat /\ faults \in Nat /\ sess \in [Parts -> Nat]
  <2>1. ClusterTypeOK /\ TaskTypeOK /\ CallTypeOK
    BY DEF IndInv, TypeOK
  <2>2. pc \in [Tasks -> PCs] /\ attempts \in [Senders -> Nat]
    BY <2>1 DEF TaskTypeOK
  <2>3. /\ sent \in [Senders -> 0 .. MaxSends] /\ tries \in [Msgs -> Nat]
        /\ partition \in [Msgs -> Parts \cup {NoPart}]
    BY <2>1 DEF CallTypeOK
  <2>4. faults \in Nat /\ sess \in [Parts -> Nat]
    BY <2>1 DEF ClusterTypeOK
  <2>5. MaxSends \in Nat /\ Parts \cap Senders = {} /\ Tasks = Parts \cup Senders
    BY ProducerAssumption DEF Tasks
  <2>6. Retries \in Nat
    BY RetriesPositive
  <2> QED
    BY <2>2, <2>3, <2>4, <2>5, <2>6
<1>1. /\ pc[t] = "idle" /\ sent[t] < MaxSends
      /\ sent' = [sent EXCEPT ![t] = @ + 1]
      /\ attempts' = [attempts EXCEPT ![t] = 0]
      /\ UNCHANGED <<sess, faults>>
  BY DEF CallSend, clusterVars
<1>2. /\ m \in Msgs /\ tries[m] = 0 /\ Cur(t)' = m
      /\ \A u \in Senders \ {t} : sent'[u] = sent[u] /\ Cur(u)' = Cur(u) /\ Cur(u) # m
  BY <1>0, <1>1 DEF Msgs, Cur, NoRequestYet, RetriesPaid
<1>3. /\ \A u \in Senders \ {t} : attempts'[u] = attempts[u]
      /\ \A q \in Parts : Sessions(q)' = Sessions(q) /\ Paid(q)' = Paid(q)
  BY <1>0, <1>1 DEF Sessions, Paid
<1>4. CASE ~ created /\ UNCHANGED <<partition, tries, net, pc>>
  <2>1. SendsNeedFaults'
    BY <1>1, <1>4 DEF SendsNeedFaults, RetriesPaid
  <2>2. NoRequestYet'
    BY <1>0, <1>1, <1>4 DEF NoRequestYet, RetriesPaid, Msgs
  <2>3. RequestsPaid'
    <3> SUFFICES ASSUME NEW u \in Senders, Busy(u)'
                 PROVE  /\ pc'[u] \in {"sending", "backoff"} => attempts'[u] <= Retries
                        /\ (tries[Cur(u)] <= Paid(PartOf(u)) + Spent(u))'
      BY DEF RequestsPaid
    <3>1. u # t /\ Busy(u) /\ PartOf(u)' = PartOf(u) /\ Spent(u)' = Spent(u)
      BY <1>1, <1>2, <1>3, <1>4 DEF Busy, PartOf, Spent
    <3>2. PartOf(u) \in Parts
      BY <3>1 DEF IndInv, CallsUnderWay, PartOf
    <3> QED
      BY <1>2, <1>3, <1>4, <3>1, <3>2 DEF RequestsPaid, RetriesPaid
  <2> QED
    BY <1>4, <2>1, <2>2, <2>3 DEF CreatorsRegister
<1>5. CASE /\ created
           /\ partition' = [partition EXCEPT ![m] = p]
           /\ StartSendMessage(t, m, p, tp[p])
  <2>1. /\ pc' = [pc EXCEPT ![t] = "sending"]
        /\ tries' = [tries EXCEPT ![m] = @ + 1]
    BY <1>5 DEF StartSendMessage
  <2>2. /\ pc'[t] = "sending" /\ attempts'[t] = 0
        /\ tries'[m] = 1 /\ partition'[m] = p
        /\ \A u \in Tasks \ {t} : pc'[u] = pc[u]
        /\ \A n \in Msgs \ {m} : tries'[n] = tries[n] /\ partition'[n] = partition[n]
    BY <1>0, <1>1, <1>2, <1>5, <2>1
  <2>3. NoRequestYet'
    BY <1>0, <1>1, <1>2, <2>2 DEF NoRequestYet, RetriesPaid, Msgs
  <2>4. SendsNeedFaults'
    <3>1. 1 <= (Retries + 1) * (1 + faults)
      BY <1>0, BudgetGrows
    <3> QED
      BY <1>1, <2>2, <3>1 DEF SendsNeedFaults, RetriesPaid
  <2>5. RequestsPaid'
    <3> SUFFICES ASSUME NEW u \in Senders, Busy(u)'
                 PROVE  /\ pc'[u] \in {"sending", "backoff"} => attempts'[u] <= Retries
                        /\ (tries[Cur(u)] <= Paid(PartOf(u)) + Spent(u))'
      BY DEF RequestsPaid
    <3>1. CASE u = t
      <4>1. PartOf(t)' = p /\ Spent(t)' = 1
        BY <1>0, <1>2, <2>2 DEF PartOf, Spent
      <4>2. pc[p] = "done" /\ faults + Sessions(p) - 1 \in Nat
        BY <1>0, <1>5 DEF IndInv, TaskStates, RetriesPaid, SessionsLostByFaults, Sessions
      <4>3. 0 <= Paid(p) /\ Paid(p) \in Int
        BY <1>0, <4>2, BudgetGrows DEF Paid
      <4> QED
        BY <1>0, <1>2, <1>3, <2>2, <3>1, <4>1, <4>3
    <3>2. CASE u # t
      <4>1. Busy(u) /\ Cur(u) \in Msgs /\ PartOf(u) \in Parts
        BY <1>0, <2>2, <3>2 DEF Busy, IndInv, CallsUnderWay, Cur, Msgs, PartOf
      <4>2. PartOf(u)' = PartOf(u) /\ Spent(u)' = Spent(u)
        BY <1>0, <1>2, <1>3, <2>2, <3>2, <4>1 DEF PartOf, Spent
      <4> QED
        BY <1>0, <1>2, <1>3, <2>2, <3>2, <4>1, <4>2 DEF RequestsPaid, RetriesPaid
    <3> QED
      BY <3>1, <3>2
  <2>6. CreatorsRegister
    BY <1>0, <2>2 DEF CreatorsRegister
  <2> QED
    BY <2>3, <2>4, <2>5, <2>6
<1> QED
  BY <1>4, <1>5 DEF CallSend

\* The requests that calls have made stay paid for.
LEMMA StepPaid ==
    ASSUME IndInv, IndInv', RetriesPaid, [Next]_vars
    PROVE  RetriesPaid'
<1>1. Covers /\ DeadOwnersForget'
  BY StepCovers DEF RetriesPaid
<1>2. /\ RequestsPaid' /\ NoRequestYet' /\ SendsNeedFaults'
      /\ CreatorsRegister
  BY <1>1, StepSameCalls, SameCallsPaid, CallSendPaid
<1>3. SessionsLostByFaults'
  BY <1>1, <1>2, StepLost DEF RetriesPaid
<1> QED
  BY <1>1, <1>2, <1>3 DEF RetriesPaid

\* How RetriesPaid bounds the requests: those before the last re-creation are
\* paid for by faults, those after it count in attempts.
THEOREM ProducerRetriesPaid == Spec => []RetriesPaid
<1>1. Init => RetriesPaid
  <2> SUFFICES ASSUME Init PROVE RetriesPaid
    OBVIOUS
  <2>1. /\ alive = Brokers /\ faults = 0
        /\ sess = [p \in Parts |-> 0]
        /\ \A p \in Parts : pc[p] = "new"
        /\ \A t \in Senders : ~ Busy(t)
        /\ tries = [m \in Msgs |-> 0]
    BY ProducerAssumption DEF Init, ClusterInit, Busy, Tasks
  <2>2. 0 <= (Retries + 1) * (1 + 0)
    BY RetriesPositive
  <2>3. SendsNeedFaults /\ NoRequestYet
    BY <2>1, <2>2 DEF SendsNeedFaults, NoRequestYet
  <2> QED
    BY <2>1, <2>3 DEF RetriesPaid, DeadOwnersForget, SessionsLostByFaults, RequestsPaid
<1>2. IndInv /\ IndInv' /\ RetriesPaid /\ [Next]_vars => RetriesPaid'
  BY StepPaid
<1> QED
  BY <1>1, <1>2, ProducerIndInv, PTL DEF Spec

\* A call of send() makes at most Retries + 1 requests in a healthy cluster, and
\* that many more for each fault, although its counter starts over after every
\* re-creation and other tasks share the object.
THEOREM ProducerSendsNeedFaults == Spec => []SendsNeedFaults
<1>1. RetriesPaid => SendsNeedFaults
  BY DEF RetriesPaid
<1> QED
  BY <1>1, ProducerRetriesPaid, PTL

-----------------------------------------------------------------------------
(***************************************************************************)
(* Recovery: send() in a healthy cluster succeeds. The proof is about the  *)
(* instances that Recoverable describes. ObjectsFit relates each object to *)
(* the broker's session whatever the cluster has gone through, and needs   *)
(* one lemma per action; CalmCallsInformed says what a call that has met a *)
(* healthy cluster knows, and every way to raise contradicts it.           *)
(***************************************************************************)

\* A broker is up, and one that is alone behind the gateway is reached.
LEMMA GatewayReaches ==
    ASSUME Recoverable, IndInv, BrokersDown
    PROVE  ~ Unreachable(ServiceUrl, NoHeader)
<1>1. /\ alive \in SUBSET Brokers /\ faults <= MaxFaults
      /\ faults \in Nat /\ MaxFaults \in Nat
  BY ClusterAssumption DEF IndInv, TypeOK, ClusterTypeOK
<1>2. alive # {}
  <2> SUFFICES ASSUME alive = {} PROVE FALSE
    OBVIOUS
  <2>1. Brokers \ alive = Brokers
    BY <1>1
  <2>2. CASE ~ Brokers \subseteq Crashing
    BY <2>1, <2>2 DEF BrokersDown
  <2>3. CASE IsFiniteSet(Brokers) /\ Cardinality(Brokers) > MaxFaults
    <3>1. Cardinality(Brokers) \in Nat
      BY <2>3, FS_CardinalityType
    <3> QED
      BY <1>1, <2>1, <2>3, <3>1 DEF BrokersDown
  <2> QED
    BY <2>2, <2>3 DEF Recoverable
<1> QED
  BY <1>1, <1>2, ClusterAssumption DEF Recoverable, Unreachable, Reach

\* A lookup finds a broker that is up, and does not fail for no reason.
LEMMA LookupsAnswered ==
    ASSUME Recoverable, IndInv, ObjectsFit, NEW t \in Tasks
    PROVE  ~ LookupFails(t)
<1>1. InLookup(t) => rpc[t] = [url |-> ServiceUrl, header |-> NoHeader]
  BY DEF ObjectsFit, Dials
<1> QED
  BY <1>1, GatewayReaches DEF ObjectsFit, LookupFails, RpcFault, Recoverable

\* The address of an answer, and what _connect leaves alone.
LEMMA AddressFields ==
    ASSUME NEW q, GoodProducer(q), NEW a \in BrokerAddress
    PROVE  LET n == SetAddress(q, a) IN
           /\ n.broker_addr = a.broker_url
           /\ n.connect_url = a.connect_url
           /\ n.proxy = a.proxy
BY DEF SetAddress, GoodProducer, TopicProducerType

\* _connect changes the stub only, and the header names the broker's address.
LEMMA ConnectFields ==
    ASSUME NEW q, GoodProducer(q)
    PROVE  /\ Connect(q).broker_addr = q.broker_addr
           /\ Connect(q).connect_url = q.connect_url
           /\ Connect(q).proxy = q.proxy
           /\ Connect(q).producer_id = q.producer_id
           /\ q.proxy => Route(q).header = q.broker_addr
           /\ q.proxy => Route(Connect(q)).header = q.broker_addr
BY DEF Connect, GoodProducer, TopicProducerType, Route, insert_proxy_header

\* A new session changes the id only.
LEMMA CreatedFields ==
    ASSUME NEW q, GoodProducer(q), NEW id
    PROVE  /\ Created(q, id).broker_addr = q.broker_addr
           /\ Created(q, id).connect_url = q.connect_url
           /\ Created(q, id).proxy = q.proxy
           /\ Created(q, id).producer_id = id
BY DEF Created, GoodProducer, TopicProducerType

\* One task at a time has to do with an object: its creator, or the one sender.
LEMMA WorkerAlone ==
    ASSUME Recoverable, IndInv, SendersWait, NEW t \in Tasks, pc[t] \in Working,
           NEW u \in Tasks, pc[u] \in Working \cup {"new"}, PartOf(u) = PartOf(t)
    PROVE  u = t
<1>1. /\ Tasks = Parts \cup Senders /\ Parts \cap Senders = {}
      /\ \A v \in Senders : pc[v] # "new"
  BY ProducerAssumption DEF Tasks, IndInv, TaskStates
<1>2. t \in Senders => created
  BY DEF SendersWait, Busy, Working
<1>3. u \in Senders => created
  BY <1>1 DEF SendersWait, Busy, Working
<1>4. t \in Parts => ~ created /\ PartOf(t) = t
  BY WorkingTask DEF PartOf
<1>5. u \in Parts => ~ created /\ PartOf(u) = u
  BY DEF PartOf, IndInv, TaskStates, Working
<1> QED
  BY <1>1, <1>2, <1>3, <1>4, <1>5 DEF Recoverable

\* A step of task t leaves other tasks and other objects as they are.
Local(t, P) ==
    /\ UNCHANGED <<alive, owner, sent, partition>>
    /\ faults <= faults'
    /\ created => created'
    /\ \A u \in Tasks \ {t} : pc'[u] = pc[u] /\ rpc'[u] = rpc[u] /\ answer'[u] = answer[u]
    /\ \A p \in Parts \ {P} : tp'[p] = tp[p] /\ sess'[p] = sess[p]
    /\ \A m \in Msgs : result'[m] = result[m] \/ (t \in Senders /\ m = Cur(t))

\* What ObjectsFit says of task t and its object, after the step.
LocalFits(t, P) ==
    /\ tp'[P].connect_url = ServiceUrl
    /\ sess'[P] # 0 => Fits(P)'
    /\ tp[P].proxy \/ pc'[t] \in {"done", "creating", "createBackoff", "schema"} => tp'[P].proxy
    /\ pc'[t] \in {"relook", "lookup", "lookupAgain"} =>
          rpc'[t] = [url |-> ServiceUrl, header |-> NoHeader]
    /\ answer'[t] # NoAddr => answer'[t].proxy /\ answer'[t].connect_url = ServiceUrl
    /\ pc'[t] \in Seeking => sess'[P] = 0
    /\ pc'[t] = "creating" => rpc'[t].header = tp'[P].broker_addr
    /\ t \in Senders => \A r \in net' : Awaits(t, r)' =>
          r.route.header = tp'[P].broker_addr /\ r.producer_id = tp'[P].producer_id

\* It is enough to look at the task that takes the step.
LEMMA LocalObjectsFit ==
    ASSUME Recoverable, IndInv, IndInv', ObjectsFit, NEW t \in Tasks, pc[t] \in Working,
           NEW P, P = PartOf(t), Local(t, P), LocalFits(t, P)
    PROVE  ObjectsFit'
<1>0. /\ Tasks = Parts \cup Senders /\ Parts \cap Senders = {} /\ P \in Parts
      /\ PartOf(t)' = P
      /\ \A u \in Tasks : PartOf(u)' = PartOf(u)
  BY ProducerAssumption, WorkingTask DEF Tasks, PartOf, Cur, Local
<1>1. ASSUME NEW u \in Tasks, u # t, pc[u] \in Working \cup {"new"}
      PROVE  PartOf(u) # P
  BY <1>1, WorkerAlone DEF ObjectsFit
<1>2. BrokersDown'
  <2>1. IsFiniteSet(Brokers) => Cardinality(Brokers \ alive) \in Nat
    BY FS_Difference, FS_CardinalityType
  <2>2. faults \in Nat /\ faults' \in Nat
    BY ClusterAssumption DEF IndInv, TypeOK, ClusterTypeOK
  <2> QED
    BY <2>1, <2>2 DEF ObjectsFit, BrokersDown, Local
<1>3. Dials'
  BY <1>0 DEF ObjectsFit, Dials, Local, LocalFits, InLookup
<1>4. SessionsKnown'
  <2>1. \A p \in Parts : sess'[p] # 0 => Fits(p)'
    BY DEF ObjectsFit, SessionsKnown, Local, LocalFits, Fits
  <2>2. ASSUME NEW p \in Parts, pc'[p] = "done" PROVE tp'[p].proxy
    <3>1. CASE p = t
      BY <1>0, <2>2, <3>1 DEF PartOf, LocalFits
    <3>2. CASE p # t
      BY <1>0, <2>2, <3>2 DEF ObjectsFit, SessionsKnown, Local, LocalFits
    <3> QED
      BY <3>1, <3>2
  <2> QED
    BY <2>1, <2>2 DEF SessionsKnown
<1>5. Seekers'
  <2> SUFFICES ASSUME NEW u \in Tasks
               PROVE  /\ pc'[u] \in Seeking => sess'[PartOf(u)] = 0
                      /\ pc'[u] \in {"creating", "createBackoff", "schema"} =>
                            tp'[PartOf(u)].proxy
                      /\ pc'[u] = "creating" => rpc'[u].header = tp'[PartOf(u)].broker_addr
    BY <1>0 DEF Seekers
  <2>1. CASE u = t
    BY <2>1 DEF LocalFits
  <2>2. CASE u # t
    <3>1. pc[u] \in Seeking \cup {"schema"} => PartOf(u) \in Parts \ {P}
      BY <1>0, <1>1, <2>2, WorkingTask DEF Seeking, Working, PartOf, IndInv, TaskStates
    <3> QED
      BY <1>0, <2>2, <3>1 DEF ObjectsFit, Seekers, Local, Seeking
  <2> QED
    BY <2>1, <2>2
<1>6. RequestsCurrent'
  <2> SUFFICES ASSUME NEW u \in Senders, NEW r \in net', Awaits(u, r)'
               PROVE  (r.route.header = tp[PartOf(u)].broker_addr
                       /\ r.producer_id = tp[PartOf(u)].producer_id)'
    BY DEF RequestsCurrent
  <2>1. u = t
    <3> SUFFICES ASSUME u # t PROVE FALSE
      OBVIOUS
    <3>1. pc[u] = "sending" /\ t \in Parts
      BY <1>0 DEF Awaits, Local, Recoverable
    <3> QED
      BY <3>1, WorkingTask DEF ObjectsFit, SendersWait, Busy
  <2> QED
    BY <1>0, <2>1 DEF LocalFits
<1>7. SendersWait'
  <2> SUFFICES ASSUME NEW u \in Senders, Busy(u)' PROVE created'
    BY DEF SendersWait
  <2>1. Busy(u)
    BY <1>0 DEF Busy, Local, Working
  <2> QED
    BY <2>1 DEF ObjectsFit, SendersWait, Local
<1> QED
  BY <1>2, <1>3, <1>4, <1>5, <1>6, <1>7 DEF ObjectsFit

\* In a calm step the task's call stays informed, and does not raise.
StaysInformed(t, P) ==
    Informed(t, P) /\ UNCHANGED faults =>
        Informed(t, P)' /\ (t \in Senders => result'[Cur(t)] \in {result[Cur(t)], "ok"})

\* What has to be shown of a step of task t.
Recovers(t, P) == Local(t, P) /\ LocalFits(t, P) /\ StaysInformed(t, P)

\* What ObjectsFit says about a task that works with object P.
LEMMA WorkerFits ==
    ASSUME Recoverable, IndInv, ObjectsFit, NEW t \in Tasks, pc[t] \in Working,
           NEW P, P = PartOf(t)
    PROVE  /\ P \in Parts /\ GoodProducer(tp[P])
           /\ tp[P].connect_url = ServiceUrl
           /\ sess[P] # 0 => Fits(P)
           /\ InLookup(t) => rpc[t] = [url |-> ServiceUrl, header |-> NoHeader]
           /\ answer[t] # NoAddr => answer[t].proxy /\ answer[t].connect_url = ServiceUrl
           /\ pc[t] \in Seeking => sess[P] = 0
           /\ t \in Senders \/ pc[t] \in {"creating", "createBackoff", "schema"} => tp[P].proxy
           /\ pc[t] = "creating" => rpc[t].header = tp[P].broker_addr
           /\ t \in Senders => created /\ Cur(t) \in Msgs
           /\ t \in Parts => t \notin Senders
           /\ rpc[t] \in RouteType /\ answer[t] \in BrokerAddress \cup {NoAddr}
           /\ FaultCodes = {} /\ Proxied
<1>1. P \in Parts /\ GoodProducer(tp[P]) /\ (t \in Senders => Cur(t) \in Msgs)
  BY WorkingTask
<1>2. t \in Senders => created /\ tp[P].proxy
  BY <1>1 DEF ObjectsFit, SendersWait, SessionsKnown, Busy, Working, IndInv, TaskStates
<1>3. rpc[t] \in RouteType /\ answer[t] \in BrokerAddress \cup {NoAddr}
  BY DEF IndInv, TypeOK, TaskTypeOK
<1> QED
  BY <1>1, <1>2, <1>3, ProducerAssumption
     DEF ObjectsFit, Dials, SessionsKnown, Seekers, Recoverable

\* A lookup that is answered tells the owner of that moment.
LEMMA ServeLookupRecovers ==
    ASSUME Recoverable, IndInv, ObjectsFit, NEW t \in Tasks, ServeLookup(t),
           NEW P, P = PartOf(t)
    PROVE  Recovers(t, P)
<1>1. pc[t] \in Working /\ pc[t] \in Seeking /\ pc[t] # "creating"
  BY DEF ServeLookup, InLookup, Working, Seeking
<1>2. /\ UNCHANGED <<alive, owner, sess, faults, sent, partition, created, pc, rpc, tp, result, net, tries>>
      /\ answer' = [answer EXCEPT ![t] = LookupAnswer(P)]
  BY DEF ServeLookup, clusterVars, objectVars, callVars
<1>3. answer'[t] = LookupAnswer(P) /\ \A u \in Tasks \ {t} : answer'[u] = answer[u]
  BY <1>2 DEF IndInv, TypeOK, TaskTypeOK
<1>4. /\ LookupAnswer(P).proxy /\ LookupAnswer(P).connect_url = ServiceUrl
      /\ LookupAnswer(P).broker_url = owner[P]
  BY DEF LookupAnswer, Recoverable
<1>5. faults <= faults'
  BY <1>2 DEF IndInv, TypeOK, ClusterTypeOK
<1>6. Local(t, P)
  BY <1>2, <1>3, <1>5 DEF Local
<1>7. LocalFits(t, P)
  BY <1>1, <1>2, <1>3, <1>4, WorkerFits DEF LocalFits, Fits, ServeLookup, InLookup, Awaits
<1>8. StaysInformed(t, P)
  BY <1>1, <1>2, <1>3, <1>4 DEF StaysInformed, Informed, InLookup
<1> QED
  BY <1>6, <1>7, <1>8 DEF Recovers

\* The call of CreateProducer names the broker that object q names.
LEMMA DialRecovers ==
    ASSUME Recoverable, IndInv, ObjectsFit, NEW t \in Tasks, pc[t] \in Working,
           NEW P, P = PartOf(t), NEW q, GoodProducer(q), q.proxy,
           q.connect_url = ServiceUrl, sess[P] = 0, StartCreateProducer(t, q),
           UNCHANGED <<clusterVars, created, sent, partition, result>>,
           Informed(t, P) => q.broker_addr = owner[P]
    PROVE  Recovers(t, P)
<1>1. P \in Parts /\ GoodProducer(Connect(q))
  BY WorkerFits, ConnectGood
<1>2. /\ tp' = [tp EXCEPT ![P] = Connect(q)]
      /\ rpc' = [rpc EXCEPT ![t] = Route(Connect(q))]
      /\ pc' = [pc EXCEPT ![t] = "creating"]
      /\ answer' = [answer EXCEPT ![t] = NoAddr]
  BY DEF StartCreateProducer
<1>3. /\ tp'[P] = Connect(q) /\ \A p \in Parts \ {P} : tp'[p] = tp[p]
      /\ rpc'[t] = Route(Connect(q)) /\ pc'[t] = "creating" /\ answer'[t] = NoAddr
      /\ \A u \in Tasks \ {t} : pc'[u] = pc[u] /\ rpc'[u] = rpc[u] /\ answer'[u] = answer[u]
  BY <1>1, <1>2 DEF IndInv, TypeOK, TaskTypeOK, ObjectTypeOK
<1>4. /\ Connect(q).connect_url = ServiceUrl /\ Connect(q).proxy
      /\ Connect(q).broker_addr = q.broker_addr
      /\ Route(Connect(q)).header = q.broker_addr
  BY ConnectFields
<1>5. faults <= faults' /\ UNCHANGED <<alive, owner, sess, faults>>
  BY DEF IndInv, TypeOK, ClusterTypeOK, clusterVars
<1>6. Local(t, P)
  BY <1>3, <1>5 DEF Local
<1>7. LocalFits(t, P)
  BY <1>3, <1>4, <1>5 DEF LocalFits, Awaits
<1>8. StaysInformed(t, P)
  BY <1>3, <1>4, <1>5 DEF StaysInformed, Informed, InLookup
<1> QED
  BY <1>6, <1>7, <1>8 DEF Recovers

\* The task applies the answer to its object, whose session is gone.
LEMMA LookupReturnsRecovers ==
    ASSUME Recoverable, IndInv, ObjectsFit, NEW t \in Tasks, LookupReturns(t),
           NEW P, P = PartOf(t)
    PROVE  Recovers(t, P)
<1> DEFINE q == SetAddress(tp[P], answer[t])
<1>0. /\ pc[t] \in Working /\ pc[t] \in Seeking /\ pc[t] # "creating" /\ InLookup(t)
      /\ answer[t] # NoAddr
      /\ UNCHANGED <<clusterVars, created, sent, partition, result>>
      /\ UNCHANGED <<alive, owner, sess, faults>>
  BY DEF LookupReturns, InLookup, Working, Seeking, callVars, clusterVars
<1>1. P \in Parts /\ sess[P] = 0 /\ GoodProducer(tp[P]) /\ answer[t] \in BrokerAddress
  BY <1>0, WorkerFits
<1>2. /\ q.broker_addr = answer[t].broker_url /\ q.connect_url = ServiceUrl
      /\ q.proxy /\ GoodProducer(q)
  <2>1. answer[t].proxy /\ answer[t].connect_url = ServiceUrl
    BY <1>0, WorkerFits
  <2> QED
    BY <1>1, <2>1, AddressFields, SetAddressGood
<1>3. Informed(t, P) => q.broker_addr = owner[P]
  BY <1>0, <1>2 DEF Informed
<1>4. faults <= faults'
  BY <1>0 DEF IndInv, TypeOK, ClusterTypeOK
<1>5. CASE pc[t] = "lookup" /\ StartCreateProducer(t, q)
  BY <1>0, <1>1, <1>2, <1>3, <1>5, DialRecovers
<1>6. CASE /\ pc[t] = "lookupAgain"
           /\ tp' = [tp EXCEPT ![P] = q]
           /\ pc' = [pc EXCEPT ![t] = "createBackoff"]
           /\ answer' = [answer EXCEPT ![t] = NoAddr]
           /\ UNCHANGED rpc
  <2>1. /\ tp'[P] = q /\ \A p \in Parts \ {P} : tp'[p] = tp[p]
        /\ pc'[t] = "createBackoff" /\ answer'[t] = NoAddr
        /\ \A u \in Tasks \ {t} : pc'[u] = pc[u] /\ rpc'[u] = rpc[u] /\ answer'[u] = answer[u]
    BY <1>1, <1>6 DEF IndInv, TypeOK, TaskTypeOK, ObjectTypeOK
  <2>2. Local(t, P)
    BY <1>0, <1>4, <2>1 DEF Local
  <2>3. LocalFits(t, P)
    BY <1>0, <1>1, <1>2, <2>1 DEF LocalFits, Awaits
  <2>4. StaysInformed(t, P)
    BY <1>6 DEF StaysInformed, Informed
  <2> QED
    BY <2>2, <2>3, <2>4 DEF Recovers
<1>7. CASE /\ pc[t] = "relook"
           /\ tp' = [tp EXCEPT ![P] = q]
           /\ StartLookup(t, q.connect_url, "lookup")
  <2>1. /\ tp'[P] = q /\ \A p \in Parts \ {P} : tp'[p] = tp[p]
        /\ pc'[t] = "lookup" /\ answer'[t] = NoAddr
        /\ rpc'[t] = [url |-> ServiceUrl, header |-> NoHeader]
        /\ \A u \in Tasks \ {t} : pc'[u] = pc[u] /\ rpc'[u] = rpc[u] /\ answer'[u] = answer[u]
    BY <1>1, <1>2, <1>7 DEF StartLookup, IndInv, TypeOK, TaskTypeOK, ObjectTypeOK
  <2>2. Local(t, P)
    BY <1>0, <1>4, <2>1 DEF Local
  <2>3. LocalFits(t, P)
    BY <1>0, <1>1, <1>2, <2>1 DEF LocalFits, Awaits
  <2>4. StaysInformed(t, P)
    BY <1>0, <2>1 DEF StaysInformed, Informed, InLookup
  <2> QED
    BY <2>2, <2>3, <2>4 DEF Recovers
<1> QED
  BY <1>5, <1>6, <1>7 DEF LookupReturns, AfterCreateLookup

\* A request is made from the object as it is, and is the newest of its call.
LEMMA RequestIsCurrent ==
    ASSUME IndInv, RequestsNumbered, NEW t \in Senders, NEW m, m = Cur(t)', m \in Msgs,
           NEW p, NEW q, GoodProducer(q), q.proxy, StartSendMessage(t, m, p, q)
    PROVE  \A r \in net' : Awaits(t, r)' =>
              r.route.header = q.broker_addr /\ r.producer_id = q.producer_id
<1> SUFFICES ASSUME NEW r \in net', Awaits(t, r)'
             PROVE  r.route.header = q.broker_addr /\ r.producer_id = q.producer_id
  OBVIOUS
<1>1. r.msg = m /\ r.try = tries'[m] /\ tries'[m] = tries[m] + 1 /\ tries[m] \in Nat
  BY DEF Awaits, StartSendMessage, IndInv, TypeOK, CallTypeOK
<1>2. r \notin net
  BY <1>1 DEF RequestsNumbered
<1>3. r = SendRequest(q, p, m, tries[m] + 1)
  BY <1>2 DEF StartSendMessage
<1> QED
  BY <1>3, ConnectFields DEF SendRequest

\* TopicProducer.create returns with an object that fits, or whose session is gone.
LEMMA ReturnRecovers ==
    ASSUME Recoverable, IndInv, IndInv', ObjectsFit, RequestsNumbered,
           NEW t \in Tasks, pc[t] \in {"creating", "schema"},
           NEW P, P = PartOf(t), NEW q, GoodProducer(q), q.proxy, CreateReturns(t, q),
           tp'[P] = q, \A p \in Parts \ {P} : tp'[p] = tp[p] /\ sess'[p] = sess[p],
           q.connect_url = ServiceUrl, sess'[P] # 0 => Fits(P)',
           UNCHANGED <<alive, owner, faults, sent, partition, result, rpc, answer>>
    PROVE  Recovers(t, P)
<1>1. /\ P \in Parts /\ pc[t] \in Working /\ (t \in Senders => created /\ Cur(t) \in Msgs)
      /\ (t \in Parts => t \notin Senders)
      /\ answer[t] # NoAddr => answer[t].proxy /\ answer[t].connect_url = ServiceUrl
  BY WorkerFits DEF Working
<1>2. faults <= faults'
  BY DEF IndInv, TypeOK, ClusterTypeOK
<1>3. CASE /\ t \in Parts
           /\ pc' = [pc EXCEPT ![t] = "done"]
           /\ created' = (\A p \in Parts : pc'[p] = "done")
  <2>1. ~ created
    BY <1>1, <1>3, WorkingTask
  <2>2. pc'[t] = "done" /\ \A u \in Tasks \ {t} : pc'[u] = pc[u]
    BY <1>3 DEF IndInv, TypeOK, TaskTypeOK
  <2>3. Local(t, P)
    BY <1>2, <2>1, <2>2 DEF Local
  <2>4. LocalFits(t, P)
    BY <1>1, <1>3, <2>2 DEF LocalFits, Seeking
  <2>5. StaysInformed(t, P)
    BY <1>1, <1>3, <2>2 DEF StaysInformed, Informed, InLookup
  <2> QED
    BY <2>3, <2>4, <2>5 DEF Recovers
<1>4. CASE t \in Senders /\ StartSendMessage(t, Cur(t), P, q) /\ UNCHANGED created
  <2>1. pc'[t] = "sending" /\ \A u \in Tasks \ {t} : pc'[u] = pc[u]
    BY <1>4 DEF StartSendMessage, IndInv, TypeOK, TaskTypeOK
  <2>2. Local(t, P)
    BY <1>2, <1>4, <2>1 DEF Local
  <2>3. Cur(t)' = Cur(t)
    BY DEF Cur
  <2>4. \A r \in net' : Awaits(t, r)' =>
            r.route.header = q.broker_addr /\ r.producer_id = q.producer_id
    BY <1>1, <1>4, <2>3, RequestIsCurrent
  <2>5. LocalFits(t, P)
    BY <1>1, <1>4, <2>1, <2>4 DEF LocalFits, Seeking
  <2>6. StaysInformed(t, P)
    BY <1>1, <1>4, <2>1 DEF StaysInformed, Informed, InLookup
  <2> QED
    BY <2>2, <2>5, <2>6 DEF Recovers
<1> QED
  BY <1>3, <1>4 DEF CreateReturns

\* The broker that is asked is the one that the header names.
LEMMA CreatingReaches ==
    ASSUME Recoverable, IndInv, ObjectsFit, NEW t \in Tasks, pc[t] = "creating",
           NEW P, P = PartOf(t)
    PROVE  /\ rpc[t].header = tp[P].broker_addr /\ rpc[t].header # NoHeader
           /\ Reach(rpc[t].url, rpc[t].header) = {tp[P].broker_addr}
<1>1. tp[P].proxy /\ rpc[t].header = tp[P].broker_addr /\ GoodProducer(tp[P])
  BY WorkerFits DEF Working
<1> QED
  BY <1>1, ClusterAssumption DEF Reach, GoodProducer

\* The session that is opened is at the broker that the object names.
LEMMA CreateAcceptedRecovers ==
    ASSUME Recoverable, IndInv, IndInv', ObjectsFit, RequestsNumbered,
           NEW t \in Tasks, CreateAccepted(t), NEW P, P = PartOf(t)
    PROVE  Recovers(t, P)
<1> DEFINE q == Created(tp[P], nextId)
<1>0. /\ pc[t] = "creating" /\ pc[t] \in Working
      /\ UNCHANGED <<alive, owner, faults, sent, partition, result, rpc, answer>>
      /\ tp' = [tp EXCEPT ![P] = q]
      /\ sess' = [sess EXCEPT ![P] = nextId]
  BY DEF CreateAccepted, Working, Register
<1>1. /\ P \in Parts /\ GoodProducer(tp[P]) /\ tp[P].proxy /\ tp[P].connect_url = ServiceUrl
      /\ t \in Senders => created
      /\ answer[t] # NoAddr => answer[t].proxy /\ answer[t].connect_url = ServiceUrl
  BY <1>0, WorkerFits
<1>2. tp[P].broker_addr = owner[P] /\ owner[P] \in alive
  <2>1. \E b \in Brokers : Accepts(t, b)
    BY DEF CreateAccepted
  <2>2. PICK b \in Brokers : Accepts(t, b)
    BY <2>1
  <2>3. b \in Reach(rpc[t].url, rpc[t].header) /\ b \in alive /\ b = owner[P]
    BY <2>2 DEF Accepts
  <2>4. Reach(rpc[t].url, rpc[t].header) = {tp[P].broker_addr}
    BY <1>0, CreatingReaches
  <2> QED
    BY <2>3, <2>4
<1>3. /\ q.broker_addr = owner[P] /\ q.connect_url = ServiceUrl /\ q.proxy
      /\ q.producer_id = nextId /\ GoodProducer(q)
  <2>1. nextId \in Nat
    BY DEF IndInv, TypeOK, ClusterTypeOK
  <2> QED
    BY <1>1, <1>2, <2>1, CreatedFields, CreatedGood
<1>4. /\ tp'[P] = q /\ sess'[P] = nextId
      /\ \A p \in Parts \ {P} : tp'[p] = tp[p] /\ sess'[p] = sess[p]
  BY <1>0, <1>1 DEF IndInv, TypeOK, ObjectTypeOK, ClusterTypeOK
<1>5. Fits(P)'
  BY <1>0, <1>2, <1>3, <1>4 DEF Fits
<1>6. CASE CreateReturns(t, q)
  <2> HIDE DEF q
  <2> QED
    BY <1>0, <1>3, <1>4, <1>5, <1>6, ReturnRecovers
<1>7. CASE pc' = [pc EXCEPT ![t] = "schema"] /\ UNCHANGED created
  <2>1. pc'[t] = "schema" /\ \A u \in Tasks \ {t} : pc'[u] = pc[u]
    BY <1>7 DEF IndInv, TypeOK, TaskTypeOK
  <2>2. faults <= faults'
    BY <1>0 DEF IndInv, TypeOK, ClusterTypeOK
  <2>3. Local(t, P)
    BY <1>0, <1>4, <1>7, <2>1, <2>2 DEF Local
  <2>4. LocalFits(t, P)
    BY <1>0, <1>1, <1>3, <1>4, <1>5, <2>1 DEF LocalFits, Seeking, Awaits
  <2>5. StaysInformed(t, P)
    BY <1>0, <2>1 DEF StaysInformed, Informed, InLookup
  <2> QED
    BY <2>3, <2>4, <2>5 DEF Recovers
<1> QED
  BY <1>6, <1>7 DEF CreateAccepted

\* The answers of the schema registry change nothing about the object.
LEMMA SchemaResolvedRecovers ==
    ASSUME Recoverable, IndInv, IndInv', ObjectsFit, RequestsNumbered,
           NEW t \in Tasks, SchemaResolved(t), NEW P, P = PartOf(t)
    PROVE  Recovers(t, P)
<1>1. /\ pc[t] = "schema" /\ pc[t] \in Working /\ CreateReturns(t, tp[P])
      /\ UNCHANGED <<alive, owner, sess, faults, sent, partition, result, rpc, answer, tp>>
  BY DEF SchemaResolved, Working, clusterVars
<1>2. /\ GoodProducer(tp[P]) /\ tp[P].proxy /\ tp[P].connect_url = ServiceUrl
      /\ sess[P] # 0 => Fits(P)
  BY <1>1, WorkerFits
<1>3. sess'[P] # 0 => Fits(P)'
  BY <1>1, <1>2 DEF Fits
<1> QED
  BY <1>1, <1>2, <1>3, ReturnRecovers

\* TopicProducer.create meets an error: it tries again when its session is gone,
\* or raises. Neither touches the object.
LEMMA ErrorFits ==
    ASSUME Recoverable, IndInv, IndInv', ObjectsFit, NEW t \in Tasks, pc[t] \in Working,
           NEW P, P = PartOf(t), NEW code, CreateError(t, code),
           is_retryable(code) => sess[P] = 0,
           UNCHANGED <<alive, owner, sess, tp, created, sent, partition>>,
           faults <= faults'
    PROVE  Local(t, P) /\ LocalFits(t, P)
<1>1. /\ P \in Parts /\ tp[P].connect_url = ServiceUrl
      /\ sess[P] # 0 => Fits(P)
      /\ t \in Senders => Cur(t) \in Msgs
      /\ answer[t] # NoAddr => answer[t].proxy /\ answer[t].connect_url = ServiceUrl
  BY WorkerFits
<1>2. sess'[P] # 0 => Fits(P)'
  BY <1>1 DEF Fits
<1>3. CASE /\ is_retryable(code)
           /\ StartLookup(t, tp[P].connect_url, "lookupAgain")
           /\ UNCHANGED result
  <2>1. /\ pc'[t] = "lookupAgain" /\ answer'[t] = NoAddr
        /\ rpc'[t] = [url |-> ServiceUrl, header |-> NoHeader]
        /\ \A u \in Tasks \ {t} : pc'[u] = pc[u] /\ rpc'[u] = rpc[u] /\ answer'[u] = answer[u]
    BY <1>1, <1>3 DEF StartLookup, IndInv, TypeOK, TaskTypeOK
  <2>2. Local(t, P)
    BY <1>3, <2>1 DEF Local
  <2>3. LocalFits(t, P)
    BY <1>1, <1>2, <1>3, <2>1 DEF LocalFits, Awaits
  <2> QED
    BY <2>2, <2>3
<1>4. CASE CreateRaises(t) /\ UNCHANGED <<rpc, answer>>
  <2>1. /\ pc'[t] \in {"failed", "idle"} /\ \A u \in Tasks \ {t} : pc'[u] = pc[u]
        /\ \A m \in Msgs : result'[m] = result[m] \/ (t \in Senders /\ m = Cur(t))
    BY <1>4 DEF CreateRaises, EndCall, IndInv, TypeOK, TaskTypeOK, CallTypeOK
  <2>2. Local(t, P)
    BY <1>4, <2>1 DEF Local
  <2>3. LocalFits(t, P)
    BY <1>1, <1>2, <1>4, <2>1 DEF LocalFits, Awaits, Seeking
  <2> QED
    BY <2>2, <2>3
<1> QED
  BY <1>3, <1>4 DEF CreateError

\* A CreateProducer that is turned down has gone to a broker that is not the
\* owner, or to one that is down: an informed call meets neither.
LEMMA CreateRefusedRecovers ==
    ASSUME Recoverable, IndInv, IndInv', ObjectsFit, NEW t \in Tasks, CreateRefused(t),
           NEW P, P = PartOf(t)
    PROVE  Recovers(t, P)
<1>1. /\ pc[t] = "creating" /\ pc[t] \in Working
      /\ UNCHANGED <<alive, owner, sess, tp, created, sent, partition>>
  BY DEF CreateRefused, Working
<1>2. sess[P] = 0 /\ FaultCodes = {}
  BY <1>1, WorkerFits DEF Seeking
<1>3. UNCHANGED faults /\ \E code : CreateError(t, code)
  BY <1>2 DEF CreateRefused
<1>4. Local(t, P) /\ LocalFits(t, P)
  <2>1. faults <= faults'
    BY <1>3 DEF IndInv, TypeOK, ClusterTypeOK
  <2> QED
    BY <1>1, <1>2, <1>3, <2>1, ErrorFits
<1>5. ~ Informed(t, P)
  <2> SUFFICES ASSUME Informed(t, P) PROVE FALSE
    OBVIOUS
  <2>1. owner[P] \in alive /\ Reach(rpc[t].url, rpc[t].header) = {owner[P]}
    BY <1>1, CreatingReaches DEF Informed
  <2> QED
    BY <1>2, <2>1 DEF CreateRefused, Unreachable
<1> QED
  BY <1>4, <1>5 DEF Recovers, StaysInformed

\* The registry is asked at the gateway, which is up, but does not know the
\* version: create() raises, and a fault counts for it.
LEMMA SchemaFailsRecovers ==
    ASSUME Recoverable, IndInv, IndInv', ObjectsFit, NEW t \in Tasks, SchemaFails(t),
           NEW P, P = PartOf(t)
    PROVE  Recovers(t, P)
<1>0. ~ Unreachable(ServiceUrl, NoHeader)
  BY GatewayReaches DEF ObjectsFit
<1>1. /\ pc[t] \in Working /\ Fault /\ FaultCodes = {}
      /\ \E code \in FaultCodes \cup {"ValueError"} : CreateError(t, code)
      /\ UNCHANGED <<alive, owner, sess, tp, created, sent, partition>>
  BY <1>0 DEF SchemaFails, Working, Recoverable
<1>2. CreateError(t, "ValueError") /\ ~ is_retryable("ValueError")
  BY <1>1 DEF is_retryable
<1>3. faults' = faults + 1 /\ faults \in Nat
  BY <1>1, ClusterAssumption DEF Fault, IndInv, TypeOK, ClusterTypeOK
<1>4. Local(t, P) /\ LocalFits(t, P)
  BY <1>1, <1>2, <1>3, ErrorFits
<1>5. faults' # faults
  BY <1>3
<1> QED
  BY <1>4, <1>5 DEF Recovers, StaysInformed

\* The sleep of create() ends: the address is the last that a lookup has told.
LEMMA WakeCreateRecovers ==
    ASSUME Recoverable, IndInv, ObjectsFit, NEW t \in Tasks, WakeCreate(t),
           NEW P, P = PartOf(t)
    PROVE  Recovers(t, P)
<1>1. /\ pc[t] = "createBackoff" /\ pc[t] \in Working /\ pc[t] \in Seeking
      /\ StartCreateProducer(t, tp[P])
      /\ UNCHANGED <<clusterVars, created, sent, partition, result>>
  BY DEF WakeCreate, Working, Seeking, callVars
<1>2. GoodProducer(tp[P]) /\ tp[P].proxy /\ tp[P].connect_url = ServiceUrl /\ sess[P] = 0
  BY <1>1, WorkerFits
<1>3. ~ Informed(t, P)
  BY <1>1 DEF Informed
<1> QED
  BY <1>1, <1>2, <1>3, DialRecovers

\* The sleep of send() ends: the request is made from the object as it is.
LEMMA WakeSendRecovers ==
    ASSUME Recoverable, IndInv, ObjectsFit, RequestsNumbered,
           NEW t \in Tasks, WakeSend(t), NEW P, P = PartOf(t)
    PROVE  Recovers(t, P)
<1>1. /\ pc[t] = "backoff" /\ pc[t] \in Working
      /\ StartSendMessage(t, Cur(t), P, tp[P])
      /\ UNCHANGED <<alive, owner, sess, faults, created, sent, partition, result, tp, rpc, answer>>
  BY DEF WakeSend, Working, clusterVars, objectVars
<1>2. /\ P \in Parts /\ GoodProducer(tp[P]) /\ tp[P].connect_url = ServiceUrl
      /\ sess[P] # 0 => Fits(P)
      /\ answer[t] # NoAddr => answer[t].proxy /\ answer[t].connect_url = ServiceUrl
  BY <1>1, WorkerFits
<1>3. t \in Senders /\ tp[P].proxy /\ Cur(t) \in Msgs
  BY <1>1, WorkerFits DEF IndInv, TaskStates, Tasks
<1>4. pc'[t] = "sending" /\ \A u \in Tasks \ {t} : pc'[u] = pc[u]
  BY <1>1 DEF StartSendMessage, IndInv, TypeOK, TaskTypeOK
<1>5. faults <= faults'
  BY <1>1 DEF IndInv, TypeOK, ClusterTypeOK
<1>6. Local(t, P)
  BY <1>1, <1>4, <1>5 DEF Local
<1>7. \A r \in net' : Awaits(t, r)' =>
          r.route.header = tp[P].broker_addr /\ r.producer_id = tp[P].producer_id
  <2>1. Cur(t)' = Cur(t)
    BY <1>1 DEF Cur
  <2> QED
    BY <1>1, <1>2, <1>3, <2>1, RequestIsCurrent
<1>8. LocalFits(t, P)
  BY <1>1, <1>2, <1>3, <1>4, <1>7 DEF LocalFits, Seeking, Fits
<1>9. StaysInformed(t, P)
  BY <1>1, <1>4 DEF StaysInformed, Informed, InLookup
<1> QED
  BY <1>6, <1>8, <1>9 DEF Recovers

\* A request that its sender waits for goes to the broker that the object names,
\* with the id that the object has: with a session there it is not turned down.
LEMMA RejectedLost ==
    ASSUME Recoverable, IndInv, ObjectsFit, NEW r \in net, RejectMessage(r),
           NEW t \in Senders, Awaits(t, r), NEW P, P = PartOf(t)
    PROVE  sess[P] = 0
<1> SUFFICES ASSUME sess[P] # 0 PROVE FALSE
  OBVIOUS
<1>1. pc[t] \in Working /\ t \in Tasks /\ r.msg = Cur(t)
  BY DEF Awaits, Working, Tasks
<1>2. P \in Parts /\ Fits(P) /\ GoodProducer(tp[P]) /\ t \notin Parts
  BY <1>1, WorkerFits
<1>3. r.route.header = tp[P].broker_addr /\ r.producer_id = tp[P].producer_id
  BY DEF ObjectsFit, RequestsCurrent
<1>4. r.part = P
  BY <1>1, <1>2 DEF IndInv, Delivery, RequestsRouted, PartOf
<1>5. Reach(r.route.url, r.route.header) = {owner[P]}
  BY <1>2, <1>3, ClusterAssumption DEF Fits, GoodProducer, Reach
<1> QED
  BY <1>2, <1>3, <1>4, <1>5 DEF RejectMessage, Unreachable, Fits

\* A sender whose request is turned down has no session, and retries; the call
\* of a sender whose request is stored returns.
LEMMA AnswerRecovers ==
    ASSUME Recoverable, IndInv, IndInv', ObjectsFit, NEW r \in net, Answer(r),
           NEW t \in Senders, Awaits(t, r), NEW P, P = PartOf(t)
    PROVE  Recovers(t, P)
<1>1. /\ t \in Tasks /\ pc[t] = "sending" /\ pc[t] \in Working
      /\ r.msg = Cur(t) /\ r.msg[1] = t
      /\ UNCHANGED <<alive, owner, sess, faults, created, sent, partition, tp, tries>>
      /\ net' \subseteq net
  BY DEF Awaits, Working, Tasks, Cur, Answer, StoreMessage, RejectMessage, clusterVars, objectVars
<1>2. /\ P \in Parts /\ tp[P].connect_url = ServiceUrl
      /\ sess[P] # 0 => Fits(P)
      /\ Cur(t) \in Msgs
      /\ answer[t] # NoAddr => answer[t].proxy /\ answer[t].connect_url = ServiceUrl
  BY <1>1, WorkerFits
<1>3. sess'[P] # 0 => Fits(P)'
  BY <1>1, <1>2 DEF Fits
<1>4. faults <= faults'
  BY <1>1 DEF IndInv, TypeOK, ClusterTypeOK
<1>5. CASE StoreMessage(r)
  <2>1. /\ result' = [result EXCEPT ![Cur(t)] = "ok"] /\ UNCHANGED <<rpc, answer>>
        /\ pc'[t] = "idle" /\ \A u \in Tasks \ {t} : pc'[u] = pc[u]
    BY <1>1, <1>5 DEF StoreMessage, EndCall, IndInv, TypeOK, TaskTypeOK
  <2>2. /\ result'[Cur(t)] = "ok" /\ \A m \in Msgs : result'[m] = result[m] \/ m = Cur(t)
    BY <1>2, <2>1 DEF IndInv, TypeOK, CallTypeOK
  <2>3. Local(t, P)
    BY <1>1, <1>4, <2>1, <2>2 DEF Local
  <2>4. LocalFits(t, P)
    BY <1>1, <1>2, <1>3, <2>1 DEF LocalFits, Awaits, Seeking
  <2>5. StaysInformed(t, P)
    BY <1>1, <2>1, <2>2 DEF StaysInformed, Informed, InLookup
  <2> QED
    BY <2>3, <2>4, <2>5 DEF Recovers
<1>6. CASE RejectMessage(r)
  <2>1. sess[P] = 0
    BY <1>6, RejectedLost
  <2>2. PICK code \in RejectCodes \cup {"UNAVAILABLE"} : SendError(t, code)
    BY <1>1, <1>6 DEF RejectMessage
  <2>3. is_retryable(code)
    BY DEF Recoverable, is_retryable
  <2>4. /\ result' = result /\ \A u \in Tasks \ {t} : pc'[u] = pc[u] /\ rpc'[u] = rpc[u] /\ answer'[u] = answer[u]
        /\ \/ pc'[t] = "backoff" /\ answer'[t] = answer[t]
           \/ /\ pc'[t] = "relook" /\ answer'[t] = NoAddr
              /\ rpc'[t] = [url |-> ServiceUrl, header |-> NoHeader]
    <3>1. CASE pc' = [pc EXCEPT ![t] = "backoff"] /\ UNCHANGED <<rpc, answer, result>>
      BY <1>1, <3>1 DEF IndInv, TypeOK, TaskTypeOK
    <3>2. CASE StartLookup(t, tp[P].connect_url, "relook") /\ UNCHANGED result
      BY <1>1, <1>2, <3>2 DEF StartLookup, IndInv, TypeOK, TaskTypeOK
    <3> QED
      BY <2>2, <2>3, <3>1, <3>2 DEF SendError
  <2>5. Local(t, P)
    BY <1>1, <1>4, <2>4 DEF Local
  <2>6. LocalFits(t, P)
    BY <1>1, <1>2, <1>3, <2>1, <2>4 DEF LocalFits, Awaits
  <2>7. StaysInformed(t, P)
    BY <1>1, <2>4 DEF StaysInformed, Informed, InLookup
  <2> QED
    BY <2>5, <2>6, <2>7 DEF Recovers
<1> QED
  BY <1>5, <1>6 DEF Answer

\* The steps of a task, and the steps that no recoverable instance takes.
LEMMA TaskRecovers ==
    ASSUME Recoverable, IndInv, IndInv', ObjectsFit, RequestsNumbered, NEW t \in Tasks,
           TaskStep(t) \/ CreateLost(t) \/ SchemaFails(t) \/ SendFault(t)
    PROVE  pc[t] \in Working /\ Recovers(t, PartOf(t))
<1>1. ~ LookupFails(t) /\ ~ CreateLost(t) /\ ~ SendFault(t)
  BY LookupsAnswered DEF CreateLost, SendFault, Recoverable
<1>2. CASE ServeLookup(t) \/ LookupReturns(t)
  BY <1>2, ServeLookupRecovers, LookupReturnsRecovers
     DEF ServeLookup, LookupReturns, InLookup, Working
<1>3. CASE CreateAccepted(t) \/ CreateRefused(t) \/ WakeCreate(t)
  BY <1>3, CreateAcceptedRecovers, CreateRefusedRecovers, WakeCreateRecovers
     DEF CreateAccepted, CreateRefused, WakeCreate, Working
<1>4. CASE SchemaResolved(t) \/ SchemaFails(t)
  BY <1>4, SchemaResolvedRecovers, SchemaFailsRecovers DEF SchemaResolved, SchemaFails, Working
<1>5. CASE WakeSend(t)
  BY <1>5, WakeSendRecovers DEF WakeSend, Working
<1> QED
  BY <1>1, <1>2, <1>3, <1>4, <1>5 DEF TaskStep

\* A step that changes no call, no session and no address.
Undisturbed ==
    /\ UNCHANGED <<alive, owner, sess, created, pc, rpc, answer, sent, partition, tries, result>>
    /\ faults <= faults'
    /\ net' \subseteq net
    /\ \A p \in Parts : /\ tp'[p].broker_addr = tp[p].broker_addr
                        /\ tp'[p].connect_url = tp[p].connect_url
                        /\ tp'[p].proxy = tp[p].proxy
                        /\ tp'[p].producer_id = tp[p].producer_id

\* Such a step keeps what the objects know.
LEMMA UndisturbedFits ==
    ASSUME Recoverable, IndInv, IndInv', ObjectsFit, Undisturbed
    PROVE  ObjectsFit'
<1>0. \A t \in Tasks : PartOf(t)' = PartOf(t) /\ Cur(t)' = Cur(t)
  BY DEF Undisturbed, PartOf, Cur
<1>1. BrokersDown'
  <2>1. IsFiniteSet(Brokers) => Cardinality(Brokers \ alive) \in Nat
    BY FS_Difference, FS_CardinalityType
  <2>2. faults \in Nat /\ faults' \in Nat
    BY ClusterAssumption DEF IndInv, TypeOK, ClusterTypeOK
  <2> QED
    BY <2>1, <2>2 DEF ObjectsFit, BrokersDown, Undisturbed
<1>2. Dials'
  BY DEF ObjectsFit, Dials, Undisturbed, InLookup
<1>3. SessionsKnown'
  BY DEF ObjectsFit, SessionsKnown, Undisturbed, Fits
<1>4. Seekers'
  <2> SUFFICES ASSUME NEW t \in Tasks
               PROVE  /\ pc[t] \in Seeking => sess[PartOf(t)] = 0
                      /\ pc[t] \in {"creating", "createBackoff", "schema"} =>
                            tp'[PartOf(t)].proxy
                      /\ pc[t] = "creating" => rpc[t].header = tp'[PartOf(t)].broker_addr
    BY <1>0 DEF Seekers, Undisturbed
  <2>1. pc[t] \in {"creating", "createBackoff", "schema"} => PartOf(t) \in Parts
    BY WorkingTask DEF Working
  <2> QED
    BY <2>1 DEF ObjectsFit, Seekers, Undisturbed
<1>5. RequestsCurrent'
  <2> SUFFICES ASSUME NEW t \in Senders, NEW r \in net', Awaits(t, r)'
               PROVE  (r.route.header = tp[PartOf(t)].broker_addr
                       /\ r.producer_id = tp[PartOf(t)].producer_id)'
    BY DEF RequestsCurrent
  <2>1. Awaits(t, r) /\ r \in net /\ t \in Tasks
    BY <1>0 DEF Awaits, Undisturbed, Tasks
  <2>2. PartOf(t) \in Parts
    BY <2>1, WorkingTask DEF Awaits, Working
  <2> QED
    BY <1>0, <2>1, <2>2 DEF ObjectsFit, RequestsCurrent, Undisturbed
<1>6. SendersWait'
  BY DEF ObjectsFit, SendersWait, Undisturbed, Busy
<1> QED
  BY <1>1, <1>2, <1>3, <1>4, <1>5, <1>6 DEF ObjectsFit

\* close(), the health checks, and answers that nobody waits for disturb nothing.
LEMMA UndisturbedSteps ==
    ASSUME IndInv, IndInv',
           \/ Close
           \/ \E p \in Parts : \E h \in health[p] : HealthStep(p, h)
           \/ \E r \in net : Answer(r) /\ ~ Awaits(r.msg[1], r)
           \/ UNCHANGED vars
    PROVE  Undisturbed
<1>1. faults \in Nat /\ faults' \in Nat /\ tp \in [Parts -> TopicProducerType]
  BY ClusterAssumption DEF IndInv, TypeOK, ClusterTypeOK, ObjectTypeOK
<1>2. CASE Close
  <2>1. \A p \in Parts : tp'[p] = tp[p] \/ tp'[p] = Stop(tp[p])
    BY <1>2 DEF Close
  <2>2. \A p \in Parts : /\ Stop(tp[p]).broker_addr = tp[p].broker_addr
                         /\ Stop(tp[p]).connect_url = tp[p].connect_url
                         /\ Stop(tp[p]).proxy = tp[p].proxy
                         /\ Stop(tp[p]).producer_id = tp[p].producer_id
    BY <1>1 DEF Stop, TopicProducerType
  <2> QED
    BY <1>1, <1>2, <2>1, <2>2 DEF Undisturbed, Close, clusterVars, callVars
<1>3. ASSUME NEW p \in Parts, NEW h \in health[p], HealthStep(p, h) PROVE Undisturbed
  <2>1. CASE HealthClose(p, h)
    <3>1. tp' = [tp EXCEPT ![p] = [tp[p] EXCEPT !.stop_event = TRUE]]
      BY <2>1 DEF HealthClose
    <3>2. /\ tp'[p] = [tp[p] EXCEPT !.stop_event = TRUE]
          /\ \A x \in Parts \ {p} : tp'[x] = tp[x]
      BY <1>1, <3>1
    <3>3. \A x \in Parts : /\ tp'[x].broker_addr = tp[x].broker_addr
                           /\ tp'[x].connect_url = tp[x].connect_url
                           /\ tp'[x].proxy = tp[x].proxy
                           /\ tp'[x].producer_id = tp[x].producer_id
      <4>1. tp[p] \in TopicProducerType
        BY <1>1
      <4>2. /\ tp'[p].broker_addr = tp[p].broker_addr
            /\ tp'[p].connect_url = tp[p].connect_url
            /\ tp'[p].proxy = tp[p].proxy
            /\ tp'[p].producer_id = tp[p].producer_id
        BY <3>2, <4>1 DEF TopicProducerType
      <4> QED
        BY <3>2, <4>2
    <3> QED
      BY <1>1, <2>1, <3>3 DEF Undisturbed, HealthClose, clusterVars, callVars
  <2>2. CASE HealthFails(p, h) \/ HealthStops(p, h)
    <3>1. faults' = faults \/ faults' = faults + 1
      BY <2>2 DEF HealthFails, HealthStops, RpcFault, Fault, clusterVars
    <3> QED
      BY <1>1, <2>2, <3>1 DEF Undisturbed, HealthFails, HealthStops, clusterVars, callVars
  <2> QED
    BY <1>3, <2>1, <2>2 DEF HealthStep
<1>4. ASSUME NEW r \in net, Answer(r), ~ Awaits(r.msg[1], r) PROVE Undisturbed
  <2>1. UNCHANGED <<clusterVars, objectVars, sent, partition, tries, pc, rpc, answer, result>>
        /\ net' = net \ {r}
    <3>1. CASE StoreMessage(r)
      BY <1>4, <3>1 DEF StoreMessage
    <3>2. CASE RejectMessage(r)
      BY <1>4, <3>2 DEF RejectMessage
    <3> QED
      BY <1>4, <3>1, <3>2 DEF Answer
  <2> QED
    BY <1>1, <2>1 DEF Undisturbed, clusterVars, objectVars
<1>5. CASE UNCHANGED vars
  BY <1>1, <1>5 DEF Undisturbed, vars, clusterVars, objectVars, callVars
<1> QED
  BY <1>2, <1>3, <1>4, <1>5

\* A crash takes the sessions of a broker, a move that of a partition: none that
\* is left is at another broker than before.
LEMMA ClusterFits ==
    ASSUME Recoverable, IndInv, IndInv', ObjectsFit, Environment
    PROVE  ObjectsFit'
<1>0. /\ IsFiniteSet(Brokers) =>
            IsFiniteSet(Brokers \ alive) /\ Cardinality(Brokers \ alive) \in Nat
      /\ faults \in Nat /\ faults' \in Nat /\ alive \in SUBSET Brokers
      /\ sess \in [Parts -> Nat] /\ owner \in [Parts -> Brokers]
  <2>1. IsFiniteSet(Brokers) => IsFiniteSet(Brokers \ alive)
    BY FS_Difference
  <2> QED
    BY <2>1, FS_CardinalityType, ClusterAssumption DEF IndInv, TypeOK, ClusterTypeOK
<1>1. /\ UNCHANGED <<tp, created, pc, rpc, answer, sent, partition, tries, net>>
      /\ \A t \in Tasks : PartOf(t)' = PartOf(t) /\ Cur(t)' = Cur(t)
  BY DEF Environment, objectVars, callVars, PartOf, Cur
<1>2. /\ BrokersDown'
      /\ \A p \in Parts : \/ sess'[p] = 0
                          \/ /\ sess'[p] = sess[p] /\ owner'[p] = owner[p]
                             /\ owner[p] \in alive => owner[p] \in alive'
  <2>1. ASSUME NEW b \in Brokers, Crash(b)
        PROVE  /\ BrokersDown'
               /\ \A p \in Parts : \/ sess'[p] = 0
                                   \/ /\ sess'[p] = sess[p] /\ owner'[p] = owner[p]
                                      /\ owner[p] \in alive => owner[p] \in alive'
    <3>1. Brokers \ alive' = (Brokers \ alive) \cup {b} /\ b \notin Brokers \ alive
      BY <1>0, <2>1 DEF Crash
    <3>2. IsFiniteSet(Brokers) =>
              Cardinality(Brokers \ alive') = Cardinality(Brokers \ alive) + 1
      BY <1>0, <3>1, FS_AddElement
    <3>3. BrokersDown'
      BY <1>0, <2>1, <3>2 DEF Crash, Fault, ObjectsFit, BrokersDown
    <3> QED
      BY <1>0, <2>1, <3>3 DEF Crash, DropSessions
  <2>2. ASSUME NEW b \in Brokers, Restart(b)
        PROVE  /\ BrokersDown'
               /\ \A p \in Parts : \/ sess'[p] = 0
                                   \/ /\ sess'[p] = sess[p] /\ owner'[p] = owner[p]
                                      /\ owner[p] \in alive => owner[p] \in alive'
    <3>1. Brokers \ alive' \subseteq Brokers \ alive
      BY <2>2 DEF Restart
    <3>2. IsFiniteSet(Brokers) =>
              /\ Cardinality(Brokers \ alive') <= Cardinality(Brokers \ alive)
              /\ Cardinality(Brokers \ alive') \in Nat
      BY <1>0, <3>1, FS_Subset, FS_CardinalityType
    <3> QED
      BY <1>0, <2>2, <3>1, <3>2 DEF Restart, ObjectsFit, BrokersDown
  <2>3. ASSUME NEW p \in Parts, NEW b \in Brokers, Move(p, b)
        PROVE  /\ BrokersDown'
               /\ \A q \in Parts : \/ sess'[q] = 0
                                   \/ /\ sess'[q] = sess[q] /\ owner'[q] = owner[q]
                                      /\ owner[q] \in alive => owner[q] \in alive'
    <3>1. UNCHANGED alive /\ (faults' = faults \/ faults' = faults + 1)
      BY <2>3 DEF Move, Fault
    <3> QED
      BY <1>0, <2>3, <3>1 DEF Move, ObjectsFit, BrokersDown
  <2> QED
    BY <2>1, <2>2, <2>3 DEF Environment, ClusterStep
<1>3. Dials'
  BY <1>1 DEF ObjectsFit, Dials, InLookup
<1>4. SessionsKnown'
  BY <1>1, <1>2 DEF ObjectsFit, SessionsKnown, Fits
<1>5. Seekers'
  <2>1. \A t \in Tasks : pc[t] \in Seeking => PartOf(t) \in Parts
    <3> SUFFICES ASSUME NEW t \in Tasks, pc[t] \in Seeking PROVE PartOf(t) \in Parts
      OBVIOUS
    <3>1. CASE pc[t] = "new"
      BY <3>1 DEF IndInv, TaskStates, Tasks, PartOf
    <3>2. CASE pc[t] # "new"
      BY <3>2, WorkingTask DEF Seeking, Working
    <3> QED
      BY <3>1, <3>2
  <2> QED
    BY <1>1, <1>2, <2>1 DEF ObjectsFit, Seekers
<1>6. RequestsCurrent'
  BY <1>1 DEF ObjectsFit, RequestsCurrent, Awaits, Tasks
<1>7. SendersWait'
  BY <1>1 DEF ObjectsFit, SendersWait, Busy
<1> QED
  BY <1>2, <1>3, <1>4, <1>5, <1>6, <1>7 DEF ObjectsFit

\* The creators begin with a lookup at the url the client was configured with.
LEMMA CreateFits ==
    ASSUME Recoverable, IndInv, IndInv', ObjectsFit, Create
    PROVE  ObjectsFit'
<1>1. /\ UNCHANGED <<alive, owner, sess, faults, tp, created, answer, sent, partition, tries, net>>
      /\ \A t \in Tasks : PartOf(t)' = PartOf(t) /\ Cur(t)' = Cur(t)
      /\ \A p \in Parts : pc[p] = "new" /\ pc'[p] = "lookup"
      /\ \A p \in Parts : rpc'[p] = [url |-> ServiceUrl, header |-> NoHeader]
      /\ \A t \in Senders : pc'[t] = pc[t] /\ rpc'[t] = rpc[t]
      /\ Tasks = Parts \cup Senders
      /\ \A p \in Parts : sess[p] = 0 /\ PartOf(p) = p
  <2>1. \A p \in Parts : pc[p] = "new" /\ sess[p] = 0 /\ PartOf(p) = p
    BY DEF Create, ObjectsFit, Seekers, Seeking, Tasks, PartOf
  <2> QED
    BY <2>1, ProducerAssumption
       DEF Create, clusterVars, callVars, PartOf, Cur, Tasks, ObjectsFit, Dials
<1>2. BrokersDown' /\ SessionsKnown'
  BY <1>1 DEF ObjectsFit, BrokersDown, SessionsKnown, Fits
<1>3. Dials'
  BY <1>1 DEF ObjectsFit, Dials, InLookup
<1>4. Seekers'
  BY <1>1 DEF ObjectsFit, Seekers
<1>5. RequestsCurrent'
  BY <1>1 DEF ObjectsFit, RequestsCurrent, Awaits
<1>6. SendersWait'
  BY <1>1 DEF ObjectsFit, SendersWait, Busy
<1> QED
  BY <1>2, <1>3, <1>4, <1>5, <1>6 DEF ObjectsFit

\* A call begins only when all objects are registered; its first request is made
\* from the object of its partition.
LEMMA CallSendFits ==
    ASSUME Recoverable, IndInv, IndInv', ObjectsFit, RequestsNumbered,
           NEW t \in Senders, NEW k, NEW p \in Parts, CallSend(t, k, p)
    PROVE  /\ ObjectsFit'
           /\ \A m \in Msgs : result'[m] = result[m] \/ (m = Cur(t)' /\ pc'[t] # "idle") \/ result'[m] = "raised"
           /\ \A m \in Msgs : m[2] <= sent[t] => result'[m] = result[m]
           /\ pc[t] = "idle" /\ pc'[t] \in {"idle", "sending"} /\ t \in Tasks
<1> DEFINE m == <<t, sent[t] + 1>>
<1>0. /\ pc \in [Tasks -> PCs] /\ Parts \cap Senders = {} /\ Tasks = Parts \cup Senders
      /\ sent \in [Senders -> 0 .. MaxSends] /\ MaxSends \in Nat
      /\ result \in [Msgs -> {"new", "pending", "ok", "raised"}]
      /\ partition \in [Msgs -> Parts \cup {NoPart}]
      /\ \A u \in Senders : u = t
  BY ProducerAssumption DEF IndInv, TypeOK, TaskTypeOK, CallTypeOK, Tasks, Recoverable
<1>1. /\ pc[t] = "idle" /\ sent[t] < MaxSends
      /\ sent' = [sent EXCEPT ![t] = @ + 1]
      /\ UNCHANGED <<alive, owner, sess, faults, tp, created, rpc, answer>>
  BY DEF CallSend, clusterVars
<1>2. m \in Msgs /\ Cur(t)' = m /\ \A q \in Parts : PartOf(q) = q /\ PartOf(q)' = q
  BY <1>0, <1>1 DEF Msgs, Cur, PartOf
<1>3. /\ pc' = pc /\ UNCHANGED <<partition, tries, net>> /\ result' = [result EXCEPT ![m] = "raised"]
      \/ /\ created /\ result' = [result EXCEPT ![m] = "pending"]
         /\ partition' = [partition EXCEPT ![m] = p]
         /\ StartSendMessage(t, m, p, tp[p])
  BY DEF CallSend
<1>4. /\ pc'[t] \in {"idle", "sending"} /\ \A q \in Parts : pc'[q] = pc[q]
      /\ pc'[t] = "sending" => /\ created /\ PartOf(t)' = p
                               /\ StartSendMessage(t, m, p, tp[p])
      /\ \A x \in Msgs : \/ result'[x] = result[x]
                         \/ x = m /\ result'[x] = "raised"
                         \/ x = m /\ pc'[t] = "sending"
  BY <1>0, <1>1, <1>2, <1>3 DEF StartSendMessage, PartOf
<1>5. BrokersDown' /\ SessionsKnown'
  BY <1>1, <1>4 DEF ObjectsFit, BrokersDown, SessionsKnown, Fits
<1>6. Dials'
  BY <1>0, <1>1, <1>4 DEF ObjectsFit, Dials, InLookup
<1>7. Seekers'
  BY <1>0, <1>1, <1>2, <1>4 DEF ObjectsFit, Seekers, Seeking
<1>8. RequestsCurrent'
  <2> SUFFICES ASSUME NEW r \in net', Awaits(t, r)'
               PROVE  (r.route.header = tp[PartOf(t)].broker_addr
                       /\ r.producer_id = tp[PartOf(t)].producer_id)'
    BY <1>0 DEF RequestsCurrent
  <2>1. pc'[t] = "sending"
    BY DEF Awaits
  <2>2. GoodProducer(tp[p]) /\ tp[p].proxy
    BY <1>4, <2>1 DEF IndInv, GoodProducers, TaskStates, ObjectsFit, SessionsKnown
  <2>3. r.route.header = tp[p].broker_addr /\ r.producer_id = tp[p].producer_id
    <3> HIDE DEF m
    <3> QED
      BY <1>2, <1>4, <2>1, <2>2, RequestIsCurrent
  <2> QED
    BY <1>1, <1>4, <2>1, <2>3
<1>9. SendersWait'
  BY <1>0, <1>1, <1>4 DEF ObjectsFit, SendersWait, Busy
<1>10. \A x \in Msgs : x[2] <= sent[t] => x # m
  BY <1>0
<1> QED
  BY <1>0, <1>1, <1>2, <1>4, <1>5, <1>6, <1>7, <1>8, <1>9, <1>10 DEF ObjectsFit

\* What a step without a fault does to the calls of the senders: an informed one
\* does not raise and, unless the cluster changes, stays informed; one that
\* begins makes its first request.
CallsStayInformed ==
    \A t \in Senders : Busy(t) /\ Informed(t, PartOf(t)) /\ UNCHANGED faults =>
        /\ result'[Cur(t)] \in {result[Cur(t)], "ok"}
        /\ UNCHANGED <<alive, owner>> => /\ UNCHANGED partition[Cur(t)]
                                        /\ Informed(t, PartOf(t))'

CallsBegin ==
    \A m \in Msgs : result[m] = "new" /\ result'[m] = "pending" => pc'[m[1]] = "sending"

\* A step of task t is calm for its own call, and nothing for the others.
LEMMA RecoversCalls ==
    ASSUME Recoverable, IndInv, IndInv', CallStates, ObjectsFit,
           NEW t \in Tasks, pc[t] \in Working, Recovers(t, PartOf(t))
    PROVE  ObjectsFit' /\ CallsStayInformed /\ CallsBegin
<1> DEFINE P == PartOf(t)
<1>1. /\ Local(t, P) /\ LocalFits(t, P) /\ StaysInformed(t, P)
      /\ t \in Senders => Cur(t) \in Msgs /\ Busy(t)
  BY WorkingTask DEF Recovers, Busy, Working
<1>2. ObjectsFit'
  BY <1>1, LocalObjectsFit
<1>3. \A u \in Tasks : Cur(u)' = Cur(u) /\ PartOf(u)' = PartOf(u)
  BY <1>1 DEF Local, Cur, PartOf
<1>4. CallsStayInformed
  <2> SUFFICES ASSUME NEW u \in Senders, Busy(u), Informed(u, PartOf(u)), UNCHANGED faults
               PROVE  /\ UNCHANGED partition[Cur(u)]
                      /\ Informed(u, PartOf(u))'
                      /\ result'[Cur(u)] \in {result[Cur(u)], "ok"}
    BY DEF CallsStayInformed
  <2>1. UNCHANGED partition[Cur(u)]
    BY <1>1, <1>3 DEF Local, Tasks
  <2>2. CASE u = t
    BY <1>1, <1>3, <2>1, <2>2 DEF StaysInformed
  <2>3. CASE u # t
    <3>1. pc'[u] = pc[u] /\ rpc'[u] = rpc[u] /\ answer'[u] = answer[u] /\ PartOf(u)' = PartOf(u)
      BY <1>1, <1>3, <2>3 DEF Local, Tasks
    <3>2. Cur(u) \in Msgs /\ Cur(u) # Cur(t)
      BY <2>3, ProducerAssumption DEF IndInv, CallsUnderWay, TypeOK, CallTypeOK, Cur, Msgs
    <3> QED
      BY <1>1, <2>1, <3>1, <3>2 DEF Local, Informed, InLookup
  <2> QED
    BY <2>2, <2>3
<1>5. CallsBegin
  <2> SUFFICES ASSUME NEW m \in Msgs, result[m] = "new", result'[m] # "new" PROVE FALSE
    BY DEF CallsBegin
  <2>1. t \in Senders /\ m = Cur(t) /\ Busy(t)
    BY <1>1 DEF Local
  <2> QED
    BY <2>1 DEF CallStates, Cur
<1> QED
  BY <1>2, <1>4, <1>5

\* Where every step of a recoverable instance leads.
LEMMA StepRecovers ==
    ASSUME Recoverable, IndInv, IndInv', CallStates, ObjectsFit, RequestsNumbered, [Next]_vars
    PROVE  ObjectsFit' /\ CallsStayInformed /\ CallsBegin
<1>1. ASSUME NEW t \in Tasks,
             TaskStep(t) \/ CreateLost(t) \/ SchemaFails(t) \/ SendFault(t)
      PROVE  ObjectsFit' /\ CallsStayInformed /\ CallsBegin
  BY <1>1, TaskRecovers, RecoversCalls
<1>2. ASSUME NEW r \in net, Answer(r), Awaits(r.msg[1], r)
      PROVE  ObjectsFit' /\ CallsStayInformed /\ CallsBegin
  <2>1. r.msg[1] \in Senders /\ r.msg[1] \in Tasks
    BY DEF IndInv, TypeOK, MessageTypeOK, RequestType, Msgs, Tasks
  <2>2. pc[r.msg[1]] \in Working
    BY <1>2 DEF Awaits, Working
  <2> QED
    BY <1>2, <2>1, <2>2, AnswerRecovers, RecoversCalls
<1>3. ASSUME Undisturbed PROVE ObjectsFit' /\ CallsStayInformed /\ CallsBegin
  <2>1. ObjectsFit'
    BY <1>3, UndisturbedFits
  <2>2. CallsStayInformed
    BY <1>3 DEF Undisturbed, CallsStayInformed, Informed, InLookup, PartOf, Cur
  <2> QED
    BY <1>3, <2>1, <2>2 DEF Undisturbed, CallsBegin
<1>4. ASSUME Environment PROVE ObjectsFit' /\ CallsStayInformed /\ CallsBegin
  <2>1. UNCHANGED <<pc, rpc, answer, sent, partition, result>>
    BY <1>4 DEF Environment, callVars
  <2>2. CallsStayInformed
    BY <2>1 DEF CallsStayInformed, Informed, InLookup, PartOf, Cur
  <2> QED
    BY <1>4, <2>1, <2>2, ClusterFits DEF CallsBegin
<1>5. ASSUME Create PROVE ObjectsFit' /\ CallsStayInformed /\ CallsBegin
  <2>1. /\ \A t \in Senders : ~ Busy(t)
        /\ UNCHANGED result
    <3>1. \A t \in Senders : ~ created => ~ Busy(t)
      BY DEF ObjectsFit, SendersWait
    <3>2. ~ created
      BY <1>5, ProducerAssumption DEF Create, IndInv, TaskStates
    <3> QED
      BY <1>5, <3>1, <3>2 DEF Create, callVars
  <2> QED
    BY <1>5, <2>1, CreateFits DEF CallsStayInformed, CallsBegin
<1>6. ASSUME NEW t \in Senders, Send(t) \/ \E k \in Keys : SendWithKey(t, k)
      PROVE  ObjectsFit' /\ CallsStayInformed /\ CallsBegin
  <2>1. PICK k, p : p \in Parts /\ CallSend(t, k, p)
    BY <1>6, CallsSelect
  <2>2. /\ ObjectsFit' /\ pc[t] = "idle" /\ pc'[t] \in {"idle", "sending"}
        /\ \A m \in Msgs : result'[m] = result[m] \/ (m = Cur(t)' /\ pc'[t] # "idle")
                           \/ result'[m] = "raised"
    BY <2>1, CallSendFits
  <2>3. \A u \in Senders : u = t /\ ~ Busy(u)
    BY <2>2 DEF Busy, Recoverable
  <2> QED
    BY <2>2, <2>3 DEF CallsStayInformed, CallsBegin, Msgs
<1> QED
  BY <1>1, <1>2, <1>3, <1>4, <1>5, <1>6, UndisturbedSteps DEF Next, Tasks

\* Watching changes nothing about the specification.
LEMMA RecoveryIsSpec == RecoverySpec => Spec
<1>1. RecoveryInit => Init
  BY DEF RecoveryInit
<1>2. [Next /\ Watch]_recoveryVars => [Next]_vars
  BY DEF recoveryVars
<1> QED
  BY <1>1, <1>2, PTL DEF RecoverySpec, Spec

\* Only steps that are calm for a call keep it among the calm ones.
LEMMA CalmStep ==
    ASSUME Recoverable, IndInv, IndInv', CallStates, CallStates', RecoveryInv,
           RequestsNumbered, [Next /\ Watch]_recoveryVars
    PROVE  /\ RecoveryInv'
           /\ \A m \in calm : result'[m] = "raised" => faults' # faults
<1>1. ObjectsFit' /\ CallsStayInformed /\ CallsBegin
  BY StepRecovers DEF RecoveryInv, recoveryVars
<1>2. ASSUME NEW m \in calm
      PROVE  /\ m \in Msgs /\ m[1] \in Senders /\ result[m] = "pending"
             /\ Busy(m[1]) /\ m = Cur(m[1]) /\ PartOf(m[1]) = partition[m]
             /\ Informed(m[1], PartOf(m[1]))
  BY <1>2, ProducerAssumption
     DEF RecoveryInv, CalmCallsInformed, CallStates, Cur, Msgs, PartOf
<1>3. ASSUME NEW m \in calm, result'[m] = "raised" PROVE faults' # faults
  BY <1>1, <1>2, <1>3 DEF CallsStayInformed
<1>4. CalmCallsInformed'
  <2>1. CASE UNCHANGED recoveryVars
    BY <2>1 DEF recoveryVars, vars, clusterVars, callVars, RecoveryInv, CalmCallsInformed,
                Informed, InLookup
  <2>2. CASE Watch
    <3>1. calm' \subseteq Msgs
      BY <2>2 DEF Watch
    <3> SUFFICES ASSUME NEW m \in calm'
                 PROVE  result'[m] = "pending" /\ Informed(m[1], partition[m])'
      BY <3>1 DEF CalmCallsInformed
    <3>2. /\ m \in Msgs /\ result'[m] = "pending" /\ (m \in calm \/ result[m] = "new")
          /\ owner[partition'[m]] \in alive /\ UNCHANGED <<alive, owner, faults>>
      BY <2>2 DEF Watch, HealthyStep
    <3>3. CASE m \in calm
      <4>1. Cur(m[1])' = m /\ PartOf(m[1])' = partition'[m]
        BY <3>2, ProducerAssumption DEF CallStates, Cur, Msgs, PartOf
      <4> QED
        BY <1>1, <1>2, <3>2, <3>3, <4>1 DEF CallsStayInformed
    <3>4. CASE result[m] = "new"
      <4>1. pc'[m[1]] = "sending"
        BY <1>1, <3>2, <3>4 DEF CallsBegin
      <4> QED
        BY <3>2, <4>1 DEF Informed, InLookup
    <3> QED
      BY <3>2, <3>3, <3>4
  <2> QED
    BY <2>1, <2>2
<1> QED
  BY <1>1, <1>3, <1>4 DEF RecoveryInv

\* In the instances that Recoverable describes, a session is always one that the
\* object knows, and a call that has met a healthy cluster only has looked up the
\* owner that is still there.
THEOREM ProducerRecoveryInv ==
    ASSUME Recoverable
    PROVE  RecoverySpec => []RecoveryInv
<1>1. RecoveryInit => RecoveryInv
  <2> SUFFICES ASSUME RecoveryInit PROVE RecoveryInv
    OBVIOUS
  <2>1. /\ alive = Brokers /\ faults = 0 /\ net = {} /\ calm = {}
        /\ sess = [p \in Parts |-> 0] /\ tp = [p \in Parts |-> NewTopicProducer]
        /\ answer = [t \in Tasks |-> NoAddr]
        /\ \A p \in Parts : pc[p] = "new" /\ PartOf(p) \in Parts
        /\ \A t \in Senders : pc[t] = "idle"
        /\ Tasks = Parts \cup Senders
    BY ProducerAssumption DEF RecoveryInit, Init, ClusterInit, Tasks, PartOf
  <2>2. BrokersDown
    <3>1. Brokers \ alive = {}
      BY <2>1
    <3> QED
      BY <2>1, <3>1, FS_EmptySet DEF BrokersDown
  <2>3. Dials /\ SessionsKnown /\ Seekers /\ RequestsCurrent /\ SendersWait
    BY <2>1 DEF Dials, NewTopicProducer, InLookup, SessionsKnown, Seekers, Seeking,
                RequestsCurrent, SendersWait, Busy
  <2> QED
    BY <2>1, <2>2, <2>3 DEF RecoveryInv, ObjectsFit, CalmCallsInformed
<1>2. /\ IndInv /\ IndInv' /\ CallStates /\ CallStates' /\ RequestsNumbered
      /\ RecoveryInv /\ [Next /\ Watch]_recoveryVars
      => RecoveryInv'
  BY CalmStep
<1> QED
  BY <1>1, <1>2, RecoveryIsSpec, ProducerIndInv, ProducerCallStates, ProducerFaultsPay, PTL
     DEF RecoverySpec

\* A send() that has met a healthy cluster from its start on does not raise,
\* whatever crashes and moves there were before it: README.md's automatic
\* reconnection, for any number of brokers, partitions, calls and retries.
THEOREM ProducerCalmSendSucceeds ==
    ASSUME Recoverable
    PROVE  RecoverySpec => CalmSendSucceeds
<1>1. /\ IndInv /\ IndInv' /\ CallStates /\ CallStates' /\ RequestsNumbered
      /\ RecoveryInv /\ [Next /\ Watch]_recoveryVars
      => [\A m \in calm : result'[m] = "raised" => faults' # faults]_recoveryVars
  BY CalmStep
<1> QED
  BY <1>1, RecoveryIsSpec, ProducerIndInv, ProducerCallStates, ProducerFaultsPay,
     ProducerRecoveryInv, PTL DEF RecoverySpec, CalmSendSucceeds
=============================================================================
