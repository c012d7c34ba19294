--------------------------- MODULE ProducerPromise ---------------------------
(***************************************************************************)
(* Producer implements ReliableLog, for any brokers, partitions, tasks,    *)
(* keys, faults and retry options. From the effects of steps that this is  *)
(* shown with, two more properties follow: the order of the calls is kept, *)
(* and duplicates need faults (at the end of the module).                  *)
(*                                                                         *)
(* The abstract variables are variables of Producer, so what has to be     *)
(* shown is that each step, seen through them, is a step of ReliableLog or *)
(* a stutter. A step of Producer has one of five effects on them: nothing, *)
(* a call that picks a partition, a call that is turned down, a stored     *)
(* copy, a call that ends with an exception. StepEffect goes through the   *)
(* actions, and EffectIsPromised through the effects. The guards of the    *)
(* abstract actions speak of the results of calls, those of the code of    *)
(* what tasks wait for: CallStates, which every effect preserves, connects *)
(* the two.                                                                *)
(***************************************************************************)
EXTENDS ProducerProofs, FiniteSetTheorems

\* Every task is busy after the step exactly if it was before.
SameBusy == \A t \in Senders : Busy(t)' <=> Busy(t)

\* Nothing that the application or a reader of the logs sees.
Quiet ==
    /\ UNCHANGED <<sent, partition, result, log>>
    /\ SameBusy

\* The call of task t ends with an exception.
Ends(t) ==
    /\ Busy(t)
    /\ pc' = [pc EXCEPT ![t] = "idle"]
    /\ result' = [result EXCEPT ![Cur(t)] = "raised"]
    /\ UNCHANGED <<sent, partition, log>>

\* The next call of task t begins.
Begins(t) ==
    /\ ~ Busy(t)
    /\ sent[t] < MaxSends
    /\ sent' = [sent EXCEPT ![t] = @ + 1]
    /\ UNCHANGED log

\* It picks partition p.
Called(t, p) ==
    /\ Begins(t)
    /\ pc' = [pc EXCEPT ![t] = "sending"]
    /\ partition' = [partition EXCEPT ![<<t, sent[t] + 1>>] = p]
    /\ result' = [result EXCEPT ![<<t, sent[t] + 1>>] = "pending"]

\* It is turned down.
TurnedDown(t) ==
    /\ Begins(t)
    /\ UNCHANGED <<pc, partition>>
    /\ result' = [result EXCEPT ![<<t, sent[t] + 1>>] = "raised"]

\* A copy of message m is stored; its call may return.
Stored(m) ==
    /\ partition[m] \in Parts
    /\ log' = [log EXCEPT ![partition[m]] = Append(@, m)]
    /\ \/ UNCHANGED <<pc, result>>
       \/ /\ m = Cur(m[1])
          /\ Busy(m[1])
          /\ pc' = [pc EXCEPT ![m[1]] = "idle"]
          /\ result' = [result EXCEPT ![m] = "ok"]
    /\ UNCHANGED <<sent, partition>>

Effect ==
    \/ Quiet
    \/ \E t \in Senders : Ends(t) \/ TurnedDown(t) \/ \E p \in Parts : Called(t, p)
    \/ \E m \in Msgs : Stored(m)

-----------------------------------------------------------------------------
(***************************************************************************)
(* Every step has one of the effects.                                      *)
(***************************************************************************)

\* A task that goes on waiting has no effect, one that raises ends its call.
LEMMA MovesEffect ==
    ASSUME IndInv, NEW t \in Tasks, pc[t] \in Working, Moves(t),
           UNCHANGED <<sent, partition, log>>
    PROVE  Effect
<1>1. pc \in [Tasks -> PCs] /\ Senders \subseteq Tasks /\ Busy(t)
  BY DEF IndInv, TypeOK, TaskTypeOK, Tasks, Busy, Working
<1>2. PICK s \in PCs :
       /\ pc' = [pc EXCEPT ![t] = s]
       /\ \/ /\ s # "idle"
             /\ result' = result
          \/ /\ t \in Senders
             /\ s = "idle"
             /\ result' = [result EXCEPT ![Cur(t)] = "raised"]
  BY DEF Moves
<1>3. CASE s # "idle" /\ result' = result
  BY <1>1, <1>2, <1>3 DEF Effect, Quiet, SameBusy, Busy
<1>4. CASE /\ t \in Senders
           /\ s = "idle"
           /\ result' = [result EXCEPT ![Cur(t)] = "raised"]
  <2>1. Ends(t)
    BY <1>1, <1>2, <1>4 DEF Ends
  <2> QED
    BY <1>4, <2>1 DEF Effect
<1> QED
  BY <1>2, <1>3, <1>4

\* A step that changes neither what tasks wait for nor calls nor logs.
LEMMA StutterEffect ==
    ASSUME UNCHANGED <<pc, sent, partition, result, log>>
    PROVE  Effect
BY DEF Effect, Quiet, SameBusy, Busy

\* send() and send_with_key() up to their first await.
LEMMA CallSendEffect ==
    ASSUME NEW t \in Senders, NEW k, NEW p \in Parts, CallSend(t, k, p)
    PROVE  Effect
<1>1. Begins(t)
  BY DEF CallSend, Begins, Busy
<1>2. CASE result' = [result EXCEPT ![<<t, sent[t] + 1>>] = "raised"] /\ UNCHANGED <<partition, pc>>
  BY <1>1, <1>2 DEF TurnedDown, Effect
<1>3. CASE /\ result' = [result EXCEPT ![<<t, sent[t] + 1>>] = "pending"]
           /\ partition' = [partition EXCEPT ![<<t, sent[t] + 1>>] = p]
           /\ pc' = [pc EXCEPT ![t] = "sending"]
  BY <1>1, <1>3 DEF Called, Effect
<1> QED
  BY <1>2, <1>3 DEF CallSend, StartSendMessage

\* A broker stores the message of a request.
LEMMA StoreMessageEffect ==
    ASSUME IndInv, NEW r \in net, StoreMessage(r)
    PROVE  Effect
<1>1. r.msg \in Msgs /\ r.part \in Parts /\ partition[r.msg] = r.part
  BY DEF IndInv, TypeOK, MessageTypeOK, RequestType, Delivery, RequestsRouted
<1>2. Stored(r.msg)
  BY <1>1 DEF StoreMessage, Stored, Awaits, EndCall, Busy
<1> QED
  BY <1>1, <1>2 DEF Effect

\* Whatever a task does by itself.
LEMMA TaskEffect ==
    ASSUME IndInv, NEW t \in Tasks, TaskStep(t) \/ CreateLost(t) \/ SchemaFails(t)
    PROVE  Effect
<1>1. CASE ServeLookup(t)
  BY <1>1, StutterEffect DEF ServeLookup, callVars
<1>2. CASE LookupReturns(t)
  <2>1. pc[t] \in Working /\ answer[t] \in BrokerAddress
    BY <1>2 DEF LookupReturns, InLookup, Working, IndInv, TypeOK, TaskTypeOK
  <2>2. GoodProducer(SetAddress(tp[PartOf(t)], answer[t]))
    BY <2>1, WorkingTask, SetAddressGood
  <2>3. UNCHANGED <<sent, partition, log, result>>
    BY <1>2 DEF LookupReturns, callVars
  <2>4. CASE AfterCreateLookup(t, SetAddress(tp[PartOf(t)], answer[t]))
    BY <2>1, <2>2, <2>3, <2>4, AfterCreateLookupMoves, MovesEffect
  <2>5. CASE pc' = [pc EXCEPT ![t] = "lookup"]
    <3>1. Moves(t)
      BY <2>3, <2>5 DEF Moves, PCs
    <3> QED
      BY <2>1, <2>3, <3>1, MovesEffect
  <2> QED
    BY <1>2, <2>4, <2>5 DEF LookupReturns, StartLookup
<1>3. CASE LookupFails(t)
  <2>1. pc[t] \in Working /\ UNCHANGED <<sent, partition, log>>
    BY <1>3 DEF LookupFails, InLookup, Working
  <2>2. CASE AfterCreateLookup(t, tp[PartOf(t)]) /\ UNCHANGED result
    BY <2>1, <2>2, WorkingTask, AfterCreateLookupMoves, MovesEffect
  <2>3. CASE pc[t] = "relook" /\ EndCall(t, "raised")
    <3>1. t \in Senders /\ t \notin Parts
      BY <2>3, ProducerAssumption DEF IndInv, TaskStates, Tasks
    <3>2. Moves(t)
      BY <2>3, <3>1 DEF EndCall, Moves, PCs
    <3> QED
      BY <2>1, <3>2, MovesEffect
  <2> QED
    BY <1>3, <2>2, <2>3 DEF LookupFails
<1>4. CASE CreateAccepted(t) \/ SchemaResolved(t)
  <2>1. pc[t] \in Working /\ UNCHANGED <<sent, partition, log, result>>
    BY <1>4 DEF CreateAccepted, SchemaResolved, Working
  <2>2. CASE pc' = [pc EXCEPT ![t] = "schema"]
    <3>1. Moves(t)
      BY <2>1, <2>2 DEF Moves, PCs
    <3> QED
      BY <2>1, <3>1, MovesEffect
  <2>3. ASSUME NEW q, CreateReturns(t, q) PROVE Effect
    <3>1. Moves(t)
      BY <2>1, <2>3, ProducerAssumption DEF CreateReturns, StartSendMessage, Moves, PCs
    <3> QED
      BY <2>1, <3>1, MovesEffect
  <2> QED
    BY <1>4, <2>2, <2>3 DEF CreateAccepted, SchemaResolved
<1>5. CASE CreateRefused(t) \/ CreateLost(t) \/ SchemaFails(t)
  <2>1. pc[t] \in Working /\ UNCHANGED <<sent, partition, log>>
    BY <1>5 DEF CreateRefused, CreateLost, SchemaFails, Working
  <2>2. \E code : CreateError(t, code)
    BY <1>5 DEF CreateRefused, CreateLost, SchemaFails
  <2> QED
    BY <2>1, <2>2, CreateErrorMoves, MovesEffect
<1>6. CASE WakeCreate(t)
  <2>1. /\ pc[t] \in Working
        /\ UNCHANGED <<sent, partition, log, result>>
        /\ pc' = [pc EXCEPT ![t] = "creating"]
    BY <1>6 DEF WakeCreate, StartCreateProducer, Working, callVars
  <2>2. Moves(t)
    BY <2>1 DEF Moves, PCs
  <2> QED
    BY <2>1, <2>2, MovesEffect
<1>7. CASE WakeSend(t)
  <2>1. /\ pc[t] = "backoff"
        /\ UNCHANGED <<sent, partition, log, result>>
        /\ pc' = [pc EXCEPT ![t] = "sending"]
    BY <1>7 DEF WakeSend, StartSendMessage
  <2>2. pc[t] \in Working /\ t \notin Parts
    BY <2>1 DEF Working, IndInv, TaskStates
  <2>3. Moves(t)
    BY <2>1, <2>2 DEF Moves, PCs
  <2> QED
    BY <2>1, <2>2, <2>3, MovesEffect
<1> QED
  BY <1>1, <1>2, <1>3, <1>4, <1>5, <1>6, <1>7 DEF TaskStep

\* A SendMessage request that fails: the task goes on waiting or raises.
LEMMA SendErrorEffect ==
    ASSUME IndInv, NEW t \in Senders, pc[t] = "sending", NEW code, SendError(t, code),
           UNCHANGED <<sent, partition, log>>
    PROVE  Effect
<1>1. t \in Tasks /\ pc[t] \in Working /\ Moves(t)
  BY SendErrorMoves DEF Tasks, Working
<1> QED
  BY <1>1, MovesEffect

\* Every step has one of the effects.
LEMMA StepEffect == IndInv /\ [Next]_vars => Effect
<1> SUFFICES ASSUME IndInv, [Next]_vars PROVE Effect
  OBVIOUS
<1>1. CASE UNCHANGED vars
  BY <1>1, StutterEffect DEF vars, callVars
<1>2. CASE Create
  <2>1. UNCHANGED <<sent, partition, result, log>>
    BY <1>2 DEF Create, callVars
  <2>2. SameBusy
    BY <1>2, ProducerAssumption DEF Create, SameBusy, Busy, Tasks
  <2> QED
    BY <2>1, <2>2 DEF Effect, Quiet
<1>3. ASSUME NEW t \in Senders, Send(t) PROVE Effect
  <2>1. CASE HasRouter /\ last' = round_robin(last, NumPartitions) /\ CallSend(t, NoKey, last')
    <3>1. last' \in Parts
      BY <2>1, ProducerAssumption DEF HasRouter, round_robin, IndInv, TypeOK, ObjectTypeOK
    <3> QED
      BY <2>1, <3>1, CallSendEffect
  <2>2. CASE CallSend(t, NoKey, 0)
    <3>1. 0 \in Parts
      BY ProducerAssumption
    <3> QED
      BY <2>2, <3>1, CallSendEffect
  <2> QED
    BY <1>3, <2>1, <2>2 DEF Send
<1>4. ASSUME NEW t \in Senders, NEW k \in Keys, SendWithKey(t, k) PROVE Effect
  <2>1. KeyPartition(k) \in Parts
    BY ProducerAssumption DEF KeyPartition, HasRouter, key_route
  <2> QED
    BY <1>4, <2>1, CallSendEffect DEF SendWithKey
<1>5. CASE Close \/ Environment
  BY <1>5, StutterEffect DEF Close, Environment, callVars
<1>6. ASSUME NEW t \in Senders, SendFault(t) PROVE Effect
  BY <1>6, SendErrorEffect DEF SendFault
<1>7. ASSUME NEW r \in net, RejectMessage(r) PROVE Effect
  <2>1. r.msg[1] \in Senders
    BY DEF IndInv, TypeOK, MessageTypeOK, RequestType, Msgs
  <2>2. ASSUME NEW code, Awaits(r.msg[1], r), SendError(r.msg[1], code) PROVE Effect
    BY <1>7, <2>1, <2>2, SendErrorEffect DEF RejectMessage, Awaits
  <2>3. CASE UNCHANGED <<pc, result>>
    BY <1>7, <2>3, StutterEffect DEF RejectMessage
  <2> QED
    BY <1>7, <2>2, <2>3 DEF RejectMessage
<1>8. ASSUME NEW p \in Parts, NEW h \in health[p], HealthStep(p, h) PROVE Effect
  BY <1>8, StutterEffect DEF HealthStep, HealthClose, HealthFails, HealthStops, callVars
<1> QED
  BY <1>1, <1>2, <1>3, <1>4, <1>5, <1>6, <1>7, <1>8, TaskEffect, StoreMessageEffect
     DEF Next, Answer

-----------------------------------------------------------------------------
(***************************************************************************)
(* Every effect preserves CallStates and is promised.                      *)
(***************************************************************************)

\* What CallStates says of one message, with the types it needs.
LEMMA MessageState ==
    ASSUME IndInv, CallStates, NEW t \in Senders, NEW n \in 1 .. MaxSends
    PROVE  /\ <<t, n>> \in Msgs /\ sent[t] \in 0 .. MaxSends
           /\ result[<<t, n>>] = "new" <=> n > sent[t]
           /\ result[<<t, n>>] = "pending" <=> Busy(t) /\ n = sent[t]
           /\ result[<<t, n>>] \in {"new", "pending", "ok", "raised"}
<1>1. <<t, n>> \in Msgs
  BY DEF Msgs
<1> QED
  BY <1>1 DEF CallStates, IndInv, TypeOK, CallTypeOK

\* The call a task is busy with is pending.
LEMMA BusyPending ==
    ASSUME IndInv, CallStates, NEW t \in Senders, Busy(t)
    PROVE  Cur(t) \in Msgs /\ result[Cur(t)] = "pending"
<1>1. sent[t] \in 1 .. MaxSends
  BY ProducerAssumption DEF IndInv, CallsUnderWay, TypeOK, CallTypeOK
<1> QED
  BY <1>1, MessageState DEF Cur

\* Calls and their results stay in step.
LEMMA EffectKeepsCallStates ==
    ASSUME IndInv, CallStates, Effect
    PROVE  CallStates'
<1>0. /\ MaxSends \in Nat
      /\ sent \in [Senders -> 0 .. MaxSends]
      /\ pc \in [Tasks -> PCs]
      /\ result \in [Msgs -> {"new", "pending", "ok", "raised"}]
      /\ Senders \subseteq Tasks
  BY ProducerAssumption DEF IndInv, TypeOK, CallTypeOK, TaskTypeOK, Tasks
<1> SUFFICES ASSUME NEW t \in Senders, NEW n \in 1 .. MaxSends
             PROVE  /\ result'[<<t, n>>] = "pending" <=> Busy(t)' /\ n = sent'[t]
                    /\ result'[<<t, n>>] = "new" <=> n > sent'[t]
  BY DEF CallStates, Msgs, Busy
<1>1. /\ <<t, n>> \in Msgs /\ sent[t] \in 0 .. MaxSends
      /\ result[<<t, n>>] = "new" <=> n > sent[t]
      /\ result[<<t, n>>] = "pending" <=> Busy(t) /\ n = sent[t]
  BY MessageState
<1>2. CASE Quiet
  BY <1>1, <1>2 DEF Quiet, SameBusy
<1>3. ASSUME NEW u \in Senders, Ends(u)
      PROVE  /\ result'[<<t, n>>] = "pending" <=> Busy(t)' /\ n = sent'[t]
             /\ result'[<<t, n>>] = "new" <=> n > sent'[t]
  <2>1. CASE u = t
    BY <1>0, <1>1, <1>3, <2>1, BusyPending DEF Ends, Busy, Cur
  <2>2. CASE u # t
    BY <1>0, <1>1, <1>3, <2>2 DEF Ends, Busy, Cur
  <2> QED
    BY <2>1, <2>2
<1>4. ASSUME NEW u \in Senders, TurnedDown(u)
      PROVE  /\ result'[<<t, n>>] = "pending" <=> Busy(t)' /\ n = sent'[t]
             /\ result'[<<t, n>>] = "new" <=> n > sent'[t]
  <2>1. CASE u = t
    BY <1>0, <1>1, <1>4, <2>1 DEF TurnedDown, Begins, Busy
  <2>2. CASE u # t
    BY <1>0, <1>1, <1>4, <2>2 DEF TurnedDown, Begins, Busy
  <2> QED
    BY <2>1, <2>2
<1>5. ASSUME NEW u \in Senders, NEW p \in Parts, Called(u, p)
      PROVE  /\ result'[<<t, n>>] = "pending" <=> Busy(t)' /\ n = sent'[t]
             /\ result'[<<t, n>>] = "new" <=> n > sent'[t]
  <2>1. CASE u = t
    BY <1>0, <1>1, <1>5, <2>1 DEF Called, Begins, Busy
  <2>2. CASE u # t
    BY <1>0, <1>1, <1>5, <2>2 DEF Called, Begins, Busy
  <2> QED
    BY <2>1, <2>2
<1>6. ASSUME NEW m \in Msgs, Stored(m)
      PROVE  /\ result'[<<t, n>>] = "pending" <=> Busy(t)' /\ n = sent'[t]
             /\ result'[<<t, n>>] = "new" <=> n > sent'[t]
  <2>1. m[1] \in Senders /\ sent' = sent
    BY <1>6 DEF Msgs, Stored
  <2>2. CASE UNCHANGED <<pc, result>>
    BY <1>1, <2>1, <2>2 DEF Busy
  <2>3. CASE /\ m = Cur(m[1])
             /\ Busy(m[1])
             /\ pc' = [pc EXCEPT ![m[1]] = "idle"]
             /\ result' = [result EXCEPT ![m] = "ok"]
    <3>1. CASE m[1] = t
      BY <1>0, <1>1, <2>1, <2>3, <3>1 DEF Busy, Cur
    <3>2. CASE m[1] # t
      BY <1>0, <1>1, <2>1, <2>3, <3>2 DEF Busy, Cur
    <3> QED
      BY <3>1, <3>2
  <2> QED
    BY <1>6, <2>2, <2>3 DEF Stored
<1> QED
  BY <1>2, <1>3, <1>4, <1>5, <1>6 DEF Effect

\* A call begins only after the calls before it have ended.
LEMMA BeginsNext ==
    ASSUME IndInv, CallStates, NEW t \in Senders, Begins(t)
    PROVE  sent[t] + 1 \in 1 .. MaxSends /\ Promise!IsNext(t, sent[t] + 1)
<1>1. sent[t] + 1 \in 1 .. MaxSends /\ sent[t] \in Nat /\ MaxSends \in Nat
  BY ProducerAssumption DEF Begins, IndInv, TypeOK, CallTypeOK
<1>2. ASSUME NEW k \in 1 .. MaxSends, k < sent[t] + 1
      PROVE  result[<<t, k>>] \in {"ok", "raised"}
  BY <1>1, <1>2, MessageState DEF Begins
<1>3. ASSUME NEW k \in 1 .. MaxSends, k >= sent[t] + 1
      PROVE  result[<<t, k>>] = "new"
  BY <1>1, <1>3, MessageState
<1> QED
  BY <1>1, <1>2, <1>3 DEF Promise!IsNext

\* Seen through partitions, results and logs, every effect is a step of
\* ReliableLog or none.
LEMMA EffectIsPromised ==
    ASSUME IndInv, CallStates, Effect
    PROVE  [Promise!Next]_(Promise!vars)
<1>1. CASE Quiet
  BY <1>1 DEF Quiet, Promise!vars
<1>2. ASSUME NEW t \in Senders, Ends(t) PROVE Promise!Next
  <2>1. Cur(t) \in Msgs /\ result[Cur(t)] = "pending"
    BY <1>2, BusyPending DEF Ends
  <2>2. Promise!Raise(Cur(t))
    BY <1>2, <2>1 DEF Ends, Promise!Raise
  <2> QED
    BY <2>1, <2>2 DEF Promise!Next, Promise!Msgs, Msgs
<1>3. ASSUME NEW t \in Senders, TurnedDown(t) PROVE Promise!Next
  <2>1. sent[t] + 1 \in 1 .. MaxSends /\ Promise!TurnDown(t, sent[t] + 1)
    BY <1>3, BeginsNext DEF TurnedDown, Begins, Promise!TurnDown
  <2> QED
    BY <2>1 DEF Promise!Next
<1>4. ASSUME NEW t \in Senders, NEW p \in Parts, Called(t, p) PROVE Promise!Next
  <2>1. sent[t] + 1 \in 1 .. MaxSends /\ Promise!Call(t, sent[t] + 1, p)
    BY <1>4, BeginsNext DEF Called, Begins, Promise!Call
  <2> QED
    BY <2>1 DEF Promise!Next
<1>5. ASSUME NEW m \in Msgs, Stored(m) PROVE Promise!Next
  <2>1. m[1] \in Senders
    BY DEF Msgs
  <2>2. Promise!StoreCopy(m)
    BY <1>5, <2>1, BusyPending DEF Stored, Promise!StoreCopy
  <2> QED
    BY <2>2 DEF Promise!Next, Promise!Msgs, Msgs
<1> QED
  BY <1>1, <1>2, <1>3, <1>4, <1>5 DEF Effect

\* The initial states are initial states of ReliableLog.
LEMMA InitIsPromised == Init => Promise!Init /\ CallStates
<1> SUFFICES ASSUME Init PROVE Promise!Init /\ CallStates
  OBVIOUS
<1>1. Promise!Init
  BY DEF Init, Promise!Init, Promise!Msgs, Msgs
<1>2. CallStates
  BY ProducerAssumption DEF Init, CallStates, Busy, Msgs, Tasks
<1> QED
  BY <1>1, <1>2

\* A call is pending exactly while its task is busy with it.
LEMMA ProducerCallStates == Spec => []CallStates
<1>1. Init => IndInv /\ CallStates
  BY InitInv, InitIsPromised
<1>2. IndInv /\ CallStates /\ [Next]_vars => IndInv' /\ CallStates'
  BY StepInv, StepEffect, EffectKeepsCallStates
<1> QED
  BY <1>1, <1>2, PTL DEF Spec

\* Producer implements ReliableLog: whatever brokers, retries, re-creations and
\* other tasks do, send() and send_with_key() are atomic at-least-once appends
\* to one partition for anyone who looks at calls, results and logs.
THEOREM ProducerKeepsPromise == Spec => KeepsPromise
<1>1. Init => IndInv /\ CallStates /\ Promise!Init
  BY InitInv, InitIsPromised
<1>2. IndInv /\ CallStates /\ [Next]_vars =>
         IndInv' /\ CallStates' /\ [Promise!Next]_(Promise!vars)
  BY StepInv, StepEffect, EffectKeepsCallStates, EffectIsPromised
<1> QED
  BY <1>1, <1>2, PTL DEF Spec, KeepsPromise, Promise!Spec

-----------------------------------------------------------------------------
(***************************************************************************)
(* The order of the calls. A copy of message k is stored while an earlier  *)
(* call j has ended with "ok": then j is in the log already, since what is *)
(* acknowledged is stored. Or call j ends with "ok" while a copy of k is   *)
(* in the log: then k was called, which cannot be before j has ended.      *)
(***************************************************************************)

\* An effect that stores nothing acknowledges nothing, and a call that was
\* acknowledged keeps its result and its partition.
LEMMA NothingStored ==
    ASSUME IndInv, CallStates, Effect, \A m \in Msgs : ~ Stored(m)
    PROVE  /\ UNCHANGED log
           /\ \A m \in Msgs : result'[m] = "ok" =>
                 result[m] = "ok" /\ partition'[m] = partition[m]
<1>0. /\ result \in [Msgs -> {"new", "pending", "ok", "raised"}]
      /\ partition \in [Msgs -> Parts \cup {NoPart}]
  BY DEF IndInv, TypeOK, CallTypeOK
<1>1. CASE Quiet
  BY <1>1 DEF Quiet
<1>2. ASSUME NEW t \in Senders, Ends(t)
      PROVE  /\ UNCHANGED log
             /\ \A m \in Msgs : result'[m] = "ok" =>
                   result[m] = "ok" /\ partition'[m] = partition[m]
  BY <1>0, <1>2 DEF Ends
<1>3. ASSUME NEW t \in Senders, TurnedDown(t)
      PROVE  /\ UNCHANGED log
             /\ \A m \in Msgs : result'[m] = "ok" =>
                   result[m] = "ok" /\ partition'[m] = partition[m]
  BY <1>0, <1>3 DEF TurnedDown, Begins
<1>4. ASSUME NEW t \in Senders, NEW p \in Parts, Called(t, p)
      PROVE  /\ UNCHANGED log
             /\ \A m \in Msgs : result'[m] = "ok" =>
                   result[m] = "ok" /\ partition'[m] = partition[m]
  BY <1>0, <1>4 DEF Called, Begins
<1> QED
  BY <1>1, <1>2, <1>3, <1>4 DEF Effect

\* The order of the calls survives a stored copy.
LEMMA StoredKeepsCallOrder ==
    ASSUME IndInv, CallStates, CallOrderKept, NEW m \in Msgs, Stored(m)
    PROVE  CallOrderKept'
<1> SUFFICES ASSUME NEW t \in Senders, NEW p \in Parts,
                    NEW j \in 1 .. MaxSends, NEW k \in 1 .. MaxSends,
                    j < k, result'[<<t, j>>] = "ok", partition'[<<t, j>>] = p,
                    NEW i \in DOMAIN log'[p], log'[p][i] = <<t, k>>
             PROVE  \E h \in 1 .. (i - 1) : log'[p][h] = <<t, j>>
  BY DEF CallOrderKept
<1>1. /\ <<t, j>> \in Msgs /\ <<t, k>> \in Msgs
      /\ partition[<<t, j>>] = p
      /\ log[p] \in Seq(Msgs) /\ log \in [Parts -> Seq(Msgs)]
      /\ result \in [Msgs -> {"new", "pending", "ok", "raised"}]
      /\ sent \in [Senders -> 0 .. MaxSends] /\ MaxSends \in Nat
  BY ProducerAssumption DEF Stored, Msgs, IndInv, TypeOK, CallTypeOK, MessageTypeOK
<1>2. /\ partition[m] \in Parts
      /\ log' = [log EXCEPT ![partition[m]] = Append(@, m)]
  BY DEF Stored
<1>3. /\ DOMAIN log[p] = 1 .. Len(log[p]) /\ Len(log[p]) \in Nat
      /\ DOMAIN log[p] \subseteq DOMAIN log'[p]
      /\ \A h \in DOMAIN log[p] : log'[p][h] = log[p][h]
  BY <1>1, <1>2
<1>4. CASE i \in DOMAIN log[p]
  <2>1. CASE result[<<t, j>>] = "ok"
    <3>1. log[p][i] = <<t, k>>
      BY <1>3, <1>4
    <3>2. partition[<<t, j>>] = p
      BY <1>1
    <3>3. \E h \in 1 .. (i - 1) : log[p][h] = <<t, j>>
      BY <1>4, <2>1, <3>1, <3>2 DEF CallOrderKept
    <3>4. PICK h \in 1 .. (i - 1) : log[p][h] = <<t, j>>
      BY <3>3
    <3>5. h \in DOMAIN log[p]
      BY <1>3, <1>4
    <3> QED
      BY <1>3, <3>4, <3>5
  <2>2. CASE result[<<t, j>>] # "ok"
    <3>1. m = <<t, j>> /\ j = sent[t]
      BY <1>1, <2>2 DEF Stored, Cur
    <3>2. partition[<<t, k>>] = p
      BY <1>3, <1>4 DEF IndInv, Delivery, OnePartitionPerMessage
    <3>3. <<t, k>>[1] = t /\ <<t, k>>[2] = k
      OBVIOUS
    <3>4. k <= sent[t]
      BY <1>1, <3>2, <3>3, ProducerAssumption DEF IndInv, Delivery, PartitionsOfCalls
    <3> QED
      BY <1>1, <3>1, <3>4
  <2> QED
    BY <2>1, <2>2
<1>5. CASE i \notin DOMAIN log[p]
  <2>1. p = partition[m] /\ i = Len(log[p]) + 1 /\ m = <<t, k>>
    <3>1. CASE p = partition[m]
      <4>1. log'[p] = Append(log[p], m)
        BY <1>1, <1>2, <3>1
      <4>2. /\ DOMAIN log'[p] = 1 .. (Len(log[p]) + 1)
            /\ log'[p][Len(log[p]) + 1] = m
        BY <1>1, <4>1
      <4> QED
        BY <1>3, <1>5, <3>1, <4>2
    <3>2. CASE p # partition[m]
      BY <1>1, <1>2, <1>5, <3>2
    <3> QED
      BY <3>1, <3>2
  <2>2. <<t, j>> # m
    BY <2>1
  <2>3. result[<<t, j>>] = "ok"
    BY <1>1, <2>2 DEF Stored
  <2>4. PICK h \in DOMAIN log[p] : log[p][h] = <<t, j>>
    BY <1>1, <2>3 DEF IndInv, Delivery, AckedIsStored
  <2>5. h \in 1 .. (i - 1)
    BY <1>3, <2>1
  <2>6. log'[p][h] = <<t, j>>
    BY <1>3, <2>4
  <2> QED
    BY <2>5, <2>6
<1> QED
  BY <1>4, <1>5

\* Every effect preserves the order of the calls.
LEMMA EffectKeepsCallOrder ==
    ASSUME IndInv, CallStates, Effect, CallOrderKept
    PROVE  CallOrderKept'
<1>1. CASE \E m \in Msgs : Stored(m)
  BY <1>1, StoredKeepsCallOrder
<1>2. CASE \A m \in Msgs : ~ Stored(m)
  <2>1. /\ UNCHANGED log
        /\ \A m \in Msgs : result'[m] = "ok" =>
              result[m] = "ok" /\ partition'[m] = partition[m]
    BY <1>2, NothingStored
  <2>2. \A t \in Senders, j \in 1 .. MaxSends : <<t, j>> \in Msgs
    BY DEF Msgs
  <2> QED
    BY <2>1, <2>2 DEF CallOrderKept
<1> QED
  BY <1>1, <1>2

\* A task that awaits each send() before the next one finds its messages in the
\* log in the order of its calls, however often they were retried: no copy of a
\* later message comes before the first copy of an acknowledged earlier one.
THEOREM ProducerCallOrderKept == Spec => []CallOrderKept
<1>1. Init => IndInv /\ CallStates
  BY InitInv, InitIsPromised
<1>2. Init => CallOrderKept
  BY DEF Init, CallOrderKept, Msgs
<1>3. IndInv /\ CallStates /\ CallOrderKept /\ [Next]_vars =>
         IndInv' /\ CallStates' /\ CallOrderKept'
  BY StepInv, StepEffect, EffectKeepsCallStates, EffectKeepsCallOrder
<1> QED
  BY <1>1, <1>2, <1>3, PTL DEF Spec

-----------------------------------------------------------------------------
(***************************************************************************)
(* Duplicates. For FaultsPay a step has one of five effects: nothing is    *)
(* given up on, a new request is on its way, a request is given up on (at  *)
(* the price of a fault), one is turned down, one is stored.               *)
(***************************************************************************)

\* What was acknowledged stays acknowledged.
AcksKept == \A m \in Msgs : result[m] = "ok" => result'[m] = "ok"

NothingGivenUp ==
    /\ UNCHANGED <<net, log, tries>>
    /\ faults' >= faults
    /\ AcksKept
    /\ \A r \in net : Awaited(r) => Awaited(r)'

\* Task t makes one more request for message m and awaits it.
Requests(t, m) ==
    /\ pc[t] # "sending"
    /\ pc' = [pc EXCEPT ![t] = "sending"]
    /\ m[1] = t /\ Cur(t)' = m
    /\ \A u \in Senders \ {t} : sent'[u] = sent[u]
    /\ tries' = [tries EXCEPT ![m] = @ + 1]
    /\ \E q : q.msg = m /\ q.try = tries[m] + 1 /\ net' = net \cup {q}
    /\ UNCHANGED <<log, faults>>
    /\ AcksKept

\* The request that t awaits fails at the client.
GivesUp(t) ==
    /\ \A u \in Senders \ {t} : pc'[u] = pc[u]
    /\ UNCHANGED <<net, log, tries, sent>>
    /\ faults' = faults + 1
    /\ AcksKept

TurnedAway(r) ==
    /\ net' = net \ {r}
    /\ Awaited(r) \/ pc' = pc
    /\ \A u \in Senders \ {r.msg[1]} : pc'[u] = pc[u]
    /\ UNCHANGED <<log, tries, sent, faults>>
    /\ AcksKept

Traffic ==
    \/ NothingGivenUp
    \/ \E t \in Senders, m \in Msgs : Requests(t, m)
    \/ \E t \in Senders : GivesUp(t)
    \/ \E r \in net : TurnedAway(r) \/ StoreMessage(r)

\* The call that t is making, if it is busy, is not acknowledged yet.
LEMMA RaisedKeepsAcks ==
    ASSUME IndInv, CallStates, NEW t \in Senders, Busy(t),
           result' = result \/ result' = [result EXCEPT ![Cur(t)] = "raised"]
    PROVE  AcksKept
<1>1. Cur(t) \in Msgs /\ result[Cur(t)] = "pending"
  BY BusyPending
<1> QED
  BY <1>1 DEF AcksKept, IndInv, TypeOK, CallTypeOK

\* A task that was not awaiting a SendMessage gives up on none.
LEMMA MovesTraffic ==
    ASSUME IndInv, CallStates, NEW t \in Tasks, pc[t] \in Working \ {"sending"}, Moves(t),
           UNCHANGED <<sent, tries, net, log>>, faults' >= faults
    PROVE  Traffic
<1>1. pc \in [Tasks -> PCs] /\ Senders \subseteq Tasks /\ Busy(t)
  BY DEF IndInv, TypeOK, TaskTypeOK, Tasks, Busy, Working
<1>2. \A u \in Tasks \ {t} : pc'[u] = pc[u]
  BY <1>1 DEF Moves
<1>3. \A r \in net : r.msg[1] \in Senders
  BY DEF IndInv, TypeOK, MessageTypeOK, RequestType, Msgs
<1>4. \A r \in net : Awaited(r) => Awaited(r)'
  BY <1>1, <1>2, <1>3 DEF Awaited, Awaits, Cur
<1>5. AcksKept
  BY <1>1, RaisedKeepsAcks DEF Moves, AcksKept
<1> QED
  BY <1>4, <1>5 DEF Traffic, NothingGivenUp

\* Steps that no SendMessage takes part in.
LEMMA OtherTraffic ==
    ASSUME UNCHANGED <<sent, tries, net, log, result>>,
           \A t \in Senders : pc[t] = "sending" => pc'[t] = "sending",
           \A r \in net : r.msg[1] \in Senders,
           faults' >= faults
    PROVE  Traffic
BY DEF Traffic, NothingGivenUp, AcksKept, Awaited, Awaits, Cur

\* A call of send() or send_with_key() makes one request or is turned down.
LEMMA CallSendTraffic ==
    ASSUME IndInv, CallStates, NEW t \in Senders, NEW k, NEW p \in Parts, CallSend(t, k, p)
    PROVE  Traffic
<1> DEFINE m == <<t, sent[t] + 1>>
<1>1. /\ sent[t] + 1 \in 1 .. MaxSends /\ sent[t] \in Nat /\ MaxSends \in Nat
      /\ sent \in [Senders -> 0 .. MaxSends]
      /\ pc[t] = "idle" /\ sent' = [sent EXCEPT ![t] = @ + 1]
      /\ UNCHANGED <<log, faults>>
  BY ProducerAssumption DEF CallSend, IndInv, TypeOK, CallTypeOK, clusterVars
<1>2. m \in Msgs /\ result[m] = "new" /\ result \in [Msgs -> {"new", "pending", "ok", "raised"}]
  BY <1>1, MessageState DEF IndInv, TypeOK, CallTypeOK, Msgs
<1>3. AcksKept
  BY <1>2 DEF CallSend, AcksKept
<1>4. \A u \in Senders \ {t} : sent'[u] = sent[u]
  BY <1>1
<1>5. CASE UNCHANGED <<partition, tries, net, pc>>
  <2>1. \A r \in net : r.msg[1] \in Senders
    BY DEF IndInv, TypeOK, MessageTypeOK, RequestType, Msgs
  <2>2. \A r \in net : Awaited(r) => Awaited(r)'
    BY <1>1, <1>4, <1>5, <2>1 DEF Awaited, Awaits, Cur
  <2>3. faults' >= faults
    BY <1>1 DEF IndInv, TypeOK, ClusterTypeOK
  <2> QED
    BY <1>1, <1>3, <1>5, <2>2, <2>3 DEF Traffic, NothingGivenUp
<1>6. CASE StartSendMessage(t, m, p, tp[p])
  <2>1. m[1] = t /\ Cur(t)' = m
    BY <1>1 DEF Cur
  <2>2. \E q : q.msg = m /\ q.try = tries[m] + 1 /\ net' = net \cup {q}
    BY <1>6 DEF StartSendMessage, SendRequest
  <2>3. Requests(t, m)
    BY <1>1, <1>3, <1>4, <1>6, <2>1, <2>2 DEF StartSendMessage, Requests
  <2> QED
    BY <1>2, <2>3 DEF Traffic
<1> QED
  BY <1>5, <1>6 DEF CallSend

\* A further attempt of the call that t is making.
LEMMA AttemptTraffic ==
    ASSUME IndInv, NEW t \in Senders, Busy(t), pc[t] # "sending", NEW p, NEW q,
           StartSendMessage(t, Cur(t), p, q), UNCHANGED <<sent, result, log, faults>>
    PROVE  Traffic
<1>1. Cur(t) \in Msgs /\ Cur(t)[1] = t /\ Cur(t)' = Cur(t)
  BY ProducerAssumption DEF IndInv, CallsUnderWay, TypeOK, CallTypeOK, Cur, Msgs
<1>2. \E r : r.msg = Cur(t) /\ r.try = tries[Cur(t)] + 1 /\ net' = net \cup {r}
  BY DEF StartSendMessage, SendRequest
<1>3. Requests(t, Cur(t))
  BY <1>1, <1>2 DEF StartSendMessage, Requests, AcksKept
<1> QED
  BY <1>1, <1>3 DEF Traffic

\* What a task does by itself gives up on no SendMessage.
LEMMA TaskTraffic ==
    ASSUME IndInv, CallStates, NEW t \in Tasks, TaskStep(t) \/ CreateLost(t) \/ SchemaFails(t)
    PROVE  Traffic
<1>0. /\ faults \in Nat /\ MaxFaults \in Nat
      /\ \A r \in net : r.msg[1] \in Senders
  BY ClusterAssumption
     DEF IndInv, TypeOK, ClusterTypeOK, MessageTypeOK, RequestType, Msgs
<1>1. CASE ServeLookup(t)
  <2>1. /\ UNCHANGED <<sent, tries, net, log, result, pc>>
        /\ faults' >= faults
    BY <1>0, <1>1 DEF ServeLookup, callVars, clusterVars
  <2> QED
    BY <1>0, <2>1, OtherTraffic
<1>2. CASE LookupReturns(t)
  <2>1. pc[t] \in Working \ {"sending"} /\ answer[t] \in BrokerAddress
    BY <1>2 DEF LookupReturns, InLookup, Working, IndInv, TypeOK, TaskTypeOK
  <2>2. GoodProducer(SetAddress(tp[PartOf(t)], answer[t]))
    BY <2>1, WorkingTask, SetAddressGood
  <2>3. UNCHANGED <<sent, tries, net, log, result>> /\ faults' >= faults
    BY <1>0, <1>2 DEF LookupReturns, callVars, clusterVars
  <2>4. CASE AfterCreateLookup(t, SetAddress(tp[PartOf(t)], answer[t]))
    BY <2>1, <2>2, <2>3, <2>4, AfterCreateLookupMoves, MovesTraffic
  <2>5. CASE pc' = [pc EXCEPT ![t] = "lookup"]
    <3>1. Moves(t)
      BY <2>3, <2>5 DEF Moves, PCs
    <3> QED
      BY <2>1, <2>3, <3>1, MovesTraffic
  <2> QED
    BY <1>2, <2>4, <2>5 DEF LookupReturns, StartLookup
<1>3. CASE LookupFails(t)
  <2>1. /\ pc[t] \in Working \ {"sending"}
        /\ UNCHANGED <<sent, tries, net, log>>
        /\ faults' >= faults
    BY <1>0, <1>3 DEF LookupFails, InLookup, Working, RpcFault, Fault
  <2>2. CASE AfterCreateLookup(t, tp[PartOf(t)]) /\ UNCHANGED result
    BY <2>1, <2>2, WorkingTask, AfterCreateLookupMoves, MovesTraffic
  <2>3. CASE pc[t] = "relook" /\ EndCall(t, "raised")
    <3>1. t \in Senders /\ t \notin Parts
      BY <2>3, ProducerAssumption DEF IndInv, TaskStates, Tasks
    <3>2. Moves(t)
      BY <2>3, <3>1 DEF EndCall, Moves, PCs
    <3> QED
      BY <2>1, <3>2, MovesTraffic
  <2> QED
    BY <1>3, <2>2, <2>3 DEF LookupFails
<1>4. CASE CreateAccepted(t) \/ SchemaResolved(t)
  <2>1. /\ pc[t] \in Working \ {"sending"}
        /\ UNCHANGED <<sent, result, log, faults>>
    BY <1>4 DEF CreateAccepted, SchemaResolved, Working, clusterVars
  <2>2. CASE pc' = [pc EXCEPT ![t] = "schema"] /\ UNCHANGED <<tries, net>>
    <3>1. Moves(t)
      BY <2>1, <2>2 DEF Moves, PCs
    <3> QED
      BY <1>0, <2>1, <2>2, <3>1, MovesTraffic
  <2>3. ASSUME NEW q, CreateReturns(t, q) PROVE Traffic
    <3>1. CASE t \in Parts
      <4>1. pc' = [pc EXCEPT ![t] = "done"] /\ UNCHANGED <<tries, net>>
        BY <2>3, <3>1, ProducerAssumption DEF CreateReturns
      <4>2. Moves(t)
        BY <2>1, <3>1, <4>1, ProducerAssumption DEF Moves, PCs
      <4> QED
        BY <1>0, <2>1, <4>1, <4>2, MovesTraffic
    <3>2. CASE t \in Senders
      <4>1. StartSendMessage(t, Cur(t), PartOf(t), q)
        BY <2>3, <3>2, ProducerAssumption DEF CreateReturns
      <4> QED
        BY <2>1, <3>2, <4>1, AttemptTraffic DEF Busy, Working
    <3> QED
      BY <3>1, <3>2 DEF Tasks
  <2> QED
    BY <1>4, <2>2, <2>3 DEF CreateAccepted, SchemaResolved
<1>5. CASE CreateRefused(t) \/ CreateLost(t) \/ SchemaFails(t)
  <2>1. /\ pc[t] \in Working \ {"sending"}
        /\ UNCHANGED <<sent, tries, net, log>>
    BY <1>5 DEF CreateRefused, CreateLost, SchemaFails, Working
  <2>2. \E code : CreateError(t, code)
    BY <1>5 DEF CreateRefused, CreateLost, SchemaFails
  <2>3. faults' >= faults
    BY <1>0, <1>5 DEF CreateRefused, CreateLost, SchemaFails, Fault
  <2> QED
    BY <2>1, <2>2, <2>3, CreateErrorMoves, MovesTraffic
<1>6. CASE WakeCreate(t)
  <2>1. /\ pc[t] \in Working \ {"sending"}
        /\ UNCHANGED <<sent, tries, net, log, result, faults>>
        /\ pc' = [pc EXCEPT ![t] = "creating"]
    BY <1>6 DEF WakeCreate, StartCreateProducer, Working, callVars, clusterVars
  <2>2. Moves(t)
    BY <2>1 DEF Moves, PCs
  <2> QED
    BY <1>0, <2>1, <2>2, MovesTraffic
<1>7. CASE WakeSend(t)
  <2>1. /\ pc[t] = "backoff"
        /\ UNCHANGED <<sent, log, result, faults>>
        /\ StartSendMessage(t, Cur(t), PartOf(t), tp[PartOf(t)])
    BY <1>7 DEF WakeSend, clusterVars
  <2>2. t \in Senders
    BY <2>1 DEF IndInv, TaskStates, Tasks
  <2> QED
    BY <2>1, <2>2, AttemptTraffic DEF Busy
<1> QED
  BY <1>1, <1>2, <1>3, <1>4, <1>5, <1>6, <1>7 DEF TaskStep

\* A failing SendMessage: the task sleeps, looks the topic up, or raises.
LEMMA SendErrorMovesOn ==
    ASSUME IndInv, CallStates, NEW t \in Senders, pc[t] = "sending", NEW code,
           SendError(t, code)
    PROVE  AcksKept /\ \A u \in Senders \ {t} : pc'[u] = pc[u]
<1>1. Busy(t) /\ t \in Tasks /\ Moves(t) /\ pc \in [Tasks -> PCs]
  BY SendErrorMoves DEF Busy, Tasks, IndInv, TypeOK, TaskTypeOK
<1>2. AcksKept
  BY <1>1, RaisedKeepsAcks DEF Moves
<1> QED
  BY <1>1, <1>2 DEF Moves

\* Every step has one of the five effects.
LEMMA StepTraffic == IndInv /\ CallStates /\ [Next]_vars => Traffic
<1> SUFFICES ASSUME IndInv, CallStates, [Next]_vars PROVE Traffic
  OBVIOUS
<1>0. /\ faults \in Nat
      /\ \A r \in net : r.msg[1] \in Senders
  BY ClusterAssumption
     DEF IndInv, TypeOK, ClusterTypeOK, MessageTypeOK, RequestType, Msgs
<1>1. CASE UNCHANGED vars
  <2>1. UNCHANGED <<sent, tries, net, log, result, pc>> /\ faults' >= faults
    BY <1>0, <1>1 DEF vars, callVars, clusterVars
  <2> QED
    BY <1>0, <2>1, OtherTraffic
<1>2. CASE Create
  <2>1. /\ UNCHANGED <<sent, tries, net, log, result>> /\ faults' >= faults
        /\ pc' = [t \in Tasks |-> IF t \in Parts THEN "lookup" ELSE pc[t]]
    BY <1>0, <1>2 DEF Create, callVars, clusterVars
  <2>2. \A t \in Senders : pc'[t] = pc[t]
    BY <2>1, ProducerAssumption DEF Tasks
  <2> QED
    BY <1>0, <2>1, <2>2, OtherTraffic
<1>3. ASSUME NEW t \in Senders, Send(t) PROVE Traffic
  <2>1. CASE HasRouter /\ last' = round_robin(last, NumPartitions) /\ CallSend(t, NoKey, last')
    <3>1. last' \in Parts
      BY <2>1, ProducerAssumption DEF HasRouter, round_robin, IndInv, TypeOK, ObjectTypeOK
    <3> QED
      BY <2>1, <3>1, CallSendTraffic
  <2>2. CASE CallSend(t, NoKey, 0)
    <3>1. 0 \in Parts
      BY ProducerAssumption
    <3> QED
      BY <2>2, <3>1, CallSendTraffic
  <2> QED
    BY <1>3, <2>1, <2>2 DEF Send
<1>4. ASSUME NEW t \in Senders, NEW k \in Keys, SendWithKey(t, k) PROVE Traffic
  <2>1. KeyPartition(k) \in Parts
    BY ProducerAssumption DEF KeyPartition, HasRouter, key_route
  <2> QED
    BY <1>4, <2>1, CallSendTraffic DEF SendWithKey
<1>5. CASE Close \/ Environment
  <2>1. UNCHANGED <<sent, tries, net, log, result, pc>>
    BY <1>5 DEF Close, Environment, callVars
  <2>2. faults' >= faults
    BY <1>0, <1>5 DEF Close, Environment, ClusterStep, Crash, Restart, Move, Fault, clusterVars
  <2> QED
    BY <1>0, <2>1, <2>2, OtherTraffic
<1>6. ASSUME NEW t \in Senders, SendFault(t) PROVE Traffic
  <2>1. GivesUp(t)
    BY <1>6, SendErrorMovesOn DEF SendFault, Fault, GivesUp
  <2> QED
    BY <2>1 DEF Traffic
<1>7. ASSUME NEW r \in net, RejectMessage(r) PROVE Traffic
  <2>1. /\ net' = net \ {r}
        /\ UNCHANGED <<log, tries, sent, faults>>
    BY <1>7 DEF RejectMessage, clusterVars
  <2>2. ASSUME NEW code, Awaits(r.msg[1], r), SendError(r.msg[1], code) PROVE TurnedAway(r)
    <3>1. pc[r.msg[1]] = "sending" /\ r.msg[1] \in Senders
      BY <1>0, <2>2 DEF Awaits
    <3>2. AcksKept /\ \A u \in Senders \ {r.msg[1]} : pc'[u] = pc[u]
      BY <2>2, <3>1, SendErrorMovesOn
    <3> QED
      BY <2>1, <2>2, <3>2 DEF TurnedAway, Awaited
  <2>3. ASSUME pc' = pc, result' = result PROVE TurnedAway(r)
    <3>1. AcksKept /\ \A u \in Senders \ {r.msg[1]} : pc'[u] = pc[u]
      BY <2>3 DEF AcksKept
    <3> QED
      BY <2>1, <2>3, <3>1 DEF TurnedAway
  <2>4. \/ \E code : Awaits(r.msg[1], r) /\ SendError(r.msg[1], code)
        \/ pc' = pc /\ result' = result
    BY <1>7 DEF RejectMessage
  <2>5. TurnedAway(r)
    BY <2>2, <2>3, <2>4
  <2> QED
    BY <2>5 DEF Traffic
<1>8. ASSUME NEW p \in Parts, NEW h \in health[p], HealthStep(p, h) PROVE Traffic
  <2>1. UNCHANGED <<sent, tries, net, log, result, pc>>
    BY <1>8 DEF HealthStep, HealthClose, HealthFails, HealthStops, callVars
  <2>2. faults' >= faults
    BY <1>0, <1>8 DEF HealthStep, HealthClose, HealthFails, HealthStops, RpcFault, Fault, clusterVars
  <2> QED
    BY <1>0, <2>1, <2>2, OtherTraffic
<1>9. ASSUME NEW r \in net, StoreMessage(r) PROVE Traffic
  BY <1>9 DEF Traffic
<1> QED
  BY <1>1, <1>2, <1>3, <1>4, <1>5, <1>6, <1>7, <1>8, <1>9, TaskTraffic DEF Next, Answer

-----------------------------------------------------------------------------
(***************************************************************************)
(* What a stored message does to the sets that FaultsPay counts.           *)
(***************************************************************************)

\* The log after one more message.
LEMMA LogAppended ==
    ASSUME IndInv, NEW r \in net, StoreMessage(r)
    PROVE  /\ r.part \in Parts /\ r.msg \in Msgs /\ Len(log[r.part]) \in Nat
           /\ DOMAIN log[r.part] = 1 .. Len(log[r.part])
           /\ DOMAIN log'[r.part] = 1 .. (Len(log[r.part]) + 1)
           /\ log'[r.part][Len(log[r.part]) + 1] = r.msg
           /\ \A i \in DOMAIN log[r.part] : log'[r.part][i] = log[r.part][i]
           /\ \A q \in Parts \ {r.part} : log'[q] = log[q]
<1>1. /\ r.part \in Parts /\ r.msg \in Msgs
      /\ log \in [Parts -> Seq(Msgs)]
      /\ log' = [log EXCEPT ![r.part] = Append(@, r.msg)]
  BY DEF StoreMessage, IndInv, TypeOK, MessageTypeOK, RequestType
<1>2. /\ log[r.part] \in Seq(Msgs)
      /\ log'[r.part] = Append(log[r.part], r.msg)
      /\ \A q \in Parts \ {r.part} : log'[q] = log[q]
  BY <1>1
<1> QED
  BY <1>1, <1>2

\* The stored copy is the only one that can be a new second copy, and it is one
\* only if the message was in the log already.
LEMMA SecondCopiesAfter ==
    ASSUME IndInv, NEW r \in net, StoreMessage(r)
    PROVE  /\ SecondCopies' \subseteq SecondCopies \cup {<<r.part, Len(log[r.part]) + 1>>}
           /\ ~ StoredIn(r.part, r.msg) => SecondCopies' \subseteq SecondCopies
<1> SUFFICES ASSUME NEW x \in SecondCopies'
             PROVE  \/ x \in SecondCopies
                    \/ /\ x = <<r.part, Len(log[r.part]) + 1>>
                       /\ StoredIn(r.part, r.msg)
  OBVIOUS
<1>0. PICK p \in Parts : \E j \in DOMAIN log'[p] :
         /\ x = <<p, j>>
         /\ \E h \in 1 .. (j - 1) : log'[p][h] = log'[p][j]
  BY DEF SecondCopies
<1>1. PICK j \in DOMAIN log'[p] :
         /\ x = <<p, j>>
         /\ \E h \in 1 .. (j - 1) : log'[p][h] = log'[p][j]
  BY <1>0
<1>2. PICK h \in 1 .. (j - 1) : log'[p][h] = log'[p][j]
  BY <1>1
<1>3. ASSUME j \in DOMAIN log[p], log[p][h] = log[p][j]
      PROVE  x \in SecondCopies
  BY <1>1, <1>2, <1>3 DEF SecondCopies
<1>4. CASE p # r.part
  <2>1. log'[p] = log[p]
    BY <1>4, LogAppended
  <2> QED
    BY <1>1, <1>2, <1>3, <2>1
<1>5. CASE p = r.part
  <2>0. /\ Len(log[p]) \in Nat
        /\ DOMAIN log[p] = 1 .. Len(log[p])
        /\ DOMAIN log'[p] = 1 .. (Len(log[p]) + 1)
        /\ log'[p][Len(log[p]) + 1] = r.msg
        /\ \A i \in DOMAIN log[p] : log'[p][i] = log[p][i]
    BY <1>5, LogAppended
  <2>1. h \in DOMAIN log[p] /\ log'[p][h] = log[p][h]
    BY <1>1, <2>0
  <2>2. CASE j \in DOMAIN log[p]
    <3>1. log'[p][j] = log[p][j]
      BY <2>0, <2>2
    <3> QED
      BY <1>2, <1>3, <2>1, <2>2, <3>1
  <2>3. CASE j = Len(log[p]) + 1
    <3>1. log[p][h] = r.msg
      BY <1>2, <2>0, <2>1, <2>3
    <3> QED
      BY <1>1, <1>5, <2>1, <2>3, <3>1 DEF StoredIn
  <2> QED
    BY <2>0, <2>2, <2>3
<1> QED
  BY <1>4, <1>5

\* A message in a log after the step was there before, or is the stored one.
LEMMA StoredAfter ==
    ASSUME IndInv, NEW r \in net, StoreMessage(r),
           NEW p \in Parts, NEW m, StoredIn(p, m)'
    PROVE  m = r.msg \/ StoredIn(p, m)
<1>1. PICK i \in DOMAIN log'[p] : log'[p][i] = m
  BY DEF StoredIn
<1>2. CASE p # r.part
  BY <1>1, <1>2, LogAppended DEF StoredIn
<1>3. CASE p = r.part
  <2>1. i \in DOMAIN log[p] \/ i = Len(log[p]) + 1
    BY <1>1, <1>3, LogAppended
  <2> QED
    BY <1>1, <1>3, <2>1, LogAppended DEF StoredIn
<1> QED
  BY <1>2, <1>3

\* No message but the stored one becomes one without an acknowledgement, and
\* neither does that one if its call returns with this copy.
LEMMA UnacknowledgedAfter ==
    ASSUME IndInv, NEW r \in net, StoreMessage(r), AcksKept
    PROVE  /\ Unacknowledged' \subseteq Unacknowledged \cup {r.msg}
           /\ result'[r.msg] = "ok" => Unacknowledged' \subseteq Unacknowledged \ {r.msg}
<1> SUFFICES ASSUME NEW m \in Unacknowledged'
             PROVE  /\ m \in Unacknowledged \/ m = r.msg
                    /\ result'[r.msg] = "ok" => m # r.msg
  OBVIOUS
<1>1. m \in Msgs /\ result'[m] # "ok"
  BY DEF Unacknowledged
<1>2. PICK p \in Parts : StoredIn(p, m)'
  BY DEF Unacknowledged
<1>3. result[m] # "ok"
  BY <1>1 DEF AcksKept
<1>4. m = r.msg \/ StoredIn(p, m)
  BY <1>2, StoredAfter
<1> QED
  BY <1>1, <1>3, <1>4 DEF Unacknowledged

-----------------------------------------------------------------------------
(***************************************************************************)
(* Which requests are given up on after a step.                            *)
(***************************************************************************)

\* What the lemmas below use of the types of tasks and requests.
LEMMA RequestTypes ==
    ASSUME IndInv
    PROVE  /\ pc \in [Tasks -> PCs] /\ Senders \subseteq Tasks
           /\ sent \in [Senders -> 0 .. MaxSends] /\ MaxSends \in Nat
           /\ tries \in [Msgs -> Nat]
           /\ \A r \in net : r.msg \in Msgs /\ r.msg[1] \in Senders /\ r.try \in Nat
BY ProducerAssumption
   DEF IndInv, TypeOK, TaskTypeOK, CallTypeOK, MessageTypeOK, RequestType, Msgs, Tasks

\* A new request is awaited, and no other task stops awaiting its own.
LEMMA RequestsNotGivenUp ==
    ASSUME IndInv, RequestsNumbered, NEW t \in Senders, NEW m \in Msgs, Requests(t, m)
    PROVE  GivenUp' \subseteq GivenUp /\ RequestsNumbered'
<1>0. PICK q : q.msg = m /\ q.try = tries[m] + 1 /\ net' = net \cup {q}
  BY DEF Requests
<1>1. /\ tries' = [tries EXCEPT ![m] = @ + 1] /\ tries[m] \in Nat
      /\ tries'[m] = tries[m] + 1
      /\ \A k \in Msgs \ {m} : tries'[k] = tries[k]
      /\ pc'[t] = "sending" /\ pc[t] # "sending"
      /\ \A u \in Senders \ {t} : pc'[u] = pc[u] /\ sent'[u] = sent[u]
      /\ m[1] = t /\ Cur(t)' = m
  BY RequestTypes DEF Requests
<1>2. ASSUME NEW r \in net, Awaited(r) PROVE Awaited(r)'
  <2>1. r.msg \in Msgs /\ r.msg[1] \in Senders \ {t}
    BY <1>1, <1>2, RequestTypes DEF Awaited, Awaits
  <2>2. r.msg # m
    BY <1>1, <2>1
  <2> QED
    BY <1>1, <1>2, <2>1, <2>2 DEF Awaited, Awaits, Cur
<1>3. Awaited(q)'
  BY <1>0, <1>1 DEF Awaited, Awaits
<1>4. GivenUp' \subseteq GivenUp
  BY <1>0, <1>2, <1>3 DEF GivenUp
<1>5. RequestsNumbered'
  <2>1. ASSUME NEW r \in net PROVE r.try <= tries'[r.msg] /\ (r.msg = m => r.try < q.try)
    <3>1. r.msg \in Msgs /\ r.try \in Nat /\ tries[r.msg] \in Nat /\ r.try <= tries[r.msg]
      BY RequestTypes DEF RequestsNumbered
    <3> QED
      BY <1>0, <1>1, <3>1
  <2>2. q.try <= tries'[q.msg] /\ q.try \in Nat
    BY <1>0, <1>1
  <2>3. \A r \in net : r.try \in Nat
    BY RequestTypes
  <2>4. ASSUME NEW r \in net', NEW s \in net', s.msg = r.msg, s.try = r.try
        PROVE  s = r
    BY <1>0, <2>1, <2>2, <2>3, <2>4 DEF RequestsNumbered
  <2> QED
    BY <1>0, <2>1, <2>2, <2>4 DEF RequestsNumbered
<1> QED
  BY <1>4, <1>5

\* Only the request that the task awaits is given up on by a fault.
LEMMA OneGivenUp ==
    ASSUME IndInv, RequestsNumbered, NEW t \in Senders, GivesUp(t)
    PROVE  \E x : GivenUp' \subseteq GivenUp \cup {x}
<1>1. /\ net' = net /\ tries' = tries /\ sent' = sent
      /\ \A u \in Senders \ {t} : pc'[u] = pc[u]
  BY DEF GivesUp
<1>2. ASSUME NEW r \in net, Awaited(r), ~ Awaited(r)' PROVE r.msg = Cur(t) /\ r.try = tries[Cur(t)]
  <2>1. r.msg[1] \in Senders
    BY RequestTypes
  <2>2. r.msg[1] = t
    BY <1>1, <1>2, <2>1 DEF Awaited, Awaits, Cur
  <2> QED
    BY <1>2, <2>2 DEF Awaited, Awaits
<1>3. CASE \E x \in net : Awaited(x) /\ ~ Awaited(x)'
  <2>1. PICK x \in net : Awaited(x) /\ ~ Awaited(x)'
    BY <1>3
  <2>2. \A r \in net : Awaited(r) /\ ~ Awaited(r)' => r = x
    BY <1>2, <2>1 DEF RequestsNumbered
  <2>3. GivenUp' \subseteq GivenUp \cup {x}
    BY <1>1, <2>2 DEF GivenUp
  <2> QED
    BY <2>3
<1>4. CASE \A x \in net : Awaited(x) => Awaited(x)'
  BY <1>1, <1>4 DEF GivenUp
<1> QED
  BY <1>3, <1>4

\* A request that a broker has handled is no longer there to be given up on, and
\* the task that awaited it awaits no other.
LEMMA HandledNotGivenUp ==
    ASSUME IndInv, RequestsNumbered, NEW r \in net, net' = net \ {r},
           Awaited(r) \/ pc' = pc,
           \A u \in Senders \ {r.msg[1]} : pc'[u] = pc[u],
           UNCHANGED <<tries, sent>>
    PROVE  GivenUp' \subseteq GivenUp \ {r} /\ RequestsNumbered'
<1>1. ASSUME NEW s \in net', Awaited(s) PROVE Awaited(s)'
  <2>1. s \in net /\ s # r /\ s.msg[1] \in Senders
    BY RequestTypes
  <2>2. CASE pc' = pc
    BY <1>1, <2>2 DEF Awaited, Awaits, Cur
  <2>3. CASE s.msg[1] # r.msg[1]
    BY <1>1, <2>1, <2>3 DEF Awaited, Awaits, Cur
  <2>4. CASE Awaited(r) /\ s.msg[1] = r.msg[1]
    BY <1>1, <2>1, <2>4 DEF Awaited, Awaits, RequestsNumbered
  <2> QED
    BY <2>2, <2>3, <2>4
<1>2. GivenUp' \subseteq GivenUp \ {r}
  BY <1>1 DEF GivenUp
<1>3. RequestsNumbered'
  BY DEF RequestsNumbered
<1> QED
  BY <1>2, <1>3

-----------------------------------------------------------------------------
(***************************************************************************)
(* Counting.                                                               *)
(***************************************************************************)

\* A subset of a finite set has no more elements than it.
LEMMA NoMore ==
    ASSUME NEW S, IsFiniteSet(S), NEW T, T \subseteq S
    PROVE  /\ IsFiniteSet(T)
           /\ Cardinality(S) \in Nat /\ Cardinality(T) \in Nat
           /\ Cardinality(T) <= Cardinality(S)
BY FS_Subset, FS_CardinalityType

\* With one more element there may be one more.
LEMMA OneMore ==
    ASSUME NEW S, IsFiniteSet(S), NEW T, NEW x, T \subseteq S \cup {x}
    PROVE  /\ IsFiniteSet(T)
           /\ Cardinality(S) \in Nat /\ Cardinality(T) \in Nat
           /\ Cardinality(T) <= Cardinality(S) + 1
<1>1. IsFiniteSet(S \cup {x}) /\ Cardinality(S \cup {x}) <= Cardinality(S) + 1
      /\ Cardinality(S) \in Nat
  BY FS_AddElement, FS_CardinalityType
<1>2. /\ IsFiniteSet(T) /\ Cardinality(T) \in Nat /\ Cardinality(S \cup {x}) \in Nat
      /\ Cardinality(T) <= Cardinality(S \cup {x})
  BY <1>1, NoMore
<1> QED
  BY <1>1, <1>2

\* With one element less there is at least one less.
LEMMA OneLess ==
    ASSUME NEW S, IsFiniteSet(S), NEW T, NEW x \in S, T \subseteq S \ {x}
    PROVE  /\ IsFiniteSet(T)
           /\ Cardinality(S) \in Nat /\ Cardinality(T) \in Nat
           /\ Cardinality(T) + 1 <= Cardinality(S)
<1>1. IsFiniteSet(S \ {x}) /\ Cardinality(S \ {x}) = Cardinality(S) - 1
      /\ Cardinality(S) \in Nat
  BY FS_RemoveElement, FS_CardinalityType
<1>2. /\ IsFiniteSet(T) /\ Cardinality(T) \in Nat
      /\ Cardinality(T) <= Cardinality(S \ {x})
  BY <1>1, NoMore
<1> QED
  BY <1>1, <1>2

-----------------------------------------------------------------------------
(***************************************************************************)
(* Every step leaves the copies paid for.                                  *)
(***************************************************************************)

\* A stored request: a new second copy is paid for by the request itself, if it
\* was given up on, or else by the earlier copy that was not acknowledged.
LEMMA StoredIsPaid ==
    ASSUME IndInv, CallStates, RequestsNumbered, FaultsPay,
           NEW r \in net, StoreMessage(r)
    PROVE  FaultsPay' /\ RequestsNumbered'
<1> DEFINE x == <<r.part, Len(log[r.part]) + 1>>
<1>0. /\ faults' = faults
      /\ net' = net \ {r} /\ UNCHANGED <<tries, sent>>
  BY DEF StoreMessage, clusterVars
<1>1. /\ r.msg \in Msgs /\ r.part \in Parts /\ r.msg[1] \in Senders
      /\ result \in [Msgs -> {"new", "pending", "ok", "raised"}]
      /\ faults \in Nat /\ faults' = faults
      /\ net' = net \ {r} /\ UNCHANGED <<tries, sent>>
  BY <1>0, RequestTypes, LogAppended
     DEF IndInv, TypeOK, CallTypeOK, ClusterTypeOK
<1>2. AcksKept /\ (Awaited(r) \/ pc' = pc) /\ \A u \in Senders \ {r.msg[1]} : pc'[u] = pc[u]
  <2>1. CASE EndCall(r.msg[1], "ok") /\ Awaits(r.msg[1], r)
    BY <1>1, <2>1, RequestTypes DEF EndCall, AcksKept, Awaited, Awaits
  <2>2. CASE UNCHANGED <<pc, result>>
    BY <2>2 DEF AcksKept
  <2> QED
    BY <2>1, <2>2 DEF StoreMessage
<1>3. GivenUp' \subseteq GivenUp \ {r} /\ RequestsNumbered'
  BY <1>1, <1>2, HandledNotGivenUp
<1>4. /\ SecondCopies' \subseteq SecondCopies \cup {x}
      /\ ~ StoredIn(r.part, r.msg) => SecondCopies' \subseteq SecondCopies
  BY SecondCopiesAfter
<1>5. /\ Unacknowledged' \subseteq Unacknowledged \cup {r.msg}
      /\ result'[r.msg] = "ok" => Unacknowledged' \subseteq Unacknowledged \ {r.msg}
  BY <1>2, UnacknowledgedAfter
<1>6. /\ IsFiniteSet(SecondCopies) /\ IsFiniteSet(GivenUp) /\ IsFiniteSet(Unacknowledged)
      /\ Cardinality(SecondCopies) + Cardinality(GivenUp) + Cardinality(Unacknowledged) <= faults
  BY DEF FaultsPay
<1>7. CASE ~ Awaited(r) /\ StoredIn(r.part, r.msg)
  <2>1. r \in GivenUp
    BY <1>7 DEF GivenUp
  <2>2. Unacknowledged' \subseteq Unacknowledged
    <3>1. CASE result[r.msg] = "ok"
      BY <1>1, <1>2, <1>5, <3>1 DEF AcksKept
    <3>2. CASE result[r.msg] # "ok"
      <4>1. r.msg \in Unacknowledged
        BY <1>1, <1>7, <3>2 DEF Unacknowledged
      <4> QED
        BY <1>5, <4>1
    <3> QED
      BY <3>1, <3>2
  <2>3. /\ IsFiniteSet(SecondCopies') /\ Cardinality(SecondCopies) \in Nat
        /\ Cardinality(SecondCopies') \in Nat
        /\ Cardinality(SecondCopies') <= Cardinality(SecondCopies) + 1
    BY <1>4, <1>6, OneMore
  <2>4. /\ IsFiniteSet(GivenUp') /\ Cardinality(GivenUp) \in Nat /\ Cardinality(GivenUp') \in Nat
        /\ Cardinality(GivenUp') + 1 <= Cardinality(GivenUp)
    BY <1>3, <1>6, <2>1, OneLess
  <2>5. /\ IsFiniteSet(Unacknowledged') /\ Cardinality(Unacknowledged) \in Nat
        /\ Cardinality(Unacknowledged') \in Nat
        /\ Cardinality(Unacknowledged') <= Cardinality(Unacknowledged)
    BY <1>6, <2>2, NoMore
  <2> QED
    BY <1>1, <1>3, <1>6, <2>3, <2>4, <2>5 DEF FaultsPay
<1>8. CASE ~ Awaited(r) /\ ~ StoredIn(r.part, r.msg)
  <2>1. r \in GivenUp
    BY <1>8 DEF GivenUp
  <2>2. /\ IsFiniteSet(SecondCopies') /\ Cardinality(SecondCopies) \in Nat
        /\ Cardinality(SecondCopies') \in Nat
        /\ Cardinality(SecondCopies') <= Cardinality(SecondCopies)
    BY <1>4, <1>6, <1>8, NoMore
  <2>3. /\ IsFiniteSet(GivenUp') /\ Cardinality(GivenUp) \in Nat /\ Cardinality(GivenUp') \in Nat
        /\ Cardinality(GivenUp') + 1 <= Cardinality(GivenUp)
    BY <1>3, <1>6, <2>1, OneLess
  <2>4. /\ IsFiniteSet(Unacknowledged') /\ Cardinality(Unacknowledged) \in Nat
        /\ Cardinality(Unacknowledged') \in Nat
        /\ Cardinality(Unacknowledged') <= Cardinality(Unacknowledged) + 1
    BY <1>5, <1>6, OneMore
  <2> QED
    BY <1>1, <1>3, <1>6, <2>2, <2>3, <2>4 DEF FaultsPay
<1>9. CASE Awaited(r)
  <2>1. result[r.msg] = "pending" /\ result'[r.msg] = "ok"
    <3>1. r.msg = Cur(r.msg[1]) /\ pc[r.msg[1]] = "sending"
      BY <1>9 DEF Awaited, Awaits
    <3>2. result[r.msg] = "pending"
      BY <1>1, <3>1, BusyPending DEF Busy
    <3>3. EndCall(r.msg[1], "ok")
      BY <1>9 DEF StoreMessage, Awaited
    <3> QED
      BY <1>1, <3>1, <3>2, <3>3 DEF EndCall
  <2>2. Unacknowledged' \subseteq Unacknowledged \ {r.msg}
    BY <1>5, <2>1
  <2>3. /\ IsFiniteSet(GivenUp') /\ Cardinality(GivenUp) \in Nat /\ Cardinality(GivenUp') \in Nat
        /\ Cardinality(GivenUp') <= Cardinality(GivenUp)
    BY <1>3, <1>6, NoMore
  <2>4. CASE StoredIn(r.part, r.msg)
    <3>1. r.msg \in Unacknowledged
      BY <1>1, <2>1, <2>4 DEF Unacknowledged
    <3>2. /\ IsFiniteSet(Unacknowledged') /\ Cardinality(Unacknowledged) \in Nat
          /\ Cardinality(Unacknowledged') \in Nat
          /\ Cardinality(Unacknowledged') + 1 <= Cardinality(Unacknowledged)
      <4>1. PICK m \in Unacknowledged : Unacknowledged' \subseteq Unacknowledged \ {m}
        BY <2>2, <3>1
      <4> QED
        BY <1>6, <4>1, OneLess
    <3>3. /\ IsFiniteSet(SecondCopies') /\ Cardinality(SecondCopies) \in Nat
          /\ Cardinality(SecondCopies') \in Nat
          /\ Cardinality(SecondCopies') <= Cardinality(SecondCopies) + 1
      BY <1>4, <1>6, OneMore
    <3> QED
      BY <1>1, <1>3, <1>6, <2>3, <3>2, <3>3 DEF FaultsPay
  <2>5. CASE ~ StoredIn(r.part, r.msg)
    <3>1. /\ IsFiniteSet(Unacknowledged') /\ Cardinality(Unacknowledged) \in Nat
          /\ Cardinality(Unacknowledged') \in Nat
          /\ Cardinality(Unacknowledged') <= Cardinality(Unacknowledged)
      BY <1>6, <2>2, NoMore
    <3>2. /\ IsFiniteSet(SecondCopies') /\ Cardinality(SecondCopies) \in Nat
          /\ Cardinality(SecondCopies') \in Nat
          /\ Cardinality(SecondCopies') <= Cardinality(SecondCopies)
      BY <1>4, <1>6, <2>5, NoMore
    <3> QED
      BY <1>1, <1>3, <1>6, <2>3, <3>1, <3>2 DEF FaultsPay
  <2> QED
    BY <2>4, <2>5
<1> QED
  BY <1>7, <1>8, <1>9

\* A step that stores nothing makes no copy; only a fault gives a request up.
LEMMA UnstoredIsPaid ==
    ASSUME IndInv, FaultsPay, log' = log, AcksKept, faults' \in Nat,
           \/ GivenUp' \subseteq GivenUp /\ faults' >= faults
           \/ (\E x : GivenUp' \subseteq GivenUp \cup {x}) /\ faults' = faults + 1
    PROVE  FaultsPay'
<1>1. /\ IsFiniteSet(SecondCopies) /\ IsFiniteSet(GivenUp) /\ IsFiniteSet(Unacknowledged)
      /\ Cardinality(SecondCopies) + Cardinality(GivenUp) + Cardinality(Unacknowledged) <= faults
      /\ faults \in Nat
  BY DEF FaultsPay, IndInv, TypeOK, ClusterTypeOK
<1>2. SecondCopies' = SecondCopies
  BY DEF SecondCopies
<1>3. Unacknowledged' \subseteq Unacknowledged
  BY DEF Unacknowledged, AcksKept, StoredIn
<1>4. /\ IsFiniteSet(Unacknowledged') /\ Cardinality(Unacknowledged) \in Nat
      /\ Cardinality(Unacknowledged') \in Nat
      /\ Cardinality(Unacknowledged') <= Cardinality(Unacknowledged)
  BY <1>1, <1>3, NoMore
<1>5. Cardinality(SecondCopies) \in Nat
  BY <1>1, FS_CardinalityType
<1>6. CASE GivenUp' \subseteq GivenUp /\ faults' >= faults
  <2>1. /\ IsFiniteSet(GivenUp') /\ Cardinality(GivenUp) \in Nat /\ Cardinality(GivenUp') \in Nat
        /\ Cardinality(GivenUp') <= Cardinality(GivenUp)
    BY <1>1, <1>6, NoMore
  <2> QED
    BY <1>1, <1>2, <1>4, <1>5, <1>6, <2>1 DEF FaultsPay
<1>7. CASE (\E x : GivenUp' \subseteq GivenUp \cup {x}) /\ faults' = faults + 1
  <2>1. /\ IsFiniteSet(GivenUp') /\ Cardinality(GivenUp) \in Nat /\ Cardinality(GivenUp') \in Nat
        /\ Cardinality(GivenUp') <= Cardinality(GivenUp) + 1
    BY <1>1, <1>7, OneMore
  <2> QED
    BY <1>1, <1>2, <1>4, <1>5, <1>7, <2>1 DEF FaultsPay
<1> QED
  BY <1>6, <1>7

\* Every effect leaves the copies paid for and the requests numbered.
LEMMA TrafficPays ==
    ASSUME IndInv, CallStates, RequestsNumbered, FaultsPay, Traffic, faults' \in Nat
    PROVE  FaultsPay' /\ RequestsNumbered'
<1>1. CASE NothingGivenUp
  <2>1. GivenUp' \subseteq GivenUp /\ RequestsNumbered'
    BY <1>1 DEF NothingGivenUp, GivenUp, RequestsNumbered
  <2> QED
    BY <1>1, <2>1, UnstoredIsPaid DEF NothingGivenUp
<1>2. ASSUME NEW t \in Senders, NEW m \in Msgs, Requests(t, m)
      PROVE  FaultsPay' /\ RequestsNumbered'
  <2>1. GivenUp' \subseteq GivenUp /\ RequestsNumbered'
    BY <1>2, RequestsNotGivenUp
  <2>2. log' = log /\ AcksKept /\ faults' >= faults
    BY <1>2 DEF Requests
  <2> QED
    BY <2>1, <2>2, UnstoredIsPaid
<1>3. ASSUME NEW t \in Senders, GivesUp(t)
      PROVE  FaultsPay' /\ RequestsNumbered'
  <2>1. \E x : GivenUp' \subseteq GivenUp \cup {x}
    BY <1>3, OneGivenUp
  <2>2. RequestsNumbered'
    BY <1>3 DEF GivesUp, RequestsNumbered
  <2> QED
    BY <1>3, <2>1, <2>2, UnstoredIsPaid DEF GivesUp
<1>4. ASSUME NEW r \in net, TurnedAway(r)
      PROVE  FaultsPay' /\ RequestsNumbered'
  <2>1. GivenUp' \subseteq GivenUp \ {r} /\ RequestsNumbered'
    BY <1>4, HandledNotGivenUp DEF TurnedAway
  <2>2. log' = log /\ AcksKept /\ faults' >= faults
    BY <1>4 DEF TurnedAway
  <2> QED
    BY <2>1, <2>2, UnstoredIsPaid
<1>5. ASSUME NEW r \in net, StoreMessage(r)
      PROVE  FaultsPay' /\ RequestsNumbered'
  BY <1>5, StoredIsPaid
<1> QED
  BY <1>1, <1>2, <1>3, <1>4, <1>5 DEF Traffic

\* Copies in the logs, requests and acknowledgements never exceed what faults
\* account for, and two requests are never confused.
THEOREM ProducerFaultsPay == Spec => [](FaultsPay /\ RequestsNumbered)
<1>1. Init => IndInv /\ CallStates
  BY InitInv, InitIsPromised
<1>2. Init => FaultsPay /\ RequestsNumbered
  <2> SUFFICES ASSUME Init PROVE FaultsPay /\ RequestsNumbered
    OBVIOUS
  <2>1. net = {} /\ faults = 0 /\ log = [p \in Parts |-> <<>>]
    BY DEF Init, ClusterInit
  <2>2. \A p \in Parts : DOMAIN log[p] = {}
    BY <2>1
  <2>3. SecondCopies = {} /\ GivenUp = {} /\ Unacknowledged = {}
    BY <2>1, <2>2 DEF SecondCopies, GivenUp, Unacknowledged, StoredIn
  <2> QED
    BY <2>1, <2>3, FS_EmptySet DEF FaultsPay, RequestsNumbered
<1>3. IndInv /\ CallStates /\ (FaultsPay /\ RequestsNumbered) /\ [Next]_vars =>
         IndInv' /\ CallStates' /\ (FaultsPay /\ RequestsNumbered)'
  <2> SUFFICES ASSUME IndInv, CallStates, FaultsPay, RequestsNumbered, [Next]_vars
               PROVE  IndInv' /\ CallStates' /\ (FaultsPay /\ RequestsNumbered)'
    OBVIOUS
  <2>1. IndInv' /\ CallStates' /\ Traffic
    BY StepInv, StepEffect, EffectKeepsCallStates, StepTraffic
  <2>2. faults' \in Nat
    BY <2>1, ClusterAssumption DEF IndInv, TypeOK, ClusterTypeOK
  <2> QED
    BY <2>1, <2>2, TrafficPays
<1> QED
  BY <1>1, <1>2, <1>3, PTL DEF Spec

\* The retries of send() never duplicate a message on their own: there are at
\* most as many second copies in the logs as there were faults, however often
\* calls were retried and producers re-created.
THEOREM ProducerDuplicatesNeedFaults == Spec => []DuplicatesNeedFaults
<1>1. IndInv /\ FaultsPay => DuplicatesNeedFaults
  <2> SUFFICES ASSUME IndInv, FaultsPay PROVE DuplicatesNeedFaults
    OBVIOUS
  <2>1. /\ Cardinality(SecondCopies) \in Nat /\ Cardinality(GivenUp) \in Nat
        /\ Cardinality(Unacknowledged) \in Nat /\ faults \in Nat
    BY FS_CardinalityType DEF FaultsPay, IndInv, TypeOK, ClusterTypeOK
  <2> QED
    BY <2>1 DEF FaultsPay, DuplicatesNeedFaults
<1> QED
  BY <1>1, ProducerIndInv, ProducerFaultsPay, PTL
=============================================================================
