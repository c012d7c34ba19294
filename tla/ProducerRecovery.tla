-------------------------- MODULE ProducerRecovery --------------------------
(***************************************************************************)
(* "Automatic Reconnection - Resilient connection handling with retry      *)
(* logic" (README.md:38) as a property of Producer: a call of send() that  *)
(* runs in a healthy cluster from its start to its end succeeds, whatever  *)
(* crashes and moves there were before it. The variable calm only watches; *)
(* it constrains no step.                                                  *)
(***************************************************************************)
EXTENDS Producer

VARIABLE calm   \* the messages whose call has met a healthy cluster only

recoveryVars == <<vars, calm>>

\* The broker that owns the partition is up, so is the one the client was
\* configured with, and this step changes nothing about the cluster.
HealthyStep(p) ==
    /\ owner[p] \in alive
    /\ ~ Unreachable(ServiceUrl, NoHeader)
    /\ UNCHANGED <<alive, owner, faults>>

Watch ==
    calm' = {m \in Msgs : /\ m \in calm \/ result[m] = "new"
                          /\ result'[m] = "pending"
                          /\ HealthyStep(partition'[m])}

RecoveryInit == Init /\ calm = {}

RecoverySpec == RecoveryInit /\ [][Next /\ Watch]_recoveryVars

\* No call of send() raises that has met a healthy cluster only.
CalmSendSucceeds ==
    [][\A m \in calm : result'[m] = "raised" => faults' # faults]_recoveryVars

(***************************************************************************)
(* Why a calm send succeeds, where the cluster is behind a gateway that    *)
(* always finds a broker (one never crashes, or there are more brokers     *)
(* than faults), RPCs do not fail for no reason, brokers turn requests     *)
(* down with a code that is retried, and one task sends.                   *)
(***************************************************************************)
Recoverable ==
    /\ Proxied
    /\ \/ ~ Brokers \subseteq Crashing
       \/ IsFiniteSet(Brokers) /\ Cardinality(Brokers) > MaxFaults
    /\ FaultCodes = {}
    /\ \A code \in RejectCodes : is_retryable(code)
    /\ \A s, t \in Senders : s = t

\* A broker that is down has crashed, and cost a fault.
BrokersDown ==
    /\ Brokers \ alive \subseteq Crashing
    /\ IsFiniteSet(Brokers) => Cardinality(Brokers \ alive) <= faults

\* The client dials the gateway, and a lookup answer switches to proxy mode.
Dials ==
    /\ \A p \in Parts : tp[p].connect_url = ServiceUrl
    /\ \A t \in Tasks :
          /\ InLookup(t) => rpc[t] = [url |-> ServiceUrl, header |-> NoHeader]
          /\ answer[t] # NoAddr => answer[t].proxy /\ answer[t].connect_url = ServiceUrl

\* A session is the one the object knows, at the broker that the object names.
Fits(p) ==
    /\ owner[p] \in alive
    /\ tp[p].proxy
    /\ tp[p].broker_addr = owner[p]
    /\ tp[p].producer_id = sess[p]

SessionsKnown ==
    /\ \A p \in Parts : sess[p] # 0 => Fits(p)
    /\ \A p \in Parts : pc[p] = "done" => tp[p].proxy

\* A task leaves an object behind, or is about to register it, only when its
\* session is gone; and it registers it at the broker that the object names.
Seeking == {"new", "backoff", "relook", "lookup", "creating", "lookupAgain", "createBackoff"}

Seekers ==
    \A t \in Tasks :
        /\ pc[t] \in Seeking => sess[PartOf(t)] = 0
        /\ pc[t] \in {"creating", "createBackoff", "schema"} => tp[PartOf(t)].proxy
        /\ pc[t] = "creating" => rpc[t].header = tp[PartOf(t)].broker_addr

\* The request that a task waits for is the one its object would send now.
RequestsCurrent ==
    \A t \in Senders : \A r \in net : Awaits(t, r) =>
        /\ r.route.header = tp[PartOf(t)].broker_addr
        /\ r.producer_id = tp[PartOf(t)].producer_id

\* Nobody sends before all creators are done.
SendersWait == \A t \in Senders : Busy(t) => created

ObjectsFit ==
    BrokersDown /\ Dials /\ SessionsKnown /\ Seekers /\ RequestsCurrent /\ SendersWait

\* What a call has learnt about the owner is so: the first CreateProducer of a
\* re-creation goes to the right broker, and no second one is tried.
Informed(t, p) ==
    /\ owner[p] \in alive
    /\ InLookup(t) /\ answer[t] # NoAddr => answer[t].broker_url = owner[p]
    /\ pc[t] = "creating" => rpc[t].header = owner[p]
    /\ pc[t] \notin {"lookupAgain", "createBackoff"}

CalmCallsInformed ==
    /\ calm \subseteq Msgs
    /\ \A m \in calm : result[m] = "pending" /\ Informed(m[1], partition[m])

RecoveryInv == ObjectsFit /\ CalmCallsInformed
=============================================================================
