------------------------------- MODULE Cluster -------------------------------
(***************************************************************************)
(* The Danube brokers, as far as one client can tell. Nothing here is code *)
(* of the repository: it is the environment that the RPCs of danube/*.py   *)
(* meet, modelled from how the client uses the answers.                    *)
(*                                                                         *)
(*   - every partition is owned by one broker; the owner keeps at most one *)
(*     session for the client's (unique) producer or consumer name, so a   *)
(*     second registration of that name is answered ALREADY_EXISTS, which  *)
(*     topic_producer.py:97 and topic_consumer.py:101 expect;              *)
(*   - a broker that crashes loses its sessions, and so does a partition   *)
(*     that moves to another broker; the partition's log survives both     *)
(*     (reliable dispatch is backed by a WAL and cloud storage);           *)
(*   - a lookup is answered by any broker that is alive. With Proxied the  *)
(*     cluster sits behind a gateway, all connections go to it and the     *)
(*     header names the broker; without it clients connect to the owner.   *)
(***************************************************************************)
EXTENDS RetryManager, FiniteSets, Sequences

CONSTANTS Brokers,      \* addresses of the brokers
          ServiceUrl,   \* DanubeClient.uri: a broker or the gateway
          Proxied,      \* whether lookups answer with proxy = True
          Parts,        \* indices of the topic's partitions
          Crashing,     \* the brokers that may crash
          FaultCodes,   \* status codes an RPC may fail with for no reason
          RejectCodes,  \* status codes of a broker without topic or session
          MaxFaults     \* bound on the number of faults in a behaviour

ASSUME ClusterAssumption ==
    /\ Brokers # {}
    /\ NoHeader \notin Brokers
    /\ Proxied \in BOOLEAN
    /\ Proxied => ServiceUrl \notin Brokers
    /\ MaxFaults \in Nat

VARIABLES alive,    \* the brokers that are up
          owner,    \* owner[p]: the broker that serves partition p
          sess,     \* sess[p]: id of the client's session at owner[p], or 0
          nextId,   \* the next session id
          faults    \* number of faults so far

clusterVars == <<alive, owner, sess, nextId, faults>>

Urls == Brokers \cup {ServiceUrl}
Headers == Brokers \cup {NoHeader}
BrokerAddress == [connect_url : Urls, broker_url : Brokers, proxy : BOOLEAN]

ClusterTypeOK ==
    /\ alive \in SUBSET Brokers
    /\ owner \in [Parts -> Brokers]
    /\ sess \in [Parts -> Nat]
    /\ nextId \in Nat \ {0}
    /\ faults \in 0..MaxFaults

\* All brokers are up and the partitions are spread over them in any way.
ClusterInit ==
    /\ alive = Brokers
    /\ owner \in [Parts -> Brokers]
    /\ sess = [p \in Parts |-> 0]
    /\ nextId = 1
    /\ faults = 0

(***************************************************************************)
(* Where a request ends up: at the broker the header names, else at the    *)
(* broker that listens on the url, else (gateway, no header) anywhere.     *)
(***************************************************************************)
Reach(url, header) ==
    IF header # NoHeader THEN {header}
    ELSE IF url \in Brokers THEN {url} ELSE Brokers

Unreachable(url, header) == Reach(url, header) \cap alive = {}

\* TopicLookupResponse of a broker that is up (Redirect or Connect).
LookupAnswer(p) ==
    [connect_url |-> IF Proxied THEN ServiceUrl ELSE owner[p],
     broker_url  |-> owner[p],
     proxy       |-> Proxied]

\* The owner of p opens a session for the client's name and hands out its id.
Register(p) ==
    /\ sess' = [sess EXCEPT ![p] = nextId]
    /\ nextId' = nextId + 1

(***************************************************************************)
(* Faults. A crash and a rebalancing of a healthy partition are counted,   *)
(* so are RPCs that fail for no visible reason; restarting a broker and    *)
(* moving a partition off a dead one repair the cluster and are free.      *)
(***************************************************************************)
Fault == /\ faults < MaxFaults
         /\ faults' = faults + 1

\* An RPC fails for no visible reason, if such failures are considered at all.
RpcFault == FaultCodes # {} /\ Fault

DropSessions(b) == [p \in Parts |-> IF owner[p] = b THEN 0 ELSE sess[p]]

Crash(b) ==
    /\ b \in alive \cap Crashing
    /\ Fault
    /\ alive' = alive \ {b}
    /\ sess' = DropSessions(b)
    /\ UNCHANGED <<owner, nextId>>

Restart(b) ==
    /\ b \notin alive
    /\ alive' = alive \cup {b}
    /\ UNCHANGED <<owner, sess, nextId, faults>>

Move(p, b) ==
    /\ b \in alive \ {owner[p]}
    /\ IF owner[p] \in alive THEN Fault ELSE UNCHANGED faults
    /\ owner' = [owner EXCEPT ![p] = b]
    /\ sess' = [sess EXCEPT ![p] = 0]
    /\ UNCHANGED <<alive, nextId>>

ClusterStep ==
    \/ \E b \in Brokers : Crash(b) \/ Restart(b)
    \/ \E p \in Parts, b \in Brokers : Move(p, b)
=============================================================================
