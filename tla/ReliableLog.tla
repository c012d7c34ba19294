----------------------------- MODULE ReliableLog -----------------------------
(***************************************************************************)
(* What a Producer with reliable dispatch promises to the application, and *)
(* nothing about how: Producer implements this specification.              *)
(*                                                                         *)
(* Each task makes one call after the other. A call picks a partition once;*)
(* while it is pending, and also after it has ended, copies of its message *)
(* may be appended to that partition's log and to no other. It may end     *)
(* with an exception at any time, but it may return only with the append   *)
(* of a copy. Logs only grow.                                              *)
(***************************************************************************)
EXTENDS Naturals, Sequences

CONSTANTS Parts,      \* partitions of the topic
          Senders,    \* application tasks
          MaxSends,   \* calls per task
          NoPart      \* no partition picked

VARIABLES partition,  \* partition[m]: the partition that the call of m picked
          result,     \* result[m]: new, pending, ok or raised
          log         \* log[p]: the messages stored in partition p

vars == <<partition, result, log>>

Msgs == Senders \X (1 .. MaxSends)

Init ==
    /\ partition = [m \in Msgs |-> NoPart]
    /\ result = [m \in Msgs |-> "new"]
    /\ log = [p \in Parts |-> <<>>]

\* The calls of a task are made in order, and not while one is pending.
IsNext(t, n) ==
    /\ \A k \in 1 .. MaxSends : k < n => result[<<t, k>>] \in {"ok", "raised"}
    /\ \A k \in 1 .. MaxSends : k >= n => result[<<t, k>>] = "new"

\* A call picks a partition.
Call(t, n, p) ==
    /\ IsNext(t, n)
    /\ partition' = [partition EXCEPT ![<<t, n>>] = p]
    /\ result' = [result EXCEPT ![<<t, n>>] = "pending"]
    /\ UNCHANGED log

\* A call is turned down: the producer is not usable.
TurnDown(t, n) ==
    /\ IsNext(t, n)
    /\ result' = [result EXCEPT ![<<t, n>>] = "raised"]
    /\ UNCHANGED <<partition, log>>

\* A copy of message m is stored, and the call may return with it.
StoreCopy(m) ==
    /\ partition[m] \in Parts
    /\ log' = [log EXCEPT ![partition[m]] = Append(@, m)]
    /\ \/ UNCHANGED result
       \/ /\ result[m] = "pending"
          /\ result' = [result EXCEPT ![m] = "ok"]
    /\ UNCHANGED partition

\* A pending call gives up.
Raise(m) ==
    /\ result[m] = "pending"
    /\ result' = [result EXCEPT ![m] = "raised"]
    /\ UNCHANGED <<partition, log>>

Next ==
    \/ \E t \in Senders, n \in 1 .. MaxSends :
          TurnDown(t, n) \/ \E p \in Parts : Call(t, n, p)
    \/ \E m \in Msgs : StoreCopy(m) \/ Raise(m)

Spec == Init /\ [][Next]_vars
=============================================================================
