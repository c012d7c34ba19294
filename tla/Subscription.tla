---------------------------- MODULE Subscription ----------------------------
(***************************************************************************)
(* What a Consumer promises to the application, and nothing about how:     *)
(* Consumer implements this specification.                                 *)
(*                                                                         *)
(* Message <<p, n>> is the n-th one in the log of partition p. A message   *)
(* may be delivered as soon as it is stored and all the earlier ones of    *)
(* its partition have been delivered, and it may be delivered again at any *)
(* time (at-least-once). Nothing is delivered into a full queue, nor after *)
(* the subscription was closed.                                            *)
(***************************************************************************)
EXTENDS Naturals, Sequences

CONSTANTS Parts,      \* partitions of the topic
          MaxMsgs,    \* bound on the messages of a partition
          Capacity    \* room in the application's queue

VARIABLES stored,     \* stored[p]: number of messages in the log of p
          queue,      \* delivered and not yet taken
          seen,       \* messages that were delivered
          taken,      \* messages the application took off the queue
          acked,      \* messages that count as processed
          closed      \* the subscription was closed

vars == <<stored, queue, seen, taken, acked, closed>>

Msgs == Parts \X (1 .. MaxMsgs)

Init ==
    /\ stored = [p \in Parts |-> 0]
    /\ queue = <<>>
    /\ seen = {}
    /\ taken = {}
    /\ acked = {}
    /\ closed = FALSE

Publish(p) ==
    /\ stored[p] < MaxMsgs
    /\ stored' = [stored EXCEPT ![p] = @ + 1]
    /\ UNCHANGED <<queue, seen, taken, acked, closed>>

Deliver(m) ==
    /\ ~ closed
    /\ Len(queue) < Capacity
    /\ m[2] <= stored[m[1]]
    /\ \A n \in 1 .. (m[2] - 1) : <<m[1], n>> \in seen
    /\ queue' = Append(queue, m)
    /\ seen' = seen \cup {m}
    /\ UNCHANGED <<stored, taken, acked, closed>>

Take ==
    /\ queue # <<>>
    /\ taken' = taken \cup {Head(queue)}
    /\ queue' = Tail(queue)
    /\ UNCHANGED <<stored, seen, acked, closed>>

Ack(m) ==
    /\ m \in taken
    /\ acked' = acked \cup {m}
    /\ UNCHANGED <<stored, queue, seen, taken, closed>>

Close ==
    /\ closed' = TRUE
    /\ UNCHANGED <<stored, queue, seen, taken, acked>>

Next ==
    \/ \E p \in Parts : Publish(p)
    \/ \E m \in Msgs : Deliver(m) \/ Ack(m)
    \/ Take
    \/ Close

Spec == Init /\ [][Next]_vars
=============================================================================
