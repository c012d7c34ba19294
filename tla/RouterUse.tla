------------------------------ MODULE RouterUse ------------------------------
(***************************************************************************)
(* A MessageRouter in use: calls of round_robin() and of key_route() in    *)
(* any order, as concurrent send() and send_with_key() calls make them,    *)
(* and how many messages each partition got from round_robin().            *)
(***************************************************************************)
EXTENDS MessageRouter

CONSTANTS NumPartitions,   \* MessageRouter._partitions
          Hashes,          \* hashes of the routing keys in use
          MaxCalls         \* bound on the calls of either kind

ASSUME RouterUseAssumption ==
    /\ NumPartitions \in Nat \ {0}
    /\ Hashes \subseteq Nat
    /\ MaxCalls \in Nat

VARIABLES last,      \* MessageRouter._last
          counts,    \* counts[p]: round_robin() calls that selected p
          keyed      \* keyed[p]: key_route() calls that selected p

vars == <<last, counts, keyed>>

Parts == 0 .. (NumPartitions - 1)

Init ==
    /\ last = FirstLast(NumPartitions)
    /\ counts = [p \in Parts |-> 0]
    /\ keyed = [p \in Parts |-> 0]

\* Producer._select_partition.
Select ==
    LET p == round_robin(last, NumPartitions) IN
    /\ counts[p] < MaxCalls
    /\ last' = p
    /\ counts' = [counts EXCEPT ![p] = @ + 1]
    /\ UNCHANGED keyed

\* Producer._select_partition_for_key.
SelectForKey(h) ==
    LET p == key_route(h, NumPartitions) IN
    /\ keyed[p] < MaxCalls
    /\ keyed' = [keyed EXCEPT ![p] = @ + 1]
    /\ UNCHANGED <<last, counts>>

Next == Select \/ \E h \in Hashes : SelectForKey(h)

Spec == Init /\ [][Next]_vars
-----------------------------------------------------------------------------
TypeOK ==
    /\ last \in Parts
    /\ counts \in [Parts -> Nat]
    /\ keyed \in [Parts -> Nat]

\* Whatever keyed calls come in between, round_robin() loads the partitions
\* evenly: no partition is ever two messages ahead of another one.
Balanced == \A p, q \in Parts : counts[p] - counts[q] \in {-1, 0, 1}

\* The inductive form: in the round under way, the partitions after last are
\* one message behind.
RoundUnderWay ==
    \A p \in Parts : counts[p] = counts[last] + (IF p > last THEN -1 ELSE 0)
=============================================================================
