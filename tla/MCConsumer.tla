----------------------------- MODULE MCConsumer -----------------------------
(* Instances of Consumer for TLC. *)
EXTENDS Consumer, TLC

MCParts == {0}
MCTwoParts == {0, 1}

\* Every fault strikes partition 0, so that two of them strike the same session,
\* its successor, or the subscription between them; the other partition competes
\* for the room in the queue.
OtherStays == \A p \in Parts \ {0} : owner'[p] = owner[p]

MCFairSpec == Init /\ [][Next /\ OtherStays]_vars /\ Fairness /\ WF_vars(Take)
=============================================================================
