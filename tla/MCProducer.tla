----------------------------- MODULE MCProducer -----------------------------
(* Instances of Producer for TLC. *)
EXTENDS Producer, TLC

MCParts == IF NumPartitions = 0 THEN {0} ELSE 0 .. (NumPartitions - 1)

\* A hash that sends the keys to the first of two partitions.
MCHash == [k \in Keys |-> 2]
=============================================================================
