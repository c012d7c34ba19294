------------------------- MODULE MCProducerRecovery -------------------------
(* Instances of ProducerRecovery for TLC. *)
EXTENDS ProducerRecovery, TLC

MCParts == IF NumPartitions = 0 THEN {0} ELSE 0 .. (NumPartitions - 1)

MCHash == [k \in Keys |-> 3]
=============================================================================
