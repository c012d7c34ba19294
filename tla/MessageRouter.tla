---------------------------- MODULE MessageRouter ----------------------------
(***************************************************************************)
(* danube/message_router.py: which partition a message goes to. round_robin*)
(* runs under a threading.Lock, so a call is one step.                     *)
(***************************************************************************)
EXTENDS Integers

\* Defects to detect: the counter starts before the first partition, or on it.
FirstLastBefore(partitions) == -1
FirstLastOn(partitions) == 0

\* MessageRouter.__init__: the first call of round_robin selects partition 0.
FirstLast(partitions) == partitions - 1

\* A defect to detect: the last partition is never selected.
round_robin_short(last, partitions) == (last + 1) % (partitions - 1)

\* The partition that round_robin selects; it is also the new value of _last.
round_robin(last, partitions) == (last + 1) % partitions

\* key_route, for a key with this hash.
key_route(hash, partitions) == hash % partitions
=============================================================================
