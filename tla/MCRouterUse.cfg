\* Three partitions, keys that hash to all of them.
CONSTANTS
  NumPartitions = 3
  Hashes <- MCHashes
  MaxCalls = 4
SPECIFICATION MCSpec
INVARIANTS
  TypeOK
  Balanced
  RoundUnderWay
  PublishedRoute
\* MaxCalls ends every behaviour.
CHECK_DEADLOCK FALSE
