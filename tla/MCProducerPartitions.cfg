\* Two partitions behind a gateway and a schema to resolve; one task with two calls,
\* with a key or without.
CONSTANTS
  NoHeader = NoHeader
  NoUrl = NoUrl
  NoAddr = NoAddr
  NoPart = NoPart
  NoKey = NoKey
  Brokers = {b1, b2}
  ServiceUrl = gateway
  Proxied = TRUE
  Crashing = {b1, b2}
  FaultCodes = {"DEADLINE_EXCEEDED", "INTERNAL"}
  RejectCodes = {"UNAVAILABLE", "NOT_FOUND"}
  MaxFaults = 1
  NumPartitions = 2
  Senders = {s1}
  Keys = {k1}
  MaxSends = 2
  MaxRetries = 1
  UseSchema = TRUE
  Parts <- MCParts
  Hash <- MCHash
SPECIFICATION Spec
INVARIANTS
  TypeOK
  IndInv
  OnePartitionPerMessage
  KeyStaysInPartition
  CallOrderKept
PROPERTIES
  KeepsPromise
\* The application may stop calling and every call may have returned.
CHECK_DEADLOCK FALSE
