\* Two tasks share the producer of a plain topic: two RPC faults, crashes or moves.
\* Safety, and what must happen in the end.
CONSTANTS
  NoHeader = NoHeader
  NoUrl = NoUrl
  NoAddr = NoAddr
  NoPart = NoPart
  NoKey = NoKey
  Brokers = {b1, b2}
  ServiceUrl = b1
  Proxied = FALSE
  Crashing = {b1, b2}
  FaultCodes = {"DEADLINE_EXCEEDED", "INTERNAL"}
  RejectCodes = {"UNAVAILABLE", "NOT_FOUND"}
  MaxFaults = 2
  NumPartitions = 0
  Senders = {s1, s2}
  Keys = {}
  MaxSends = 1
  MaxRetries = 1
  UseSchema = FALSE
  Parts <- MCParts
  Hash <- MCHash
SPECIFICATION FairSpec
INVARIANTS
  AckedIsStored
  DuplicatesNeedFaults
  SendsNeedFaults
PROPERTIES
  SendReturns
  CloseStopsHealth
\* The application may stop calling and every call may have returned.
CHECK_DEADLOCK FALSE
