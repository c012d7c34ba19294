\* create() of two partitions fails on one of them.
CONSTANTS
  NoHeader = NoHeader
  NoUrl = NoUrl
  NoAddr = NoAddr
  NoPart = NoPart
  NoKey = NoKey
  Brokers = {b1, b2}
  ServiceUrl = b1
  Proxied = FALSE
  Crashing = {b1, b2}
  FaultCodes = {"DEADLINE_EXCEEDED", "INTERNAL"}
  RejectCodes = {"UNAVAILABLE", "NOT_FOUND"}
  MaxFaults = 1
  NumPartitions = 2
  Senders = {s1}
  Keys = {}
  MaxSends = 1
  MaxRetries = 1
  UseSchema = FALSE
  Parts <- MCParts
  Hash <- MCHash
SPECIFICATION FairSpec
PROPERTIES
  CloseStopsAllHealthChecks
\* The application may stop calling and every call may have returned.
CHECK_DEADLOCK FALSE
