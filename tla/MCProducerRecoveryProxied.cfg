\* A gateway answers all lookups: never are all three brokers down.
CONSTANTS
  NoHeader = NoHeader
  NoUrl = NoUrl
  NoAddr = NoAddr
  NoPart = NoPart
  NoKey = NoKey
  Brokers = {b1, b2, b3}
  ServiceUrl = gateway
  Proxied = TRUE
  Crashing = {b1, b2, b3}
  FaultCodes = {}
  RejectCodes = {"UNAVAILABLE"}
  MaxFaults = 2
  NumPartitions = 0
  Senders = {s1}
  Keys = {}
  MaxSends = 2
  MaxRetries = 1
  UseSchema = FALSE
  Parts <- MCParts
  Hash <- MCHash
SPECIFICATION RecoverySpec
PROPERTIES
  CalmSendSucceeds
\* The application may stop calling and every call may have returned.
CHECK_DEADLOCK FALSE
