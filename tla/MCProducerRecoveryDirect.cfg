\* Clients connect to the brokers themselves; a partition moves off a dead one.
CONSTANTS
  NoHeader = NoHeader
  NoUrl = NoUrl
  NoAddr = NoAddr
  NoPart = NoPart
  NoKey = NoKey
  Brokers = {b1, b2}
  ServiceUrl = b1
  Proxied = FALSE
  Crashing = {b1, b2}
  FaultCodes = {}
  RejectCodes = {"UNAVAILABLE"}
  MaxFaults = 1
  NumPartitions = 0
  Senders = {s1}
  Keys = {}
  MaxSends = 2
  MaxRetries = 1
  UseSchema = FALSE
  Parts <- MCParts
  Hash <- MCHash
SPECIFICATION RecoverySpec
PROPERTIES
  CalmSendSucceeds
\* The application may stop calling and every call may have returned.
CHECK_DEADLOCK FALSE
