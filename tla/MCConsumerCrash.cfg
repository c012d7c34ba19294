\* A broker crashes and is restarted.
CONSTANTS
  NoHeader = NoHeader
  NoUrl = NoUrl
  NoAddr = NoAddr
  Brokers = {b1, b2}
  ServiceUrl = b1
  Proxied = FALSE
  Crashing = {b1, b2}
  FaultCodes = {}
  RejectCodes = {"UNAVAILABLE", "NOT_FOUND"}
  MaxFaults = 1
  MaxMsgs = 2
  Capacity = 1
  InFlight = 1
  MaxRetries = 1
  SupplierRaises = FALSE
  Parts <- MCParts
SPECIFICATION FairSpec
PROPERTIES
  Reconnects
\* The application may stop calling and every loop may have ended.
CHECK_DEADLOCK FALSE
