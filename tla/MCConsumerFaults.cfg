\* One partition, three messages, two crashes, moves or RPC faults.
CONSTANTS
  NoHeader = NoHeader
  NoUrl = NoUrl
  NoAddr = NoAddr
  Brokers = {b1, b2}
  ServiceUrl = service
  Proxied = FALSE
  Crashing = {b1, b2}
  FaultCodes = {"DEADLINE_EXCEEDED", "INTERNAL"}
  RejectCodes = {"UNAVAILABLE", "NOT_FOUND"}
  MaxFaults = 2
  MaxMsgs = 3
  Capacity = 1
  InFlight = 2
  MaxRetries = 1
  SupplierRaises = TRUE
  Parts <- MCParts
SPECIFICATION Spec
INVARIANTS
  OneHealthCheck
  ClosedForGood
  NoGap
  IndInv
PROPERTIES
  KeepsPromise
\* The application may stop calling and every loop may have ended.
CHECK_DEADLOCK FALSE
