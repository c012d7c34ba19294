\* Two partitions share a queue with room for one message; one of them moves twice
\* between two live brokers.
CONSTANTS
  NoHeader = NoHeader
  NoUrl = NoUrl
  NoAddr = NoAddr
  Brokers = {b1, b2}
  ServiceUrl = b1
  Proxied = FALSE
  Crashing = {}
  FaultCodes = {}
  RejectCodes = {"UNAVAILABLE", "NOT_FOUND"}
  MaxFaults = 2
  MaxMsgs = 1
  Capacity = 1
  InFlight = 1
  MaxRetries = 1
  SupplierRaises = FALSE
  Parts <- MCTwoParts
SPECIFICATION MCFairSpec
INVARIANTS
  SessionsWatched
PROPERTIES
  EndsByMoves
  Reconnects
  EverythingArrives
  NackedComesAgain
  NothingAfterClose
\* The application may stop calling and every loop may have ended.
CHECK_DEADLOCK FALSE
