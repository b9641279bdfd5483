CONSTANTS
  Symbols = {AAPL}
  NoLevel = NoLevel
  Bids <- MCBids
  Asks <- MCAsks
  Lot = 1
  Skew = 4
  StrategyCap = 2
  MaxQty = 1
  MaxPos = 1
  MaxOrders = 2
  MaxStarts = 3
  MaxSessions = 2
  MaxSims = 2
SPECIFICATION FairSpec
INVARIANTS TypeOK NothingStale ExposureOverRestarts
PROPERTIES KeepsLedger AllConfirmed
CHECK_DEADLOCK FALSE
