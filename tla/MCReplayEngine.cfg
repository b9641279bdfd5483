CONSTANTS
  AAPL = AAPL
  MSFT = MSFT
  NoLevel = NoLevel
  Symbols = {AAPL, MSFT}
  Bids <- MCBids
  Asks <- MCAsks
  Lot = 2
  Skew = 4
  StrategyCap = 5
  MaxQty = 3
  MaxPos = 4
  MaxOrders = 6
SPECIFICATION Spec
INVARIANTS TypeOK RiskIsPosition PacketSettles ReportsMatchTracker
PROPERTIES ToldOnce DashboardCurrent NoFreeMoney KeepsLedger
