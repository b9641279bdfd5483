CONSTANTS
  AAPL = AAPL
  MSFT = MSFT
  IBM = IBM
  None = None
  Listing <- ThreeStocks
  Targets = {AAPL, MSFT}
  Ids = {o1}
  Prices = {1, 2}
  Quantities = {1}
  MaxTrades = 2
  MaxRestarts = 1
  Word = 16
SYMMETRY IdSymmetry
SPECIFICATION Spec
INVARIANTS TypeOK TickerGenuine
CHECK_DEADLOCK FALSE
