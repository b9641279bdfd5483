CONSTANTS
  AAPL = AAPL
  MSFT = MSFT
  IBM = IBM
  None = None
  Listing <- OneStock
  Targets = {MSFT}
  Ids = {o1, o2}
  Prices = {1, 2}
  Quantities = {1, 2, 3}
  MaxTrades = 1
  MaxRestarts = 1
  Word = 16
SYMMETRY IdSymmetry
SPECIFICATION Spec
INVARIANTS LevelsAreSums NeverShort Mirror NeverCrossed
CHECK_DEADLOCK FALSE
