CONSTANTS
  p1 = p1
  p2 = p2
  tape = tape
  gateway = gateway
  Units = 4
  PageUnits = 1
  Stamp = p1
  Parts = {p1}
  Polite = {tape}
  Strict = {}
  MaxHead = 7
  MaxEra = 2
SPECIFICATION FairSpec
PROPERTY Settled
CHECK_DEADLOCK FALSE
