CONSTANTS
  p1 = p1
  p2 = p2
  tape = tape
  gateway = gateway
  Units = 4
  PageUnits = 2
  Stamp = p1
  Parts = {p1, p2}
  Polite = {tape}
  Strict = {}
  MaxHead = 6
  MaxEra = 2
SPECIFICATION Spec
INVARIANT StaleSeqIsReset
CHECK_DEADLOCK FALSE
