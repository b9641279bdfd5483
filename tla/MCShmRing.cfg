CONSTANTS
  p1 = p1
  p2 = p2
  tape = tape
  gateway = gateway
  Units = 2
  PageUnits = 1
  Stamp = p1
  Parts = {p1, p2}
  Polite = {tape}
  Strict = {gateway}
  MaxHead = 4
  MaxEra = 2
SPECIFICATION Spec
INVARIANTS TypeOK Retained BoundedTear
PROPERTY Log
CHECK_DEADLOCK FALSE
