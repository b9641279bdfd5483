CONSTANTS
  OrderSize = 3
  ReportSize = 3
  BufSize = 7
  OutRoom = 5
  InRoom = 7
  RingSize = 5
  MaxOrders = 7
SPECIFICATION FairSpec
INVARIANTS TypeOK FilledInOrder ReportsFramed BufferHasRoom OrdersCutOnlyWhenFull NoStandoff
PROPERTY Answered
CHECK_DEADLOCK FALSE
