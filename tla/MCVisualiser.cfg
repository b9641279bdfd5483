CONSTANTS
  Capacity = 3
  BatchLimit = 2
  MaxLooks = 2
  MaxHead = 5
  MaxRings = 2
  MaxLives = 2
SPECIFICATION FairSpec
INVARIANTS TypeOK AccountedOnce NothingOfTheOld
PROPERTY EachSettled
CHECK_DEADLOCK FALSE
