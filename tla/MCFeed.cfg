CONSTANTS
  MaxSequence = 2
  MaxChanges = 2
  MaxAsks = 3
  MaxFaults = 1
  Consumers = {watchlist, orders}
  MaxConnects = 2
SPECIFICATION MCSpec
CHECK_DEADLOCK FALSE
INVARIANTS
  TypeOK
  SentInOrder
  Alive
PROPERTIES
  Fresh
  Settles
