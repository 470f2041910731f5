CONSTANTS
  alice = alice
  bob = bob
  r1 = r1
  r2 = r2
  r3 = r3
  Accounts <- MCAccounts
  Requests <- MCRequests
  Jobs <- MCJobs
  MaxQuantity = 2
  LeastPrice = 1
  GreatestPrice = 2
  InitialCash = 2
  MaxPosition = 3
  BandBps = 2000
  FeedQuantity = 1
  MaxFeeds = 1
  MaxMishaps = 1
SPECIFICATION MCSpec
SYMMETRY Alike
CHECK_DEADLOCK FALSE
INVARIANTS
  TypeOK
  KeyOnce
  LedgerExact
  StatusAgrees
  Solvent
