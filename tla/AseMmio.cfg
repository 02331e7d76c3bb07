SPECIFICATION FairSpec
CONSTANTS
  t1 = t1  t2 = t2  None = None
  Threads = {t1, t2}
  MMIO_MAX_OUTSTANDING = 2
  TidCount = 3
  MaxRequests = 5
  MaxSessions = 2
INVARIANTS ReadsOwnAnswer SlotsAccounted
PROPERTY ReadReturns
CHECK_DEADLOCK FALSE
