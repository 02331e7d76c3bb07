SPECIFICATION FairSpec
CONSTANTS
  t1 = t1  t2 = t2  t3 = t3  x1 = x1  x2 = x2
  Tokens <- MCTokens
  Table <- MCTable
  Errors = {x1, x2}
  Values = {0, 1, 2}
  MAX_ERROR_COUNT = 2
  MaxChanges = 4
INVARIANT OncePerRise
PROPERTY RaisedIsReported
CHECK_DEADLOCK FALSE
