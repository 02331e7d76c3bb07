SPECIFICATION FairDeliverySpec
CONSTANTS
  h1 = h1  h2 = h2  e1 = e1  e2 = e2  o1 = o1  o2 = o2  t1 = t1  t2 = t2  x1 = x1
  Handles = {h1, h2}
  EventHandles = {e1}
  Events = {"ERROR"}
  Objects = {o1, o2}
  ObjectOf <- MCObjectOf
  MaxConns = 2
  MaxQueue = 1
  Backlog = 1
  OneHandlePerEvent = TRUE
  Fds = {3, 4, 5, 6}
  MAX_CLIENT_CONNECTIONS = 2
  MaxLost = 0
  Tokens <- MCTokens
  Errors = {x1}
  Table <- MCTable
  Values = {0, 1}
  MAX_ERROR_COUNT = 1
  MaxChanges = 1
  ObjectId <- MCObjectId
  Callback <- MCCallback
PROPERTIES SignalledAsAsked RaisedIsDelivered
CHECK_DEADLOCK FALSE
