SPECIFICATION FairSpec
CONSTANTS
  h1 = h1  h2 = h2  e1 = e1  e2 = e2  e3 = e3  o1 = o1
  Handles = {h1, h2}
  EventHandles = {e1}
  Events = {"ERROR"}
  Objects = {o1}
  ObjectOf <- MCObjectOf
  MaxConns = 3
  MaxQueue = 1
  Backlog = 2
  OneHandlePerEvent = TRUE
  Fds = {3, 4, 5, 6, 7, 8}
  MAX_CLIENT_CONNECTIONS = 2
  MaxLost = 0
PROPERTIES ServiceSpec ClosedIsForgotten RequestsAreRead PendingIsAccepted SigintEndsServer
CHECK_DEADLOCK FALSE
