\* One handle, every operation and every failure.  Sizes are scaled: pages of 2
\* bytes, huge pages of 8 and 16, so that the lengths 1, 3 and 9 take one of each.
CONSTANTS
  HashPrime = 5
  NULL = NULL
  Handles = {h1}
  Addrs = {a1, a2, u1}
  UserMem = {u1}
  Iovas = {i1, i2}
  Spaces = {0, 1}
  RegionSize = 8
  UserLen = 8
  Lens = {0, 1, 3, 8, 9}
  Offsets = {0, 4, 8, 12}
  UmsgSize = 6
  PageSize = 2
  TwoMB = 8
  OneGB = 16
  WsidBuckets = 2
  MmioBuckets = 2
  MaxWsid = 3
SPECIFICATION Spec
SYMMETRY Symmetry
INVARIANTS
  HandedOutUsable
  PinsAccounted
  MemoryAccounted
CHECK_DEADLOCK FALSE
PROPERTY WorkspacesSpec
