SPECIFICATION Spec
CONSTANTS
  Props = {p1, p2, p3}
  Wrappers = {w1, w2, w3}
  UserTokens = {u}
  Threads = {t1, t2}
  Raw = Raw
  NULL = NULL
  ChangeInUse = FALSE
  CloneOwned = FALSE
SYMMETRY Symmetry
INVARIANT NoneDangles
INVARIANT OneOwner
