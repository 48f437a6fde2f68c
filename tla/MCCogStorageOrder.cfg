CONSTANTS
  w1 = w1
  w2 = w2
  u1 = u1
  u2 = u2
  n = n
  l = l
  t1 = t1
  t2 = t2
  NoMsg = NoMsg
  Worker = {w1, w2}
  User = {u1, u2}
  Node = {n}
  Link = {l}
  Table = {t1}
  MaxVal = 2
  MaxCalls = 4
  MaxBarriers = 12
  SockBuf = 2
  Menu <- MCOrder
  ServerHas <- MCAll
  TableHas <- MCNode
SPECIFICATION Spec
INVARIANTS LoadComplete KillIsFinal CloseIsSync
CHECK_DEADLOCK FALSE
SYMMETRY Symmetry
