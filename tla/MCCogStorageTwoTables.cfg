CONSTANTS
  w1 = w1
  w2 = w2
  u1 = u1
  u2 = u2
  n = n
  l = l
  t1 = t1
  t2 = t2
  NoMsg = NoMsg
  Worker = {w1, w2}
  User = {u1, u2}
  Node = {n}
  Link = {l}
  Table = {t1, t2}
  MaxVal = 2
  MaxCalls = 2
  MaxBarriers = 12
  SockBuf = 2
  Menu <- MCLoadOnly
  ServerHas <- MCNode
  TableHas <- MCNothing
SPECIFICATION Spec
INVARIANT LoadComplete
CHECK_DEADLOCK FALSE
SYMMETRY Symmetry
