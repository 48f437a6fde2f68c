CONSTANTS
  w1 = w1
  w2 = w2
  u1 = u1
  u2 = u2
  n = n
  l = l
  t1 = t1
  t2 = t2
  NoMsg = NoMsg
  Worker = {w1, w2}
  User = {u1}
  Node = {n}
  Link = {}
  Table = {t1}
  MaxVal = 2
  MaxCalls = 3
  MaxBarriers = 12
  SockBuf = 2
  Menu <- MCUpdates
  ServerHas <- MCNode
  TableHas <- MCNode
SPECIFICATION Spec
INVARIANT EveryUpdateCounts
CHECK_DEADLOCK FALSE
SYMMETRY Symmetry
