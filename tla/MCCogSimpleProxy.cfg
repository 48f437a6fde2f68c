CONSTANTS
  u1 = u1
  u2 = u2
  n = n
  l = l
  main = main
  top = top
  None = None
  User = {u1, u2}
  Node = {n}
  Link = {l}
  Space = {main, top}
  Main = main
  Below <- MCBelow
  Home <- MCHome
  MaxCalls = 2
  MaxFew = 2
  Few <- MCProxies
  MaxLost = 0
  Menu <- MCProxies
  Alone <- MCUnlockedButProxies
  ServerHas <- MCNode
SPECIFICATION Spec
SYMMETRY Symmetry
INVARIANT OwnReply
CHECK_DEADLOCK FALSE
