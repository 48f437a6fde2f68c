CONSTANTS
  u1 = u1
  u2 = u2
  n = n
  l = l
  main = main
  top = top
  None = None
  User = {u1, u2}
  Node = {n}
  Link = {l}
  Space = {main, top}
  Main = main
  Below <- MCBelow
  Home <- MCHome
  MaxCalls = 2
  MaxFew = 3
  Few <- MCFew
  MaxLost = 1
  Menu <- MCEvery
  Alone <- Unlocked
  ServerHas <- MCNode
SPECIFICATION FairSpec
INVARIANTS TypeOK OwnReply LoadIsSnapshot FramesKnown
PROPERTIES NeverStale CallsReturn
CHECK_DEADLOCK FALSE
