CONSTANTS
  u1 = u1
  u2 = u2
  w1 = w1
  w2 = w2
  a = a
  b = b
  A = A
  B = B
  None = None
  User = {u1, u2}
  Worker = {w1, w2}
  Channel = {a, b}
  Server = {A, B}
  ChanOf <- MCChanOf
  ServerOf <- MCServerOf
  MaxFd = 5
  MaxCalls = 3
  MaxLost = 1
SPECIFICATION FairSpec
INVARIANTS TypeOK SocketsApart TalksHome NSocksCovers Survives NoLeak
PROPERTY CallsReturn
CHECK_DEADLOCK FALSE
