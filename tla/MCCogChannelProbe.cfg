CONSTANTS
  w1 = w1
  w2 = w2
  u1 = u1
  u2 = u2
  list = list
  get = get
  set = set
  ok = ok
  NoData = NoData
  NoMsg = NoMsg
  Data = {NoData}
  Answer = {ok}
  Worker = {w1, w2}
  User = {u1}
  Str = {list, get, set}
  Asking = {list, get}
  Listing = {list}
  FollowUp = {get}
  Update = {}
  SockBuf = 2
  MaxBarriers = 2
SPECIFICATION Spec
SYMMETRY Symmetry
INVARIANT FenceForAll
