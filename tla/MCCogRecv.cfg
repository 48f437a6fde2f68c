CONSTANTS
  p = p
  a = a
  b = b
  nl = nl
  Idle = Idle
  Byte = {p, a, b, nl}
  Newline = nl
  Prompt <- MCPrompt
  Reply <- MCReply
  BufLen = 3
  MaxMessages = 4
  MaxIdle = 2
SPECIFICATION FairSpec
INVARIANTS TypeOK WholeReply NothingLost InBounds
PROPERTY RecvReturns
CHECK_DEADLOCK FALSE
