CONSTANTS
  a1 = a1
  a2 = a2
  a3 = a3
  x = x
  y = y
  z = z
  None = None
  Space = {a1, a2, a3}
  ReadOnly = {a3}
  Uri = {x, y, z}
  BadUri = {z}
SPECIFICATION Spec
INVARIANT NoStrayNode
