SPECIFICATION FairSpec
CONSTANTS
  c1 = c1
  c2 = c2
  c3 = c3
  x = x
  y = y
  v0 = v0
  v1 = v1
  nil = nil
  Unknown = Unknown
  Ctx <- MCTwoCtx
  Char <- MCOneChar
  Value <- MCValue
  MaxClients = 2
  QueueSize = 1
PROPERTIES QueueDrains GoneIsClosed
