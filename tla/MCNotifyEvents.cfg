SPECIFICATION Spec
CONSTANTS
  c1 = c1
  c2 = c2
  c3 = c3
  x = x
  y = y
  v0 = v0
  v1 = v1
  nil = nil
  Unknown = Unknown
  Ctx <- MCThreeCtx
  Char <- MCTwoChar
  Value <- MCValue
  MaxClients = 2
  QueueSize = 2
SYMMETRY ThreeCtxSymmetry
INVARIANTS ListOK CursorListed NoDangling EventsNeedVerify FreshView
PROPERTY OthersAreNotified
