SPECIFICATION Spec
CONSTANTS
  d1 = d1
  d2 = d2
  c1 = c1
  c2 = c2
  p1 = p1
  p2 = p2
  none = none
  Device <- MCDevice
  Ctx <- MCCtx
  Block <- MCBlock
  MaxPairings = 2
SYMMETRY PeerSymmetry
INVARIANTS OneContext SetupHasContext PairedAgrees SessionsKeepTheirSlots
