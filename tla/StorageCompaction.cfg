SPECIFICATION Spec
CONSTANTS
  d1 = d1
  d2 = d2
  none = none
  Device <- MCDevice
  MaxPairings = 2
INVARIANT CompactionKeepsPairings
