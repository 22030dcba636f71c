SPECIFICATION FairSpec
CONSTANTS
  d1 = d1
  d2 = d2
  none = none
  Device <- MCDevice
  MaxPairings = 3
INVARIANTS NoGarbage OneRecord PairingsSurvive
PROPERTIES CallsEnd ImplementsCalls
