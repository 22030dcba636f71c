SPECIFICATION Spec
CONSTANTS
  Record = {r1, r2, r3}
  NoRecord = NoRecord
  NbRecs = 3
INVARIANTS RingInv
PROPERTY ImplementsQueue
