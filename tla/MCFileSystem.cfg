SPECIFICATION Spec
CONSTANTS
  f1 = f1
  f2 = f2
  f3 = f3
  a = a
  b = b
  Free = Free
  Erased = Erased
  Zero = Zero
  Name <- MCName
  Unit <- MCUnit
  Sizes <- MCSizes
  MaxTableEntries = 2
  MemorySize = 3
INVARIANTS TypeOK TableOK
PROPERTY ImplementsFileStore
