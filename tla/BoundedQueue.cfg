SPECIFICATION FairSpec
CONSTANTS
  Readers = {r1}
  Writers = {w1, w2}
  Manager = Manager
  Size = 2
  MsgNums = 3
  MaxWaitObjects = 4
  NULL = NULL
  Garbage = Garbage
  Nobody = Nobody
  Closed = Closed
INVARIANTS TypeOK MutualExclusion HeapIsQueue FreesOnlyStrings
PROPERTIES ImplementsFifo ShutdownCompletes
