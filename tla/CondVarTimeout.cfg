SPECIFICATION Spec
CONSTANTS
  Readers = {r1, r2}
  Writers = {w1}
  Manager = Manager
  Size = 2
  MsgNums = 3
  NULL = NULL
  Garbage = Garbage
  Nobody = Nobody
  MaxSpurious = 1
INVARIANT CleanupAfterJoin
