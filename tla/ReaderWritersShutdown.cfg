SPECIFICATION FairSpec
CONSTANTS
  Readers = {r1, r2, r3}
  Writer = Writer
  Manager = Manager
  MsgNums = 3
CHECK_DEADLOCK FALSE
PROPERTY ShutdownCompletes
