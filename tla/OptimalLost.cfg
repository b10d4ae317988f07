SPECIFICATION Spec
CONSTANTS
  Readers = {r1, r2, r3}
  Writer = Writer
  Manager = Manager
  Nobody = Nobody
  MsgNums = 2
  MaxSpurious = 2
CHECK_DEADLOCK FALSE
PROPERTY EachMessageRead
