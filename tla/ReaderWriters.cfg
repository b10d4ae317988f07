SPECIFICATION MCSpec
CONSTANTS
  Readers = {r1, r2, r3}
  Writer = Writer
  Manager = Manager
  MsgNums = 3
CHECK_DEADLOCK FALSE
INVARIANTS OneAtATime NoReadDuringWrite CounterIsExact
PROPERTIES ImplementsBroadcast MessagesFlow OnlyHeldRemain
