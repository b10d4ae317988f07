SPECIFICATION MCSpec
CONSTANTS
  Readers = {r1, r2}
  Clients = {r1}
  Writer = Writer
  Writers = {w1, w2}
  Main = Main
  Manager = Manager
  Nobody = Nobody
  ExitText = ExitText
  MsgNums = 2
  PipeSize = 1
  MaxSpurious = 1
CHECK_DEADLOCK FALSE
INVARIANTS TypeOK NoReadDuringWrite ServerExclusion
PROPERTIES NoMessageTwice EverySleeperWoken OnlyHeldRemain
