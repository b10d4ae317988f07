SPECIFICATION MCSpec
CONSTANTS
  Clients = {c1, c2}
  NumWorkers = 2
  MaxTexts = 2
  Room = 2
  Messages = {m1, m2}
  ExitText = ExitText
  Nobody = Nobody
  Limit = 2
  MsgNums = 3
  Readings = 3
  Producer = Producer
  Consumer = Consumer
  Ttls = {1, 4, 6}
  Second = 3
  Half = 10
CHECK_DEADLOCK FALSE
INVARIANTS EchoesMatch OneHand OneWorkerEach ReadWhole
PROPERTIES WaitersGoOn
