SPECIFICATION FairSpec
CONSTANTS
  Clients = {c1, c2}
  Senders = {c1, c2}
  Nobody = Nobody
  Garbage = Garbage
  Room = 1
  MaxTyped = 1
CHECK_DEADLOCK FALSE
PROPERTIES EachClientReceives
