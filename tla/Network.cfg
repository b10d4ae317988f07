SPECIFICATION MCSpec
CONSTANTS
  Clients = {c1, c2}
  Senders = {c1, c2}
  Threads = {w1, w2}
  Main = Main
  Nobody = Nobody
  Garbage = Garbage
  Room = 1
  MaxTyped = 1
  MaxSent = 1
CHECK_DEADLOCK FALSE
INVARIANTS ListServed OneAtATime
PROPERTIES ChatGoesOn
