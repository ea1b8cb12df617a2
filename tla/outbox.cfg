SPECIFICATION TwoSpec
CONSTANTS
  t1 = t1
  t2 = t2
  b1 = b1
  b2 = b2
  b3 = b3
  Msgs = {m1, m2}
  Tabs = {t1, t2}
  Boxes = {b1, b2, b3}
  TabOf <- BoxTab
  Cap = 2
  MaxClock = 2
  MaxCancels = 1
  MaxBreaks = 1
INVARIANTS TypeOK NothingLost SentInOrder CancelHolds
