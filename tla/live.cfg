SPECIFICATION Spec
CONSTANTS
  Msgs = {m1}
  t1 = t1
  t2 = t2
  b1 = b1
  b2 = b2
  b3 = b3
  Tabs = {t1, t2}
  Boxes = {b1, b2, b3}
  TabOf <- BoxTab
  Cap = 2
  MaxClock = 1
  MaxCancels = 1
  MaxBreaks = 1
  FeedTabs = {t1}
  BatchMax = 2
  KeepNewest = 1
  MaxSeq = 3
  FeedBreaks = 1
  Gone = {d1, d2}
  Browsers = {t1, t2}
  IntentMax = 3
  RemountMax = 2
PROPERTIES QueuedLeaves EventsArrive RevocationsReach
CHECK_DEADLOCK FALSE
