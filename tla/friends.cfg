SPECIFICATION PageSpec
CONSTANTS
  Parts = {"invites"}
  Ids = {m1, m2}
  PendingMax = 1
  LinkMax = 2
  RefusalMax = 1
  SendMax = 2
  Texts = {x1, x2}
  Edited = {x1}
  RevMax = 2
  UpsetMax = 1
  Pages = {p1, p2}
  CallMax = 2
  Members = {r1, r2}
  Chans = {c1, c2, c3}
  LongIds = {c3}
  Names = {n1, n2}
  ListMax = 2
  TimeMax = 2
  EditMax = 3
  First = u1
  Second = u2
  InviteMax = 2
  TaskMax = 1
  ChangeMax = 1
  Visits = {v1, v2, v3}
  Devices = {d1, d2}
  RevisitMax = 1
  People = {p1, p2, p3}
  ScopeSocks = {s1, s2}
  ScopeCap = 1
  Lease = 2
  ScopeClock = 5
  Tabs = {t1}
  BatchMax = 2
  KeepNewest = 1
  MaxSeq = 4
  MaxBreaks = 2
  Clients = {k1, k2, k3}
  Pools = {q1, q2}
  MatchMax = 3
  Rooms = {r1, r2}
  NoRoom = NoRoom
  AttemptsMax = 1
  RunMax = 4
INVARIANT OneRoom
CHECK_DEADLOCK FALSE
