SPECIFICATION Spec
CONSTANTS
  u1 = u1
  u2 = u2
  d1 = d1
  d2 = d2
  s1 = s1
  s2 = s2
  c1 = c1
  c2 = c2
  c3 = c3
  k1 = k1
  k2 = k2
  NoDoc = NoDoc
  Anyone = Anyone
  Users = {u1, u2}
  Devices = {d1, d2}
  Sessions = {s1, s2}
  UserOf <- MCUserOf
  DeviceOf <- MCDeviceOf
  Conns = {c1, c2}
  Docs <- RivalDocs
  Frames <- StateAndNotice
  Keys = {k1, k2}
  MaxHistory = 1
  MaxStates = 1
  Retention = 1
  Lease = 1
  Skew = 1
  MaxClock = 1
  MaxWrites = 0
  SessionEnds = {1, 2}
SYMMETRY ConnSymmetry
INVARIANTS ActiveAreMembers RosterExact AckedStateWins StateReachesActive
PROPERTY NothingAfterRevocation
