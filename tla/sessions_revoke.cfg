SPECIFICATION FairSpec
CONSTANTS
  d1 = d1
  d2 = d2
  s1 = s1
  s2 = s2
  s3 = s3
  Devices = {d1, d2}
  Sids = {s1, s2, s3}
  DeviceOf <- MCDeviceOf
  Channels = {h1}
  Conns = {c1}
  Calls = {k1, k2}
  MaxDevices = 1
  MaxRows = 2
  Ttl = 1
  MaxClock = 1
  MaxEpoch = 1
  MaxFaults = 1
INVARIANTS TypeOK Tracked RevokedBeforeAck
PROPERTIES RemovedGoQuiet
