----------------------------- MODULE MCDeviceSessions -----------------------------
(* Two devices of one account; session s3 is of the second, all others of the first.*)
EXTENDS DeviceSessions, TLC

CONSTANTS d1, d2, s1, s2, s3

MCDeviceOf == [s \in Sids |-> IF s = s3 THEN d2 ELSE d1]

ConnSymmetry == Permutations(Conns) \cup Permutations(Calls)
=============================================================================
