SPECIFICATION Spec
CONSTANTS
  Cmds = {k1, k2}
  QueueMax = 1
  MaxSockets = 2
  MaxFaults = 1
  MaxRuns = 2
INVARIANTS NeverStuck HeldOnce SecondRunExcused
PROPERTY ImplementsService
CHECK_DEADLOCK FALSE
SYMMETRY CmdSymmetry
