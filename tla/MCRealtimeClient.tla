----------------------------- MODULE MCRealtimeClient -----------------------------
\* Model values for the runs of RealtimeClient: commands are alike.
EXTENDS RealtimeClient

CmdSymmetry == Permutations(Cmds)
=================================================================================
