------------------------------ MODULE MCMessageOutbox ------------------------------
(* At most two boxes of one browser, and the messages sent in them: two tabs with *)
(* a box each, or one tab in which the workspace is left and mounted again.       *)
EXTENDS MessageOutbox

CONSTANTS t1, t2, b1, b2, b3

BoxTab == [b \in Boxes |-> IF b = b3 THEN t2 ELSE t1]

\* Bound: no third box is made.
TwoBoxes == Cardinality({b \in Boxes : open[b] # "unused"}) <= 2

TwoNext == Next /\ TwoBoxes'

TwoSpec == Init /\ [][TwoNext]_vars
=============================================================================
