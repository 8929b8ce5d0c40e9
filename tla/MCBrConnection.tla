--------------------------- MODULE MCBrConnection ---------------------------
(* Model values and bounds for the runs of BrConnection. *)
EXTENDS BrConnection, TLC

CONSTANTS i1, i2, net, x, y

OneInstance == {i1}
TwoInstances == {i1, i2}
OneNetwork == {net}
Same == [i \in Instances |-> net]
OneAdmin == {x}
TwoAdmins == {x, y}
=============================================================================
