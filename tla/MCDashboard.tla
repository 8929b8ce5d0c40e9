---------------------------- MODULE MCDashboard ----------------------------
(* The page's load of the state. *)
EXTENDS Dashboard, TLC

CONSTANT role

OneAspect == {role}
StateReads == [l \in {"state"} |-> <<role>>]
TwoValues == {0, 1}
=============================================================================
