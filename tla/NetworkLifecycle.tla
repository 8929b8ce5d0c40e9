-------------------------- MODULE NetworkLifecycle --------------------------
(***************************************************************************)
(* What the backend promises about a Thread network, with no connections,  *)
(* handlers or poll loop: a border router is discovered as pending, an     *)
(* administrator decides once, only an accepted network is ever reported   *)
(* to the dashboards as online or offline, and it can only go offline      *)
(* after it was accepted.                                                  *)
(***************************************************************************)

CONSTANT Networks

VARIABLES
  row,       \* row[n]: "absent", "pending", "connected", "rejected", "offline"
  shown      \* shown[n]: "never", "online" or "offline", as last pushed

vars == <<row, shown>>

Init ==
  /\ row = [n \in Networks |-> "absent"]
  /\ shown = [n \in Networks |-> "never"]

Move(n, from, to) ==
  /\ row[n] = from
  /\ row' = [row EXCEPT ![n] = to]
  /\ UNCHANGED shown

Discover(n)  == Move(n, "absent", "pending")
Accept(n)    == Move(n, "pending", "connected")
Reject(n)    == Move(n, "pending", "rejected")
GoOffline(n) == Move(n, "connected", "offline")

Show(n) ==
  /\ row[n] \in {"connected", "offline"}
  /\ \E s \in {"online", "offline"} : shown' = [shown EXCEPT ![n] = s]
  /\ UNCHANGED row

Next == \E n \in Networks :
  Discover(n) \/ Accept(n) \/ Reject(n) \/ GoOffline(n) \/ Show(n)

Spec == Init /\ [][Next]_vars
=============================================================================
