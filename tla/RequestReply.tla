--------------------------- MODULE RequestReply ---------------------------
(***************************************************************************)
(* What the backend's request path promises to its callers, with no frame  *)
(* ids, queues, locks or timers: a call ends once, a call that returns an  *)
(* answer was executed by the border router, and the border router         *)
(* executes a command at most once -- possibly after the caller has given  *)
(* up on it.                                                               *)
(***************************************************************************)
EXTENDS Naturals

CONSTANT Requests

VARIABLES
  call,      \* call[r]: "idle", "open", "answered" or "failed"
  runs       \* runs[r]: how often the border router executed request r

vars == <<call, runs>>

Init ==
  /\ call = [r \in Requests |-> "idle"]
  /\ runs = [r \in Requests |-> 0]

Call(r) ==
  /\ call[r] = "idle"
  /\ call' = [call EXCEPT ![r] = "open"]
  /\ UNCHANGED runs

\* The command may still arrive after the caller saw an error.
Execute(r) ==
  /\ call[r] # "idle"
  /\ runs[r] = 0
  /\ runs' = [runs EXCEPT ![r] = 1]
  /\ UNCHANGED call

Answer(r) ==
  /\ call[r] = "open"
  /\ runs[r] = 1
  /\ call' = [call EXCEPT ![r] = "answered"]
  /\ UNCHANGED runs

Fail(r) ==
  /\ call[r] = "open"
  /\ call' = [call EXCEPT ![r] = "failed"]
  /\ UNCHANGED runs

Next == \E r \in Requests : Call(r) \/ Execute(r) \/ Answer(r) \/ Fail(r)

Spec == Init /\ [][Next]_vars
=============================================================================
