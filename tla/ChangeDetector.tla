--------------------------- MODULE ChangeDetector ---------------------------
(***************************************************************************)
(* ot_change_detector.c: OpenThread's state-changed callback starts a      *)
(* debounce timer, the timer's callback wakes the detector task, and the   *)
(* task takes a snapshot under the OpenThread lock, compares it with the   *)
(* one before and pushes the difference as a NOTIFY frame.                 *)
(*                                                                         *)
(* An aspect is what one bit of the changed mask stands for: the role, the *)
(* leader's address, the dataset or one of the tables.                     *)
(***************************************************************************)
EXTENDS Naturals

CONSTANTS
  Aspects,      \* bits of the changed mask
  Values,       \* values an aspect can have
  Initial,      \* the value before the first change
  MaxChanges    \* bound: changes of the Thread state

ASSUME ConstantsAssumption == Initial \in Values /\ MaxChanges \in Nat

VARIABLES
  world,      \* world[a]: the state of OpenThread
  changes,    \* changes so far
  signal,     \* OpenThread has flags to report to its callback
  armed,      \* s_debounce_armed
  otAt,       \* on_ot_state_changed, in the OpenThread task: "idle" or "start"
  timer,      \* s_debounce_timer is running
  timerAt,    \* debounce_timer_cb, in the timer task: "idle" or "give"
  wake,       \* the detector task's notification
  taskAt,     \* detector_task: "wait", "lock" or "diff"
  cur,        \* the snapshot just taken
  prev,       \* s_prev
  prevValid,  \* s_prev_valid
  known,      \* known[a]: the value the backend was last notified of
  owed,       \* aspects whose last NOTIFY could not be sent
  skipped     \* a snapshot was skipped, and none taken since

otVars   == <<world, changes, signal>>
waitVars == <<armed, otAt, timer, timerAt, wake>>
diffVars == <<cur, prev, prevValid, known, owed>>
vars == <<otVars, waitVars, taskAt, diffVars, skipped>>

State == [Aspects -> Values]

TypeOK ==
  /\ world \in State /\ cur \in State /\ prev \in State /\ known \in State
  /\ changes \in 0 .. MaxChanges
  /\ {signal, armed, timer, wake, prevValid, skipped} \subseteq BOOLEAN
  /\ otAt \in {"idle", "start"}
  /\ timerAt \in {"idle", "give"}
  /\ taskAt \in {"wait", "lock", "diff"}
  /\ owed \subseteq Aspects

Start == [a \in Aspects |-> Initial]

\* The callback is registered last; the backend reads the state as it is
\* when it connects, and s_prev is not valid yet.
Init ==
  /\ world = Start /\ cur = Start /\ prev = Start /\ known = Start
  /\ changes = 0
  /\ signal = FALSE /\ armed = FALSE /\ timer = FALSE /\ wake = FALSE
  /\ otAt = "idle" /\ timerAt = "idle" /\ taskAt = "wait"
  /\ prevValid = FALSE
  /\ owed = {}
  /\ skipped = FALSE

-----------------------------------------------------------------------------

\* OpenThread changes under its own lock, and tells its callback later, once
\* for any number of changes.
Change(a, v) ==
  /\ changes < MaxChanges
  /\ v # world[a]
  /\ world' = [world EXCEPT ![a] = v]
  /\ changes' = changes + 1
  /\ signal' = TRUE
  /\ UNCHANGED <<waitVars, taskAt, diffVars, skipped>>

\* Mutant: armed is set and tested outside the critical section's check.
OnStateChangedAlways ==
  /\ signal
  /\ otAt = "idle"
  /\ signal' = FALSE
  /\ armed' = TRUE
  /\ otAt' = "start"
  /\ UNCHANGED <<world, changes, timer, timerAt, wake, taskAt, diffVars, skipped>>

OnStateChanged ==
  /\ signal
  /\ otAt = "idle"
  /\ signal' = FALSE
  /\ armed' = TRUE
  /\ otAt' = IF armed THEN "idle" ELSE "start"
  /\ UNCHANGED <<world, changes, timer, timerAt, wake, taskAt, diffVars, skipped>>

\* esp_timer_start_once, after the critical section.
StartDebounce ==
  /\ otAt = "start"
  /\ timer' = TRUE
  /\ otAt' = "idle"
  /\ UNCHANGED <<otVars, armed, timerAt, wake, taskAt, diffVars, skipped>>

\* Mutant: the callback leaves the debounce armed.
DebounceFiresStaysArmed ==
  /\ timer
  /\ timerAt = "idle"
  /\ timer' = FALSE
  /\ timerAt' = "give"
  /\ UNCHANGED <<otVars, armed, otAt, wake, taskAt, diffVars, skipped>>

DebounceFires ==
  /\ timer
  /\ timerAt = "idle"
  /\ timer' = FALSE
  /\ armed' = FALSE
  /\ timerAt' = "give"
  /\ UNCHANGED <<otVars, otAt, wake, taskAt, diffVars, skipped>>

GiveNotification ==
  /\ timerAt = "give"
  /\ wake' = TRUE
  /\ timerAt' = "idle"
  /\ UNCHANGED <<otVars, armed, otAt, timer, taskAt, diffVars, skipped>>

Wake ==
  /\ taskAt = "wait"
  /\ wake
  /\ wake' = FALSE
  /\ taskAt' = "lock"
  /\ UNCHANGED <<otVars, armed, otAt, timer, timerAt, diffVars, skipped>>

Snapshot ==
  /\ taskAt = "lock"
  /\ cur' = world
  /\ taskAt' = "diff"
  /\ skipped' = FALSE
  /\ UNCHANGED <<otVars, waitVars, prev, prevValid, known, owed>>

\* The lock was not free for a second: no snapshot, and nothing to wake the
\* task again before the next change.
LockTimesOut ==
  /\ taskAt = "lock"
  /\ taskAt' = "wait"
  /\ skipped' = TRUE
  /\ UNCHANGED <<otVars, waitVars, diffVars>>

\* The changed mask of a snapshot.
Mask == IF prevValid THEN {a \in Aspects : cur[a] # prev[a]} ELSE Aspects

\* s_prev becomes the snapshot, sent or not.
Advance ==
  /\ prev' = cur
  /\ prevValid' = TRUE
  /\ taskAt' = "wait"

\* Mutant: the mask is of what changed and is valid in the older snapshot.
PushNewOnly ==
  /\ taskAt = "diff"
  /\ Advance
  /\ known' = [a \in Aspects |-> IF a \in Mask /\ prev[a] = Initial THEN cur[a] ELSE known[a]]
  /\ owed' = owed \ Mask
  /\ UNCHANGED <<otVars, waitVars, cur, skipped>>

Push ==
  /\ taskAt = "diff"
  /\ Advance
  /\ known' = [a \in Aspects |-> IF a \in Mask THEN cur[a] ELSE known[a]]
  /\ owed' = owed \ Mask
  /\ UNCHANGED <<otVars, waitVars, cur, skipped>>

\* frame_send failed: no client, the buffer is busy, or a short write.
PushFails ==
  /\ taskAt = "diff"
  /\ Mask # {}
  /\ Advance
  /\ owed' = owed \cup Mask
  /\ UNCHANGED <<otVars, waitVars, cur, known, skipped>>

-----------------------------------------------------------------------------

OpenThread == (\E a \in Aspects, v \in Values : Change(a, v)) \/ OnStateChanged \/ StartDebounce

TimerTask == DebounceFires \/ GiveNotification

Detector == Wake \/ Snapshot \/ LockTimesOut \/ Push \/ PushFails

Next == OpenThread \/ TimerTask \/ Detector

Spec == Init /\ [][Next]_vars

\* OpenThread reports its flags, the timer expires and the detector task
\* runs; the state need not change, and a send may always fail.
Fairness ==
  /\ WF_vars(OnStateChanged) /\ WF_vars(StartDebounce)
  /\ WF_vars(TimerTask)
  /\ WF_vars(Detector)

FairSpec == Spec /\ Fairness

-----------------------------------------------------------------------------
(***************************************************************************)
(* Properties.                                                             *)
(***************************************************************************)

\* The debounce is armed exactly while its timer is running or about to be
\* started: a change is never taken for covered by a timer that is over,
\* nor is a running timer started again.
ArmedMeansTimer == armed <=> timer \/ otAt = "start"

\* What a snapshot is compared with is what the backend was told, but for
\* the aspects whose NOTIFY failed: equal snapshots may stay unreported.
PrevIsKnown ==
  prevValid => \A a \in Aspects \ owed : prev[a] = known[a]

\* A change is reported, that is, sent to the backend, however it falls among
\* the debounce, the snapshot and other changes, unless a send failed or a
\* snapshot was skipped.
ChangesReported ==
  \A a \in Aspects :
    world[a] # known[a] ~> (world[a] = known[a] \/ a \in owed \/ skipped)
=============================================================================
