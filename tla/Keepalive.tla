------------------------------ MODULE Keepalive ------------------------------
(***************************************************************************)
(* The backend's poll loop against the watchdog of one border router.      *)
(*                                                                         *)
(* PollActiveAsync asks the border routers one after the other, and a      *)
(* silent one takes a full request timeout, for STATE and, when it is its  *)
(* turn, for BR_HEALTH.  state_watchdog_task restarts a border router that *)
(* got no STATE in MaxMiss intervals.  Time passes in seconds; a border    *)
(* router that answers takes none.                                         *)
(***************************************************************************)
EXTENDS Naturals

CONSTANTS
  Before,     \* silent border routers polled before this one
  After,      \* silent ones polled after it
  Poll,       \* StatePollIntervalSec
  Timeout,    \* RequestTimeoutMs, in seconds
  Interval,   \* STATE_WATCHDOG_INTERVAL_MS, in seconds
  MaxMiss     \* STATE_WATCHDOG_MAX_MISS

\* STATE, and BR_HEALTH, to a silent border router take this at most.
Visit == 2 * Timeout

\* A visit to each silent one, and the wait for a tick.
LongestGap == Poll + (Before + After) * Visit

FewSilent ==
  /\ {Before, After, Timeout} \subseteq Nat
  /\ {Poll, Interval, MaxMiss} \subseteq Nat \ {0}
  /\ LongestGap < MaxMiss * Interval

VARIABLES
  loop,      \* "wait" for a tick, or the silent ones "before" or "after"
  visits,    \* silent ones left to visit there
  busy,      \* seconds the visit to one takes still
  tickIn,    \* seconds to the timer's next tick
  ticked,    \* a tick the loop has not seen; a second one is not counted
  received,  \* s_state_received
  watchIn,   \* seconds to the end of the watchdog's interval
  miss       \* its miss

loopVars  == <<loop, visits, busy>>
timerVars == <<tickIn, ticked>>
watchVars == <<received, watchIn, miss>>
pollVars == <<loopVars, timerVars, watchVars>>

PollTypeOK ==
  /\ loop \in {"wait", "before", "after"}
  /\ visits \in Nat /\ busy \in 0 .. Visit
  /\ tickIn \in 0 .. Poll /\ ticked \in BOOLEAN
  /\ received \in BOOLEAN /\ watchIn \in 0 .. Interval /\ miss \in Nat

PollInit ==
  /\ loop = "wait" /\ visits = 0 /\ busy = 0
  /\ tickIn \in 0 .. Poll /\ ticked = FALSE
  /\ received = TRUE /\ watchIn \in 0 .. Interval /\ miss = 0

-----------------------------------------------------------------------------

\* A second passes when nothing is due.
Second ==
  /\ IF loop = "wait" THEN ~ ticked ELSE busy > 0
  /\ tickIn > 0 /\ watchIn > 0
  /\ busy' = IF busy > 0 THEN busy - 1 ELSE 0
  /\ tickIn' = tickIn - 1
  /\ watchIn' = watchIn - 1
  /\ UNCHANGED <<loop, visits, ticked, received, miss>>

Tick ==
  /\ tickIn = 0
  /\ tickIn' = Poll
  /\ ticked' = TRUE
  /\ UNCHANGED <<loopVars, watchVars>>

RoundStarts ==
  /\ loop = "wait" /\ ticked
  /\ ticked' = FALSE
  /\ loop' = "before" /\ visits' = Before
  /\ UNCHANGED <<busy, tickIn, watchVars>>

\* Mutant: one more attempt for each request.
VisitSilentTwice ==
  /\ loop # "wait" /\ busy = 0 /\ visits > 0
  /\ visits' = visits - 1
  /\ busy' \in 0 .. 2 * Visit
  /\ UNCHANGED <<loop, timerVars, watchVars>>

\* STATE, and BR_HEALTH if the count of polls comes to it here.
VisitSilent ==
  /\ loop # "wait" /\ busy = 0 /\ visits > 0
  /\ visits' = visits - 1
  /\ busy' \in 0 .. Visit
  /\ UNCHANGED <<loop, timerVars, watchVars>>

\* STATE reaches this border router, which answers at once.
VisitThis ==
  /\ loop = "before" /\ busy = 0 /\ visits = 0
  /\ received' = TRUE
  /\ loop' = "after" /\ visits' = After
  /\ UNCHANGED <<busy, timerVars, watchIn, miss>>

RoundEnds ==
  /\ loop = "after" /\ busy = 0 /\ visits = 0
  /\ loop' = "wait"
  /\ UNCHANGED <<visits, busy, timerVars, watchVars>>

\* The restart is the end.
Watch ==
  /\ watchIn = 0 /\ miss < MaxMiss
  /\ watchIn' = Interval
  /\ received' = FALSE
  /\ miss' = IF received THEN 0 ELSE miss + 1
  /\ UNCHANGED <<loopVars, timerVars>>

PollNext ==
  \/ Second \/ Tick \/ Watch
  \/ RoundStarts \/ VisitSilent \/ VisitThis \/ RoundEnds

PollSpec == PollInit /\ [][PollNext]_pollVars

-----------------------------------------------------------------------------
(***************************************************************************)
(* Properties.                                                             *)
(***************************************************************************)

\* A border router that answers is not restarted for want of STATE, wherever
\* it comes in the round, as long as few enough of the others are silent.
KeptAlive == FewSilent => miss < MaxMiss

\* Seconds to the next visit, at most; those since the last one, at least.
ToVisit ==
  busy + visits * Visit
    + (IF loop = "before" THEN 0 ELSE Before * Visit + (IF ticked THEN 0 ELSE tickIn))

SinceVisit == IF received THEN 0 ELSE miss * Interval + (Interval - watchIn)

\* Together they never exceed the longest gap.
GapIsBounded == SinceVisit + ToVisit <= LongestGap
=============================================================================
