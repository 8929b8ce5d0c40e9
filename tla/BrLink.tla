------------------------------- MODULE BrLink -------------------------------
(***************************************************************************)
(* What the border router expects of its backend (frame_tcp.c): the        *)
(* confirm of every IP_ADDR answer, which ip_retry_timer_cb repeats until  *)
(* then, and a STATE command every so often, without which                 *)
(* state_watchdog_task restarts the device.                                *)
(*                                                                         *)
(* The RX task, the timer task and the watchdog task run on two cores and  *)
(* share s_pending_ip_frame_id, s_ip_retry_count and s_state_received with *)
(* no lock, so every access of theirs is a step of its own.  Frame ids are *)
(* numbers; the backend asks under a fresh id each time.                   *)
(***************************************************************************)
EXTENDS Naturals, FiniteSets

CONSTANTS
  NumIds,      \* size of the frame id space; the last one is IP_PENDING_NONE
  FirstId,     \* the frame id of the backend's first IP request
  MaxAsked,    \* bound: IP requests
  MaxStates,   \* bound: STATE commands
  MaxBoots,    \* bound: restarts by the watchdog
  IpRetryMax,  \* IP_RETRY_MAX
  MaxMiss      \* STATE_WATCHDOG_MAX_MISS

ASSUME ConstantsAssumption ==
  /\ NumIds \in Nat \ {0}
  /\ FirstId \in 0 .. NumIds - 1
  /\ MaxAsked \in 0 .. NumIds
  /\ MaxStates \in Nat /\ MaxBoots \in Nat
  /\ IpRetryMax \in Nat
  /\ MaxMiss \in Nat \ {0}

Ids == 0 .. NumIds - 1
PendingNone == NumIds - 1

VARIABLES
  asked,      \* IP requests handled since boot
  confirmed,  \* ids the backend confirmed
  pend,       \* s_pending_ip_frame_id
  count,      \* s_ip_retry_count
  timer,      \* the retry timer is started
  rx,         \* the RX task: the step, and the frame id it works on
  cb,         \* ip_retry_timer_cb: the step, the frame id and the count it read
  resent,     \* resent[id]: times the answer was repeated
  flag,       \* s_state_received
  states,     \* STATE commands so far
  wd,         \* the watchdog task: the step, and its miss counter
  quiet,      \* whole intervals since the last STATE command, up to MaxMiss
  boots       \* restarts so far

ipVars == <<asked, confirmed, pend, count, timer, rx, cb, resent>>
wdVars == <<flag, states, wd, quiet, boots>>
vars == <<ipVars, wdVars>>

TypeOK ==
  /\ asked \in 0 .. MaxAsked
  /\ confirmed \subseteq Ids
  /\ pend \in Ids
  /\ count \in 0 .. IpRetryMax
  /\ timer \in BOOLEAN
  /\ rx \in [at : {"idle", "count", "start", "clear"}, id : Ids]
  /\ cb \in [at : {"idle", "read", "check", "bump", "stop", "clear", "send"},
             id : Ids, count : 0 .. IpRetryMax]
  /\ resent \in [Ids -> Nat]
  /\ flag \in BOOLEAN
  /\ states \in 0 .. MaxStates
  /\ wd \in [at : {"sleep", "clear"}, miss : 0 .. MaxMiss - 1]
  /\ quiet \in 0 .. MaxMiss
  /\ boots \in 0 .. MaxBoots

RxIdle == [at |-> "idle", id |-> 0]
CbIdle == [at |-> "idle", id |-> 0, count |-> 0]

BootValues ==
  /\ asked' = 0 /\ confirmed' = {}
  /\ pend' = PendingNone /\ count' = 0 /\ timer' = FALSE
  /\ rx' = RxIdle /\ cb' = CbIdle
  /\ resent' = [i \in Ids |-> 0]
  /\ flag' = FALSE

Init ==
  /\ asked = 0 /\ confirmed = {}
  /\ pend = PendingNone /\ count = 0 /\ timer = FALSE
  /\ rx = RxIdle /\ cb = CbIdle
  /\ resent = [i \in Ids |-> 0]
  /\ flag = FALSE /\ states = 0
  /\ wd = [at |-> "sleep", miss |-> 0]
  /\ quiet = 0 /\ boots = 0

\* The frame id of the k-th request.
IdOf(k) == IF FirstId + k <= NumIds THEN FirstId + k - 1 ELSE FirstId + k - 1 - NumIds

-----------------------------------------------------------------------------
(***************************************************************************)
(* The RX task: IP_ADDR, its confirm, and STATE.                           *)
(***************************************************************************)

\* The answer is sent, and frame_tcp_mark_ip_response_pending begins.
IpRequest ==
  /\ rx.at = "idle"
  /\ asked < MaxAsked
  /\ asked' = asked + 1
  /\ pend' = IdOf(asked + 1)
  /\ rx' = [at |-> "count", id |-> IdOf(asked + 1)]
  /\ UNCHANGED <<confirmed, count, timer, cb, resent, wdVars>>

MarkCount ==
  /\ rx.at = "count"
  /\ count' = 0
  /\ rx' = [rx EXCEPT !.at = "start"]
  /\ UNCHANGED <<asked, confirmed, pend, timer, cb, resent, wdVars>>

MarkStart ==
  /\ rx.at = "start"
  /\ timer' = TRUE
  /\ rx' = RxIdle
  /\ UNCHANGED <<asked, confirmed, pend, count, cb, resent, wdVars>>

\* An ACK under the pending id stops the timer and clears the id; any other
\* is dispatched as a command and refused.  The backend sends it once.
Confirm(k) ==
  /\ rx.at = "idle"
  /\ k <= asked
  /\ IdOf(k) \notin confirmed
  /\ confirmed' = confirmed \cup {IdOf(k)}
  /\ IF IdOf(k) = pend
     THEN timer' = FALSE /\ rx' = [at |-> "clear", id |-> pend]
     ELSE UNCHANGED <<timer, rx>>
  /\ UNCHANGED <<asked, pend, count, cb, resent, wdVars>>

\* Mutant: the confirm stops the timer and leaves the id.
ConfirmForgetsId ==
  /\ rx.at = "clear"
  /\ rx' = RxIdle
  /\ UNCHANGED <<asked, confirmed, pend, count, timer, cb, resent, wdVars>>

ConfirmClears ==
  /\ rx.at = "clear"
  /\ pend' = PendingNone
  /\ rx' = RxIdle
  /\ UNCHANGED <<asked, confirmed, count, timer, cb, resent, wdVars>>

StateCommand ==
  /\ rx.at = "idle"
  /\ states < MaxStates
  /\ states' = states + 1
  /\ flag' = TRUE
  /\ quiet' = 0
  /\ UNCHANGED <<ipVars, wd, boots>>

-----------------------------------------------------------------------------
(***************************************************************************)
(* ip_retry_timer_cb, in the timer task.  Stopping the timer does not stop *)
(* a callback that has begun.                                              *)
(***************************************************************************)

\* The period is a second: of the callbacks that overlap a mark, one began
\* before it, and no other begins until it is done.
CbFires ==
  /\ timer
  /\ rx.at \notin {"count", "start"}
  /\ cb.at = "idle"
  /\ cb' = [CbIdle EXCEPT !.at = "read"]
  /\ UNCHANGED <<asked, confirmed, pend, count, timer, rx, resent, wdVars>>

CbReadsId ==
  /\ cb.at = "read"
  /\ cb' = IF pend = PendingNone THEN CbIdle ELSE [cb EXCEPT !.at = "check", !.id = pend]
  /\ UNCHANGED <<asked, confirmed, pend, count, timer, rx, resent, wdVars>>

\* Mutant: the retry limit is off by one.
CbChecksEarly ==
  /\ cb.at = "check"
  /\ cb' = IF count + 1 >= IpRetryMax THEN [cb EXCEPT !.at = "stop"]
                                      ELSE [cb EXCEPT !.at = "bump", !.count = count]
  /\ UNCHANGED <<asked, confirmed, pend, count, timer, rx, resent, wdVars>>

CbChecks ==
  /\ cb.at = "check"
  /\ cb' = IF count >= IpRetryMax THEN [cb EXCEPT !.at = "stop"]
                                  ELSE [cb EXCEPT !.at = "bump", !.count = count]
  /\ UNCHANGED <<asked, confirmed, pend, count, timer, rx, resent, wdVars>>

CbStops ==
  /\ cb.at = "stop"
  /\ timer' = FALSE
  /\ cb' = [cb EXCEPT !.at = "clear"]
  /\ UNCHANGED <<asked, confirmed, pend, count, rx, resent, wdVars>>

\* Mutant: giving up stops the timer and leaves the id.
CbClearsNothing ==
  /\ cb.at = "clear"
  /\ cb' = CbIdle
  /\ UNCHANGED <<asked, confirmed, pend, count, timer, rx, resent, wdVars>>

CbClears ==
  /\ cb.at = "clear"
  /\ pend' = PendingNone
  /\ cb' = CbIdle
  /\ UNCHANGED <<asked, confirmed, count, timer, rx, resent, wdVars>>

\* Mutant: the counter is never advanced.
CbBumpsNothing ==
  /\ cb.at = "bump"
  /\ cb' = [cb EXCEPT !.at = "send"]
  /\ UNCHANGED <<asked, confirmed, pend, count, timer, rx, resent, wdVars>>

\* s_ip_retry_count++ is a read and a write.
CbBumps ==
  /\ cb.at = "bump"
  /\ count' = cb.count + 1
  /\ cb' = [cb EXCEPT !.at = "send"]
  /\ UNCHANGED <<asked, confirmed, pend, timer, rx, resent, wdVars>>

CbResends ==
  /\ cb.at = "send"
  /\ resent' = [resent EXCEPT ![cb.id] = @ + 1]
  /\ cb' = CbIdle
  /\ UNCHANGED <<asked, confirmed, pend, count, timer, rx, wdVars>>

-----------------------------------------------------------------------------
(***************************************************************************)
(* state_watchdog_task.                                                    *)
(***************************************************************************)

OneMore(n) == IF n < MaxMiss THEN n + 1 ELSE n

Restart ==
  /\ BootValues
  /\ wd' = [at |-> "sleep", miss |-> 0]
  /\ quiet' = 0
  /\ boots' = boots + 1
  /\ UNCHANGED states

\* Mutant: the miss counter is not reset.
WatchdogTickKeepsMiss ==
  /\ wd.at = "sleep"
  /\ IF flag
     THEN wd' = [wd EXCEPT !.at = "clear"] /\ quiet' = OneMore(quiet) /\ UNCHANGED <<ipVars, flag, states, boots>>
     ELSE \/ /\ wd.miss + 1 < MaxMiss
             /\ wd' = [wd EXCEPT !.miss = @ + 1]
             /\ quiet' = OneMore(quiet)
             /\ UNCHANGED <<ipVars, flag, states, boots>>
          \/ wd.miss + 1 >= MaxMiss /\ boots < MaxBoots /\ Restart

\* One interval passed.
WatchdogTick ==
  /\ wd.at = "sleep"
  /\ IF flag
     THEN /\ wd' = [at |-> "clear", miss |-> 0]
          /\ quiet' = OneMore(quiet)
          /\ UNCHANGED <<ipVars, flag, states, boots>>
     ELSE \/ /\ wd.miss + 1 < MaxMiss
             /\ wd' = [wd EXCEPT !.miss = @ + 1]
             /\ quiet' = OneMore(quiet)
             /\ UNCHANGED <<ipVars, flag, states, boots>>
          \/ wd.miss + 1 >= MaxMiss /\ boots < MaxBoots /\ Restart

\* Mutant: the flag is tested and never reset.
WatchdogClearsNothing ==
  /\ wd.at = "clear"
  /\ wd' = [wd EXCEPT !.at = "sleep"]
  /\ UNCHANGED <<ipVars, flag, states, quiet, boots>>

\* A STATE command between the test and this write is not seen.
WatchdogClears ==
  /\ wd.at = "clear"
  /\ flag' = FALSE
  /\ wd' = [wd EXCEPT !.at = "sleep"]
  /\ UNCHANGED <<ipVars, states, quiet, boots>>

-----------------------------------------------------------------------------

Rx == IpRequest \/ MarkCount \/ MarkStart \/ (\E k \in 1 .. MaxAsked : Confirm(k))
      \/ ConfirmClears \/ StateCommand

Timer == CbFires \/ CbReadsId \/ CbChecks \/ CbStops \/ CbClears \/ CbBumps \/ CbResends

Watchdog == WatchdogTick \/ WatchdogClears

Next == Rx \/ Timer \/ Watchdog

Spec == Init /\ [][Next]_vars

\* The timer and watchdog tasks run and the RX task finishes what it began;
\* nothing makes the backend ask, confirm or send STATE.
Fairness ==
  /\ WF_vars(MarkCount) /\ WF_vars(MarkStart) /\ WF_vars(ConfirmClears)
  /\ WF_vars(Timer)
  /\ WF_vars(Watchdog)

FairSpec == Spec /\ Fairness

-----------------------------------------------------------------------------
(***************************************************************************)
(* Properties.                                                             *)
(***************************************************************************)

\* An answer is repeated at most IP_RETRY_MAX times, and once more for each
\* neighbouring request whose mark changes the id and the counter under a
\* callback: the shared counter never makes it repeat without end.
RetriesBounded ==
  \A k \in 1 .. asked :
    resent[IdOf(k)] <= IpRetryMax + Cardinality({k - 1, k + 1} \cap 1 .. asked)

\* A confirmed answer is no longer pending once the RX task has cleared it,
\* whatever the timer task did meanwhile: only a callback that read the id
\* before can repeat it again.
ConfirmedIsNotPending ==
  pend \in confirmed /\ pend # PendingNone => rx.at = "clear"

\* The watchdog restarts the device only after MaxMiss whole intervals
\* without a STATE command, also when a command slips in between its test
\* of the flag and its reset.
WatchdogIsPatient == [][boots' > boots => quiet + 1 >= MaxMiss]_vars

\* A handshake ends: the pending id is cleared whether or not the backend
\* confirms.
HandshakeEnds == pend # PendingNone ~> pend = PendingNone

\* A backend that no longer sends STATE has the device restarted.
SilenceRestarts == \A b \in 0 .. MaxBoots - 1 :
  (states = MaxStates /\ boots = b) ~> boots > b

\* The first answer after a boot is repeated IP_RETRY_MAX times unless the
\* backend confirms it or asks again, except under the id that stands for no
\* pending answer, which the callback never repeats.
AnswerIsRepeated ==
  (asked = 1 /\ IdOf(1) # PendingNone) ~> (\/ IdOf(1) \in confirmed
                                          \/ resent[IdOf(1)] = IpRetryMax
                                          \/ asked # 1)
=============================================================================
