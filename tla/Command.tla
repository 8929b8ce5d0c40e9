------------------------------ MODULE Command ------------------------------
(***************************************************************************)
(* The border router's command handlers (command.c), which run one after   *)
(* the other in the RX task, against the tasks they share OpenThread and   *)
(* the flash with: the OpenThread task, the timer task with the deferred   *)
(* reset and factory reset, and the boot button.                           *)
(*                                                                         *)
(* OpenThread is touched under esp_openthread_lock, which an acquire may   *)
(* fail to get within its timeout; each call under the lock is a step.     *)
(* Commands that only read OpenThread -- STATE, MAC_ADDRESS, the tables -- *)
(* are one kind, those answered without it -- THREAD_VERSION, an unknown   *)
(* command -- another; SRP_REGISTER is left out.                           *)
(***************************************************************************)
EXTENDS Naturals, FiniteSets

CONSTANTS
  Fields,       \* fields of the operational dataset
  Values,       \* values of a field
  Erased,       \* no dataset
  HoldCount,    \* polls the boot button has to be held
  MaxCommands,  \* bound: commands received
  MaxChanges,   \* bound: changes of the dataset by the Thread network
  MaxPresses    \* bound: presses of the boot button

ASSUME ConstantsAssumption ==
  /\ Fields # {} /\ Values # {}
  /\ Erased \notin [Fields -> Values]
  /\ HoldCount \in Nat \ {0}
  /\ {MaxCommands, MaxChanges, MaxPresses} \subseteq Nat

VARIABLES
  rx,         \* the RX task: its step, the command, and the dataset it read
  replies,    \* responses to the current command that were sent or tried
  received,   \* commands received so far
  lock,       \* the OpenThread lock: its holder
  dataset,    \* OpenThread's active dataset
  changes,    \* changes by the network so far
  nvs,        \* the dataset in flash
  nvsOpen,    \* NVS is initialised
  thread,     \* otThreadSetEnabled
  ip6,        \* otIp6SetEnabled
  comm,       \* the commissioner's state
  reset,      \* reset[t]: how far task t is with a reset or factory reset
  timers,     \* s_reset_timer and s_factory_timer that are armed
  hold,       \* hold_ticks of the boot button's task
  presses,    \* presses so far
  boots       \* restarts so far

rxVars    == <<rx, replies, received>>
otVars    == <<dataset, changes, thread, ip6, comm>>
flashVars == <<nvs, nvsOpen>>
resetVars == <<reset, timers, hold, presses, boots>>

vars == <<rxVars, lock, otVars, flashVars, resetVars>>

Datasets == [Fields -> Values]

Resetters == {"rx", "timer", "button"}

\* A command with its parameters; ok is what its validation finds.
Kinds == {"set", "start", "stop", "reset", "factory", "joiner", "read", "plain"}

Commands ==
  {c \in [kind : Kinds, field : Fields, val : Values, ok : BOOLEAN] :
     /\ c.kind # "set" => /\ c.field = CHOOSE f \in Fields : TRUE
                          /\ c.val = CHOOSE v \in Values : TRUE
     /\ c.kind \notin {"set", "factory", "joiner"} => c.ok}

Held == {"read", "write", "up", "enable", "disable", "down", "petition", "add", "look"}

RxSteps == {"idle", "run", "lock", "wait", "relock", "gone"} \cup Held

Idle == [at |-> "idle", cmd |-> CHOOSE c \in Commands : TRUE, copy |-> Erased]

TypeOK ==
  /\ rx \in [at : RxSteps, cmd : Commands, copy : Datasets \cup {Erased}]
  /\ replies \in Nat
  /\ received \in 0 .. MaxCommands
  /\ lock \in {"none", "rx", "timer"}
  /\ dataset \in Datasets \cup {Erased}
  /\ changes \in 0 .. MaxChanges
  /\ nvs \in Datasets \cup {Erased}
  /\ {nvsOpen, thread, ip6} \subseteq BOOLEAN
  /\ comm \in {"off", "petitioning", "active"}
  /\ reset \in [Resetters -> {"idle", "lock", "disable", "down", "deinit", "erase", "restart"}]
  /\ timers \subseteq {"reset", "factory"}
  /\ hold \in 0 .. HoldCount - 1
  /\ presses \in 0 .. MaxPresses
  /\ boots \in Nat

\* dataset_init_on_boot: a dataset is made when the flash has none, unless
\* the lock or OpenThread fails.
BootDatasets(d) == IF d = Erased THEN Datasets \cup {Erased} ELSE {d}

Init ==
  /\ rx = Idle /\ replies = 1 /\ received = 0
  /\ lock = "none"
  /\ \E d \in Datasets : dataset = d /\ nvs = d
  /\ changes = 0
  /\ nvsOpen = TRUE
  /\ thread \in BOOLEAN /\ ip6 = thread /\ comm = "off"
  /\ reset = [t \in Resetters |-> "idle"]
  /\ timers = {}
  /\ hold = 0 /\ presses = 0
  /\ boots = 0

\* esp_restart and the boot after it.  Whether OpenThread starts the network
\* by itself is a setting of its build.
Restart(t) ==
  /\ reset[t] = "restart"
  /\ rx' = Idle /\ replies' = 1
  /\ lock' = "none"
  /\ \E d \in BootDatasets(nvs) : dataset' = d /\ nvs' = d
  /\ nvsOpen' = TRUE
  /\ thread' \in BOOLEAN /\ ip6' = thread' /\ comm' = "off"
  /\ reset' = [s \in Resetters |-> "idle"]
  /\ timers' = {}
  /\ hold' = 0
  /\ boots' = boots + 1
  /\ UNCHANGED <<received, changes, presses>>

-----------------------------------------------------------------------------
(***************************************************************************)
(* The RX task: command_dispatch and the handlers.                         *)
(***************************************************************************)

\* The handler's one response, and its return.
Respond ==
  /\ replies' = replies + 1
  /\ rx' = Idle

Release == lock' = "none"

GoOn(step) ==
  /\ rx' = [rx EXCEPT !.at = step]
  /\ UNCHANGED replies

Receive(c) ==
  /\ rx.at = "idle"
  /\ received < MaxCommands
  /\ received' = received + 1
  /\ replies' = 0
  /\ rx' = [at |-> "run", cmd |-> c, copy |-> Erased]
  /\ UNCHANGED <<lock, otVars, flashVars, resetVars>>

\* A response at once: nothing to ask OpenThread, or parameters that do not
\* hold.
Refuse ==
  /\ rx.at = "run"
  /\ rx.cmd.kind = "plain" \/ (rx.cmd.kind \in {"set", "factory", "joiner"} /\ ~ rx.cmd.ok)
  /\ Respond
  /\ UNCHANGED <<received, lock, otVars, flashVars, resetVars>>

\* A handler that needs OpenThread.
WantLock ==
  /\ rx.at = "run"
  /\ \/ rx.cmd.kind \in {"start", "stop", "read"}
     \/ rx.cmd.kind \in {"set", "joiner"} /\ rx.cmd.ok
  /\ GoOn("lock")
  /\ UNCHANGED <<received, lock, otVars, flashVars, resetVars>>

FirstStep(kind) ==
  CASE kind = "set"   -> "read"
    [] kind = "start" -> "up"
    [] kind = "stop"  -> "disable"
    [] kind = "read"  -> "look"
    [] OTHER          -> "petition"

LockTaken ==
  /\ rx.at \in {"lock", "relock"}
  /\ lock = "none"
  /\ lock' = "rx"
  /\ GoOn(IF rx.at = "relock" THEN "add" ELSE FirstStep(rx.cmd.kind))
  /\ UNCHANGED <<received, otVars, flashVars, resetVars>>

\* Mutant: the NACK of a lock timeout does not end the handler.
LockTimesOutGoesOn ==
  /\ rx.at \in {"lock", "relock"}
  /\ replies' = replies + 1
  /\ rx' = [rx EXCEPT !.at = IF @ = "relock" THEN "add" ELSE FirstStep(rx.cmd.kind)]
  /\ UNCHANGED <<received, lock, otVars, flashVars, resetVars>>

LockTimesOut ==
  /\ rx.at \in {"lock", "relock"}
  /\ Respond
  /\ UNCHANGED <<received, lock, otVars, flashVars, resetVars>>

Look ==
  /\ rx.at = "look"
  /\ Release
  /\ Respond
  /\ UNCHANGED <<received, otVars, flashVars, resetVars>>

\* otDatasetGetActive.
SetReads ==
  /\ rx.at = "read"
  /\ IF dataset = Erased
     THEN Release /\ Respond
     ELSE rx' = [rx EXCEPT !.at = "write", !.copy = dataset] /\ UNCHANGED <<lock, replies>>
  /\ UNCHANGED <<received, otVars, flashVars, resetVars>>

\* OpenThread takes a dataset and saves it while NVS is there to save to.
Takes(d) ==
  /\ dataset' = d
  /\ nvs' = IF nvsOpen THEN d ELSE nvs

\* otDatasetSetActive, which may fail.
SetWrites ==
  /\ rx.at = "write"
  /\ \/ Takes([rx.copy EXCEPT ![rx.cmd.field] = rx.cmd.val])
     \/ UNCHANGED <<dataset, nvs>>
  /\ Release
  /\ Respond
  /\ UNCHANGED <<received, changes, thread, ip6, comm, nvsOpen, resetVars>>

StartBringsUp ==
  /\ rx.at = "up"
  /\ ip6' = TRUE
  /\ GoOn("enable")
  /\ UNCHANGED <<received, lock, dataset, changes, thread, comm, flashVars, resetVars>>

\* otThreadSetEnabled needs the interface to be up.
StartEnables ==
  /\ rx.at = "enable"
  /\ thread' = (thread \/ ip6)
  /\ Release
  /\ Respond
  /\ UNCHANGED <<received, dataset, changes, ip6, comm, flashVars, resetVars>>

StopDisables ==
  /\ rx.at = "disable"
  /\ thread' = FALSE
  /\ GoOn("down")
  /\ UNCHANGED <<received, lock, dataset, changes, ip6, comm, flashVars, resetVars>>

StopBringsDown ==
  /\ rx.at = "down"
  /\ ip6' = FALSE
  /\ Release
  /\ Respond
  /\ UNCHANGED <<received, dataset, changes, thread, comm, flashVars, resetVars>>

\* The ACK goes first; without it nothing is deferred.  When the timer cannot
\* be made, the RX task does it itself, now.
Defer(kind, first) ==
  /\ rx.at = "run"
  /\ rx.cmd.kind = kind
  /\ \/ /\ Respond
        /\ UNCHANGED <<reset, timers>>
     \/ /\ Respond
        /\ timers' = timers \cup {kind}
        /\ UNCHANGED reset
     \/ /\ replies' = replies + 1
        /\ rx' = [rx EXCEPT !.at = "gone"]
        /\ reset' = [reset EXCEPT !["rx"] = first]
        /\ UNCHANGED timers
  /\ UNCHANGED <<received, lock, otVars, flashVars, hold, presses, boots>>

ResetCommand == Defer("reset", "restart")

FactoryCommand == rx.cmd.ok /\ Defer("factory", "deinit")

\* otCommissionerStart; the lock is released while the petition runs.
Petition ==
  /\ rx.at = "petition"
  /\ \/ comm = "active" /\ GoOn("add") /\ UNCHANGED <<lock, comm>>
     \/ comm # "active" /\ Release /\ Respond /\ UNCHANGED comm
     \/ comm # "active" /\ Release /\ GoOn("wait") /\ comm' = "petitioning"
  /\ UNCHANGED <<received, dataset, changes, thread, ip6, flashVars, resetVars>>

\* One of the polls, each under the lock, saw the commissioner active ...
WaitSeesActive ==
  /\ rx.at = "wait"
  /\ lock = "none"
  /\ comm = "active"
  /\ GoOn("relock")
  /\ UNCHANGED <<received, lock, otVars, flashVars, resetVars>>

\* Mutant: the wait has no deadline.
WaitForever ==
  /\ rx.at = "wait"
  /\ comm = "active"
  /\ Respond
  /\ UNCHANGED <<received, lock, otVars, flashVars, resetVars>>

\* ... or none did in time.
WaitTimesOut ==
  /\ rx.at = "wait"
  /\ Respond
  /\ UNCHANGED <<received, lock, otVars, flashVars, resetVars>>

AddJoiner ==
  /\ rx.at = "add"
  /\ Release
  /\ Respond
  /\ UNCHANGED <<received, otVars, flashVars, resetVars>>

-----------------------------------------------------------------------------
(***************************************************************************)
(* OpenThread's own task, under its lock.                                  *)
(***************************************************************************)

NetworkChange(d) ==
  /\ lock = "none"
  /\ changes < MaxChanges
  /\ dataset # Erased /\ d # dataset
  /\ changes' = changes + 1
  /\ Takes(d)
  /\ UNCHANGED <<rxVars, lock, thread, ip6, comm, nvsOpen, resetVars>>

\* The leader answers the petition, or the commissioner is stopped.
CommissionerMoves ==
  /\ lock = "none"
  /\ comm # "off"
  /\ comm' \in IF comm = "petitioning" THEN {"active", "off"} ELSE {"off"}
  /\ UNCHANGED <<rxVars, lock, dataset, changes, thread, ip6, flashVars, resetVars>>

-----------------------------------------------------------------------------
(***************************************************************************)
(* The timer task, the boot button, and command_factory_reset.             *)
(***************************************************************************)

Step(t, from, to) ==
  /\ reset[t] = from
  /\ reset' = [reset EXCEPT ![t] = to]
  /\ UNCHANGED <<timers, hold, presses, boots>>

TimerFires(kind) ==
  /\ kind \in timers
  /\ reset["timer"] = "idle"
  /\ timers' = timers \ {kind}
  /\ reset' = [reset EXCEPT !["timer"] = IF kind = "reset" THEN "lock" ELSE "deinit"]
  /\ UNCHANGED <<rxVars, lock, otVars, flashVars, hold, presses, boots>>

\* thread_graceful_shutdown.
ShutdownLocks ==
  /\ lock = "none"
  /\ Step("timer", "lock", "disable")
  /\ lock' = "timer"
  /\ UNCHANGED <<rxVars, otVars, flashVars>>

\* Mutant: without the lock the callback returns.
ShutdownSkipsRestart ==
  /\ Step("timer", "lock", "idle")
  /\ UNCHANGED <<rxVars, lock, otVars, flashVars>>

ShutdownSkips ==
  /\ Step("timer", "lock", "restart")
  /\ UNCHANGED <<rxVars, lock, otVars, flashVars>>

\* Mutant: the interface goes down first.
ShutdownDownFirst ==
  /\ Step("timer", "disable", "down")
  /\ ip6' = FALSE
  /\ UNCHANGED <<rxVars, lock, dataset, changes, thread, comm, flashVars>>

ShutdownDisables ==
  /\ Step("timer", "disable", "down")
  /\ thread' = FALSE
  /\ UNCHANGED <<rxVars, lock, dataset, changes, ip6, comm, flashVars>>

ShutdownBringsDown ==
  /\ Step("timer", "down", "restart")
  /\ ip6' = FALSE
  /\ Release
  /\ UNCHANGED <<rxVars, dataset, changes, thread, comm, flashVars>>

\* Mutant: NVS stays initialised while it is erased.
FactoryDeinitSkipped(t) ==
  /\ Step(t, "deinit", "erase")
  /\ UNCHANGED <<rxVars, lock, otVars, flashVars>>

FactoryDeinit(t) ==
  /\ Step(t, "deinit", "erase")
  /\ nvsOpen' = FALSE
  /\ UNCHANGED <<rxVars, lock, otVars, nvs>>

\* An erase that fails is logged.
FactoryErases(t) ==
  /\ Step(t, "erase", "restart")
  /\ nvs' \in {Erased, nvs}
  /\ UNCHANGED <<rxVars, lock, otVars, nvsOpen>>

ButtonHeld ==
  /\ reset["button"] = "idle"
  /\ hold > 0 \/ presses < MaxPresses
  /\ presses' = IF hold = 0 THEN presses + 1 ELSE presses
  /\ IF hold + 1 >= HoldCount
     THEN /\ hold' = 0
          /\ reset' = [reset EXCEPT !["button"] = "deinit"]
     ELSE hold' = hold + 1 /\ UNCHANGED reset
  /\ UNCHANGED <<rxVars, lock, otVars, flashVars, timers, boots>>

ButtonReleased ==
  /\ reset["button"] = "idle"
  /\ hold > 0
  /\ hold' = 0
  /\ UNCHANGED <<rxVars, lock, otVars, flashVars, reset, timers, presses, boots>>

-----------------------------------------------------------------------------

Handle ==
  \/ Refuse \/ WantLock \/ LockTaken \/ LockTimesOut \/ Look
  \/ SetReads \/ SetWrites
  \/ StartBringsUp \/ StartEnables \/ StopDisables \/ StopBringsDown
  \/ ResetCommand \/ FactoryCommand
  \/ Petition \/ WaitSeesActive \/ WaitTimesOut \/ AddJoiner

TimerTask ==
  \/ \E kind \in {"reset", "factory"} : TimerFires(kind)
  \/ ShutdownLocks \/ ShutdownSkips \/ ShutdownDisables \/ ShutdownBringsDown

FactoryReset(t) == FactoryDeinit(t) \/ FactoryErases(t) \/ Restart(t)

Next ==
  \/ \E c \in Commands : Receive(c)
  \/ Handle
  \/ (\E d \in Datasets : NetworkChange(d)) \/ CommissionerMoves
  \/ TimerTask
  \/ \E t \in Resetters : FactoryReset(t)
  \/ ButtonHeld \/ ButtonReleased

Spec == Init /\ [][Next]_vars

\* A handler that runs goes on, as do the timer task and a task that resets
\* the device; no command, network change or press has to come.
Fairness ==
  /\ WF_vars(Handle)
  /\ WF_vars(TimerTask)
  /\ \A t \in Resetters : WF_vars(FactoryReset(t))

FairSpec == Spec /\ Fairness

-----------------------------------------------------------------------------
(***************************************************************************)
(* Properties.                                                             *)
(***************************************************************************)

\* A handler gives its command one response, on every path through lock
\* timeouts, OpenThread errors and the commissioner's wait; only a restart
\* cuts it off.
AnsweredOnce == replies <= 1 /\ (rx.at = "idle" => replies = 1)

\* Thread never runs over an interface that is down, however a START, a STOP
\* and the shutdown before a reset interleave in the two tasks.
ThreadNeedsIp6 == thread => ip6

\* A SET_* command changes its own field: what the Thread network changed
\* since is not written back to an older value.
SetKeepsOthers ==
  [][rx.at = "write" /\ dataset' # dataset /\ boots' = boots =>
       \A f \in Fields \ {rx.cmd.field} : dataset'[f] = dataset[f]]_vars

\* Once a factory reset has erased the flash, no task writes a dataset back
\* into it; only the boot makes a new one.
ErasedStaysErased ==
  [][nvs = Erased /\ nvs' # Erased => boots' > boots]_vars

\* A command ends, also while OpenThread is busy or the commissioner never
\* becomes active.
EveryCommandEnds == rx.at # "idle" ~> rx.at = "idle"

\* A RESET or FACTORY that was acknowledged, and a long press, restart the
\* device, whatever the lock and the other reset do.
DeferredRestarts ==
  \A b \in 0 .. MaxCommands + MaxPresses :
    (boots = b /\ (timers # {} \/ \E t \in Resetters : reset[t] # "idle")) ~> boots > b
=============================================================================
