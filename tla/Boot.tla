-------------------------------- MODULE Boot --------------------------------
(***************************************************************************)
(* How a border router starts: app_main, and eth_w5500_init, which takes   *)
(* thirteen steps and undoes, in a list written by hand for each of them,  *)
(* what was done before the one that fails.                                *)
(*                                                                         *)
(* A device without a network goes on booting; its STATE watchdog is what  *)
(* restarts it.                                                            *)
(***************************************************************************)
EXTENDS Naturals, Sequences

CONSTANT MaxBoots    \* bound: times the device starts

VARIABLES
  at,       \* "eth", "undo", "main", "up", "dead" (app_main gave up) or "off"
  step,     \* the step of eth_w5500_init or app_main that comes next
  held,     \* what eth_w5500_init has acquired and not released
  undo,     \* releases still to do
  lan,      \* eth_w5500_init returned ESP_OK
  running,  \* what app_main has started
  boots     \* starts so far

bootVars == <<at, step, held, undo, lan, running, boots>>

EthSteps == <<"group", "spi", "mac", "phy", "driver", "netif", "glue", "attach",
              "onEth", "onIp", "onIp6", "start", "lease">>

\* The releases after a failed step, as they are listed there.
Attached == <<"glue", "netif", "driver", "phy", "mac", "spi", "group">>

\* Mutant: the handlers go last.
UndoHandlersLast ==
  [group  |-> <<>>,
   spi    |-> <<"group">>,
   mac    |-> <<"spi", "group">>,
   phy    |-> <<"mac", "spi", "group">>,
   driver |-> <<"phy", "mac", "spi", "group">>,
   netif  |-> <<"driver", "phy", "mac", "spi", "group">>,
   glue   |-> <<"netif", "driver", "phy", "mac", "spi", "group">>,
   attach |-> Attached,
   onEth  |-> Attached,
   onIp   |-> Attached \o <<"onEth">>,
   onIp6  |-> Attached \o <<"onIp", "onEth">>,
   start  |-> Attached \o <<"onIp6", "onIp", "onEth">>,
   lease  |-> <<"start">> \o Attached \o <<"onIp6", "onIp", "onEth">>]

Undo ==
  [group  |-> <<>>,
   spi    |-> <<"group">>,
   mac    |-> <<"spi", "group">>,
   phy    |-> <<"mac", "spi", "group">>,
   driver |-> <<"phy", "mac", "spi", "group">>,
   netif  |-> <<"driver", "phy", "mac", "spi", "group">>,
   glue   |-> <<"netif", "driver", "phy", "mac", "spi", "group">>,
   attach |-> Attached,
   onEth  |-> Attached,
   onIp   |-> <<"onEth">> \o Attached,
   onIp6  |-> <<"onIp", "onEth">> \o Attached,
   start  |-> <<"onIp6", "onIp", "onEth">> \o Attached,
   lease  |-> <<"start", "onIp6", "onIp", "onEth">> \o Attached]

\* Failures reported as ESP_ERR_NO_MEM or ESP_FAIL.
FixedError == {"group", "mac", "phy", "netif", "glue"}

\* app_main after eth_w5500_init.
MainSteps == <<"mdns", "rcp", "thread", "detector", "dataset", "routing", "mutexes", "timer",
               "accept", "listen", "rx", "watchdog", "led", "button", "monitor">>

\* Failures app_main logs or ignores, and those frame_tcp_init returns with;
\* ESP_ERROR_CHECK restarts the device after any other.
Tolerated == {"detector", "dataset", "routing", "monitor"}
Transport == {"mutexes", "timer", "accept", "listen", "rx", "watchdog"}

BootInit ==
  /\ at = "eth" /\ step = 1
  /\ held = {} /\ undo = <<>>
  /\ lan = FALSE /\ running = {}
  /\ boots = 1

-----------------------------------------------------------------------------

EthDone ==
  /\ at = "eth"
  /\ held' = held \cup ({EthSteps[step]} \ {"attach", "lease"})
  /\ IF EthSteps[step] = "lease"
     THEN at' = "main" /\ step' = 1 /\ lan' = TRUE
     ELSE step' = step + 1 /\ UNCHANGED <<at, lan>>
  /\ UNCHANGED <<undo, running, boots>>

EthFails ==
  /\ at = "eth"
  /\ at' = "undo"
  /\ undo' = Undo[EthSteps[step]]
  /\ UNCHANGED <<step, held, lan, running, boots>>

Release ==
  /\ at = "undo" /\ undo # <<>>
  /\ held' = held \ {Head(undo)}
  /\ undo' = Tail(undo)
  /\ UNCHANGED <<at, step, lan, running, boots>>

\* ESP_ERR_TIMEOUT, which driver calls may give too, restarts the device;
\* any other failure leaves it without a backbone.
EthReturns ==
  /\ at = "undo" /\ undo = <<>>
  /\ \/ EthSteps[step] \notin FixedError /\ at' = "off" /\ UNCHANGED step
     \/ EthSteps[step] # "lease" /\ at' = "main" /\ step' = 1
  /\ UNCHANGED <<held, undo, lan, running, boots>>

MainGoesOn ==
  IF step < Len(MainSteps) THEN step' = step + 1 /\ UNCHANGED at ELSE at' = "up" /\ UNCHANGED step

MainDone ==
  /\ at = "main"
  /\ MainSteps[step] = "routing" => lan
  /\ running' = running \cup {MainSteps[step]}
  /\ MainGoesOn
  /\ UNCHANGED <<held, undo, lan, boots>>

MainFails ==
  /\ at = "main"
  /\ IF MainSteps[step] \in Tolerated THEN MainGoesOn
     ELSE at' = (IF MainSteps[step] \in Transport THEN "dead" ELSE "off") /\ UNCHANGED step
  /\ running' = running \ (IF MainSteps[step] = "listen" THEN {"accept"} ELSE {})
  /\ UNCHANGED <<held, undo, lan, boots>>

\* Someone can be answered.
Answering == lan /\ {"listen", "rx"} \subseteq running

\* Mutant: the watchdog waits for a client first.
WatchdogNeedsLan ==
  /\ "watchdog" \in running /\ at \in {"main", "up"}
  /\ lan
  /\ at' = "off"
  /\ UNCHANGED <<step, held, undo, lan, running, boots>>

\* Nobody sends STATE to a device that cannot be reached, and nobody need
\* send it to another one.
WatchdogRestarts ==
  /\ "watchdog" \in running /\ at \in {"main", "up"}
  /\ at' = "off"
  /\ UNCHANGED <<step, held, undo, lan, running, boots>>

Restart ==
  /\ at = "off" /\ boots < MaxBoots
  /\ at' = "eth" /\ step' = 1
  /\ held' = {} /\ undo' = <<>>
  /\ lan' = FALSE /\ running' = {}
  /\ boots' = boots + 1

BootNext ==
  \/ EthDone \/ EthFails \/ Release \/ EthReturns
  \/ MainDone \/ MainFails \/ WatchdogRestarts \/ Restart

BootSpec == BootInit /\ [][BootNext]_bootVars

\* app_main goes on, and the watchdog's time comes where nobody sends STATE.
BootFairness ==
  /\ WF_bootVars(EthDone \/ EthFails \/ Release \/ EthReturns \/ MainDone \/ MainFails)
  /\ WF_bootVars(WatchdogRestarts /\ ~ Answering)

BootFairSpec == BootSpec /\ BootFairness

-----------------------------------------------------------------------------
(***************************************************************************)
(* Properties.                                                             *)
(***************************************************************************)

\* What must still be there while a resource is: a handler may run as long
\* as it is registered, the driver uses the bus until it is uninstalled.
Needs ==
  [group |-> {}, spi |-> {}, mac |-> {"spi"}, phy |-> {}, driver |-> {"mac", "phy", "spi"},
   netif |-> {}, glue |-> {"driver", "netif"}, onEth |-> {"netif"},
   onIp |-> {"group"}, onIp6 |-> {"group", "netif"}, start |-> {"driver"}]

\* Whichever step fails, each thing acquired is released once, nothing while
\* something else still uses it, and nothing is left when the call returns.
UnwoundInOrder ==
  /\ \A r \in held : Needs[r] \subseteq held
  /\ at = "undo" /\ undo # <<>> => Head(undo) \in held
  /\ at = "undo" /\ undo = <<>> => held = {}

\* A device whose Ethernet failed does not stay up unreachable: it restarts,
\* or app_main gave up when the transport failed to start, as nothing then
\* watches it.
UnreachableRestarts ==
  (at = "main" /\ ~ lan) ~> (at \in {"off", "dead"})
=============================================================================
