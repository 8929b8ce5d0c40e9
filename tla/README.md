# Namorix Weave: a TLA+ model

Namorix Weave manages Thread border routers. A backend (C#, ASP.NET) finds
ESP32 border routers by mDNS, holds one TCP connection to each, polls them and
sends them commands; the border router's firmware (C, FreeRTOS, OpenThread)
executes commands and pushes notifications; a dashboard (TypeScript) shows what
the backend knows. These modules model the parts in which several threads,
tasks or machines meet, TLC checks them on small instances, and TLAPS proves
the most important invariants for every value of the constants.

Paths below are relative to `src/`; `B/` is `backend/src`, `F/` is
`firmware/border-router-host`. `PROJECT.json` maps every definition to its lines.

## 1. The system

| Component | State | Operations | Met by |
|---|---|---|---|
| Request path: `B/BorderRouter/{BrTcpClient,PendingFrameStore,BrCommandClient}.cs` | the next frame id, the table of open requests, the write lock, the socket | request, send, dispatch, timeout, reconnect, fail all | poll loop, connect handler, NOTIFY handler, HTTP threads; the border router |
| Connection management: `B/Services/BorderRouter/BrConnectionService.cs`, `B/BorderRouter/BrMdnsBrowser.cs` | known instances, clients, `ActiveBr` entries | found, lost, connected, disconnected, NOTIFY, poll, accept, reject | mDNS threads, run loops, poll timer, HTTP threads |
| Provisioning: `B/Services/BorderRouter/BrProvisioningService.cs`, `B/Models`, `B/Persistence` | the `Networks` table | register, create pending, accept, reject, mark offline | the handlers above |
| Frame transport: `F/main/transport/frame_tcp.c` | the client descriptor, the send buffer and its mutex, the pending IP answer, the STATE flag | accept, receive, send, retry, watchdog | accept, RX, detector, timer and watchdog tasks, on two cores |
| Change detector: `F/main/openthread/ot_change_detector.c` | armed flag, debounce timer, previous snapshot | state changed, debounce, snapshot, diff, push | OpenThread, timer and detector tasks |
| Commands: `F/main/command/command.c` | two deferred timers, caches; OpenThread's dataset, interface and Thread state; NVS | 20 handlers, deferred reset, factory reset | RX and timer tasks, boot button, OpenThread task |
| Boot and hardware: `F/main/main.c`, `openthread/dataset_init.c`, `hardware/*`, `rcp/*`, `backhaul/*`, `console/*` | hold counter, LED state | start-up order, button, LED, Ethernet events | FreeRTOS tasks |
| Frame codecs: `B/BorderRouter/Frame/*`, `F/include/frame/frame.h`, parser in `frame_tcp.c` | receive buffers | encode, parse, resynchronise, CRC | both ends of the socket |
| Payload parsers: `B/BorderRouter/{Parsers,Dtos,Models}` | none | TLV walks | connection management |
| REST, SignalR: `B/Controllers`, `B/Hubs` | hub groups | accept, reject, queries, pushes | dashboard |
| Dashboard: `frontend/src` | the network slice | load, push, select | REST, SignalR |
| RCP firmware, start-up wiring, migrations | none of interest | | |

The hard behaviours: requests race for 256 frame ids without a lock; the two
ends number frames independently; handlers hold what they read across awaits
while the poll loop, disconnects, accepts and the mDNS threads change it; a
socket number may be handed on in the middle of a frame; counters and flags are
shared by tasks on two cores with no lock; restarts, by the watchdog, a command
or a person, fall between any two steps. `PROJECT.json` lists each hazard at
its line with the properties that watch it.

## 2. Modules

| Module | Models | Properties |
|---|---|---|
| `RequestReply` | what the request path promises its callers | (abstract) |
| `BrTransport` | the request path, with the border router as the peer | below, 4.1 |
| `BrTransportProofs`, `BrTransportRefinement` | theorems about `BrTransport`, and that it implements `RequestReply` | 5 |
| `NetworkLifecycle` | what the backend promises about a network's status | (abstract) |
| `BrConnection` | mDNS browser, connection service and provisioning together | 4.2 |
| `FrameTcp` | sockets and sends in `frame_tcp.c` | 4.3 |
| `BrLink` | IP retry timer and STATE watchdog in `frame_tcp.c` | 4.4 |
| `ChangeDetector` | `ot_change_detector.c` | 4.6 |
| `Command` | `command.c`, with the boot button and the dataset made at boot | 4.5 |
| `FrameStream` | the two frame parsers over a stream of bytes | 4.6 |
| `Boot` | `app_main` and `eth_w5500_init`, with a failure at any step | 4.6 |
| `Keepalive` | the poll loop against one watchdog, in seconds | 4.6 |
| `Dashboard` (extends `ChangeDetector`) | a change on its way from the detector over the backend to a page | 4.7 |
| `Health` | the BR_HEALTH payload, built and parsed | 4.8 |
| `BrConnectionProofs`, `FrameTcpProofs`, `BrLinkProofs`, `CommandProofs`, `FrameStreamProofs` | theorems about these five | 5 |
| `PartsProofs` | theorems about `Boot`, `Keepalive` and `ChangeDetector` | 5 |
| `MC*` | model values for TLC; `MCParts` runs four components that share nothing | |

Conventions. One action is what one thread does between two points at which
another can change what it uses: an await, a lock, an unsynchronised access to
a shared variable. A variable named `pc`, `at` or a record's field `at` is the
point a thread has reached. Where two reads and writes cannot be told apart by
any other thread they are one step; these merges are named in section 6. A
definition marked "Mutant" just above another is the same action with a
plausible bug; no specification uses it.

### 2.1 BrTransport

A request is one call of `BrTcpClient.RequestAsync`. `NextIdLoad`, `NextIdStore`,
`NextIdProbe`, `NextIdReturn` are the four accesses of `PendingFrameStore.NextId`
to `_nextId`; `Register` is `TryAdd`, `ArmTimeout` the `CancelAfter` after it;
`AcquireLock`, `Write` and `WriteFails` are `SendFrameAsync`; `TimeoutFires` and
`TimeoutCallback` separate the timer from its callback, which knows the id and
not the entry; `Connect`, `Dispatch`, `CloseConnection`, `SnapshotPending`,
`FailOne` and `Disconnected` are the run loop. Closing a connection drops
the frames in flight on it. The border router executes, answers, repeats an
unconfirmed IP answer and pushes notifications under ids of its own.

### 2.2 BrConnection

Connections are numbered, and a number stands also for the handler call the
connection started and for the `ActiveBr` object that call makes, so "the entry
of the instance is no longer mine" can be expressed. mDNS events are a set,
since they are raised outside the browser's lock and may overtake each other.
The database row of a network moves among absent, pending, connected, rejected
and offline; reads and saves are separate steps. `shown` is the last
`NotifyConnectionChanged` pushed for a network, `told` whether live data was.

### 2.3 FrameTcp, BrLink

`FrameTcp` numbers descriptors and reuses them as lwIP does. A frame leaves in
pieces because `send` may be short. A peer may close or stop reading at any
time. `BrLink` models each access to `s_pending_ip_frame_id`,
`s_ip_retry_count`, `s_state_received` and the timer as a step. The two share
no variable but the socket, which `BrLink` abstracts (a repeat is counted when
it is attempted).

### 2.4 ChangeDetector

An aspect is what one bit of the changed mask stands for. `world` is
OpenThread's state, `prev` the snapshot, `known` what the backend was last
told. The push and the advance of `s_prev` are one step when the frame is sent
(`Push`) and one when it is not (`PushFails`): the code advances in both cases.

### 2.5 Command

Commands are handled by kind: `set` (all five SET_* commands, through
`handle_dataset_set`), `start`, `stop`, `reset`, `factory`, `joiner`, `read`
(handlers that look at OpenThread under the lock) and `plain` (answered without
it). Each call under the lock is a step. The timer task runs the deferred reset
and factory reset one after the other, the boot button's task its own factory
reset, and OpenThread may change or save the dataset whenever the lock is free.

### 2.6 FrameStream

A byte is a number that remembers which frame it was sent in and where. A frame
is a start byte, a length, data, a check and an end byte; the frame id, the
command and the high byte of the length would only make it longer. `end` says
who receives. The border router (`rx_append`, `rx_parse_and_dispatch`) has a
buffer of one largest frame, which outlives its client; the backend
(`FrameCodec.TryParseNext`) has an unbounded one, which it clears when the connection
ends. Both ends may give up a frame in the middle (`SendShort`) and go on with the
next one on the same connection: `frame_send` when the socket takes nothing for too
long, the backend when the caller of a request cancels it during
`WriteAsync(encoded, ct)` (`BrTcpClient.cs:50`). Both parsers are the same steps:
`Drop` a byte, `Dispatch` a frame, or wait. Data and check bytes may equal the start
byte or look like a length.

### 2.7 Boot

`EthDone` and `EthFails` are the thirteen steps of `eth_w5500_init`; `Undo` is what
each failure branch releases, line by line, and `Release` takes one off that
list. `MainDone` and `MainFails` are the steps of `app_main` after it, in the three
ways the code takes a failure: it goes on, it returns, or `ESP_ERROR_CHECK`
restarts the device.

### 2.8 Keepalive

One watched border router that answers, `Before` and `After` silent ones that come
earlier and later in a round. A visit to a silent one takes up to two request
timeouts (STATE and, every third poll, BR_HEALTH). `PeriodicTimer` keeps one
missed tick at most, so a round that took too long is followed by another at
once. `received` and `miss` are the watchdog's, which looks every `Interval`.

### 2.9 Dashboard

`Dashboard` composes the change detector with the backend's handling of its
NOTIFY and with the page. `row` is the network's Status in the table, `entry` that of
its `ActiveBr`, which lags behind until a poll reads the row (`PollTakes`,
`PollAssigns`). The connection may go at any time (`Lose`): a Connected entry is
reported, one still Pending goes silently and leaves the row Connected, so that the
border router comes back as Connected without a push (`Return`). `Notify` is a
NOTIFY the backend handles, `NotifySwallowed` one that `Dispatch` takes for the answer
to an open command (4.1), whose caller then fails. `untold` holds the loads with
news of which the backend pushed nothing since. `gate` holds the `HandleNotifyAsync` calls that wait for `_notifyGate`; `events` are
in order, as one SignalR connection delivers them. A load is a fetch of
`useOtbrData`: it asks for its aspects one after the other, reads what OpenThread
has at that moment, and its answer replaces what the store has (`LoadEnds`). The
page opens, loads and joins its group in any order.

### 2.10 Health

`PutTlv` is `tlv_put` with the buffer, offset and capacity the handler gives it;
`ReadTlv` is one turn of `BrHealthParser`'s loop.

## 3. Fairness

* `BrTransport`: steps a running thread takes (id search, registration,
  arming, lock, write or its failure, completion) and timers. Not: an answer,
  a connection, a cancellation.
* `BrConnection`: delivery of raised events, handlers past the awaits that
  depend on the border router, the poll loop. Not: an answer of a border router,
  announcements, decisions. The database answers.
* `FrameTcp`, `BrLink`, `ChangeDetector`, `Command`: every FreeRTOS task runs
  and every timer fires. Not: a peer, a command, a change of the network. In
  `FrameTcp` this is weak fairness of a sender's own step, which needs no luck
  with the mutex because `SendTimesOut` is enabled while another task holds it.
  `Command` is fair to a handler as a whole: OpenThread's lock may be busy each
  time, then the handler takes the timeout.
* `Boot`: the boot goes on, each step succeeding or failing, and the watchdog's
  time comes where no client can reach the device.
* `Dashboard`: the detector's tasks, the backend's handlers and its poll, the page's
  loads and events go on. A load may fail at any command. Not: a change of the
  network, the loss of the connection or its return, the page joining.

Only weak fairness is used. `CHECK_DEADLOCK FALSE` in every cfg: calls,
connections, commands and changes are bounded, and when they are used up the
system rests.

## 4. Runs

Every bound is a constant with "bound:" in its comment.

### 4.1 BrTransport

* `BrTransport`: two calls, one of them the IP handshake, three ids, two
  connections, one notification, one repeat. Three ids let the id wrap while an
  answer is on its way. `PendingIsOpen` and `NoLostWaiter` say the table and
  the tasks agree in spite of the unsynchronised `NextId`: `TryAdd` makes the
  loser of a race throw, never share. `AtMostOnce` and `MisdeliveryNeedsReuse`
  bound what late, repeated and stale answers can do. (That a finished task
  keeps its outcome needs no property: `TrySetResult` and `TrySetException` see
  to it, and so does `TrySet`.)
  `KeepsPromise`: as long as no two requests shared an id, every step is one of
  `RequestReply` or a stutter. Under a shared id an answer may reach the wrong
  call; the promise is then off.
* `BrTransportLive`: every call returns and every id comes back, as long as the
  write of a frame ends (section 6). Two ids and one
  connection make waiting for ids and sending without a connection happen.
* `BrTransportNotify` (violation): `Dispatch` does not look at the command, so a
  NOTIFY whose own id equals that of an open request completes the request. Two
  callers and three ids make it a few steps; with 256 ids it takes the backend's
  counter reaching 0x80.

### 4.2 BrConnection

* `BrConnection`: one instance announced twice, two clients, two connections,
  one decision, one restart of the backend. Two of each is what the hazards
  need: a successor that meets what its predecessor left. `OnlyDecidedPushed`
  is about what the backend pushes. The REST snapshots (`NetworkController.cs:63`,
  `BrConnectionService.cs:256`) look at no Status: a page that opens a pending
  network is told its connection state and live data, which no text of the
  repository forbids. `OneClientPerInstance` counts the clients that were not
  disposed. One that is disposed between its entry in the table and its `Start`
  (`"orphan"`) goes on to connect beside the one in the table; the property does
  not cover it. `KeepsLifecycle` has Offline as an end, which is what the code makes
  of it, and allows a row that a stop of the backend left Connected.
* `BrConnectionLive`: one client, two connections. Liveness of an accept up to
  the dashboard and of a loss down to the row.
* `BrConnectionReject` (violation): two administrators; an accept that read the
  row before a reject was saved overwrites it.

### 4.3 FrameTcp

Two connections, two descriptors (one is reused at once), the RX task and one
other sender, frames of two pieces. `FramesWhole` allows exactly one defect the
code has: the tail of a frame begun on an older connection can be the first
thing on a new one, when its descriptor number is given out again in the
middle of a frame; the receiver's resynchronisation drops it.

### 4.4 BrLink

Three IP requests, two STATE commands, one restart, two repeats. Three requests
give one that is neighbour to two others. `RetriesBounded` states what the
unlocked counter costs: one repeat more per neighbouring request.
`AnswerIsRepeated` states what the retry is for, and for how much of it: the first
answer is repeated to the end, except under frame id 0xFF, which is also
`IP_PENDING_NONE` (`frame_tcp.h` makes no such exception). For a later answer it
does not hold: a callback that began under an earlier mark can wipe it or use up
its count.

### 4.5 Command

Two commands of any kind, a network change, a press of the button and every
restart these lead to. A `set` and a change by the network are the lost-update
pair; a `start` or `stop` and a deferred reset the two tasks that disagree
about Thread; a factory reset and a network change the write-back that
`command_factory_reset`'s comment is about. `DeferredRestarts` says that an
acknowledged reset happens although the graceful shutdown may not get the
lock. When both a RESET and a FACTORY are due, the first restart takes the
other's timer with it.

### 4.6 Parts

Four components that share nothing are checked in one run: `part` says which of
them moves.

* `FrameStream`: three frames of up to three data bytes, reads of up to three
  bytes, connections lost and frames given up, at either end, at every byte. `NothingSkipped`: no
  whole frame is skipped, though a cut-off one lies before it and its bytes look
  like starts and lengths. `HeldBackByRemains`: a frame that has arrived waits only
  if a cut-off frame lies before it, and `HoldsLessThanAFrame`: not for longer than
  one frame's length. So the first command on a new connection may wait for
  the next one, behind what the last connection left; it is not lost, and the
  branch of `rx_append` that drops the oldest byte is never taken.
* `Boot`: two boots, a failure at every step. `UnwoundInOrder`: whatever fails, each
  thing is released once, none before what uses it. `UnreachableRestarts`: a device
  without a network is restarted by its watchdog, unless the transport did not
  start either: `app_main` then returns and nothing watches the device.
* `Keepalive`: one silent border router on each side, in whole seconds, every phase
  of the two timers. `KeptAlive` has the condition under which an answering border
  router is safe: a round and a wait shorter than the watchdog's patience. With
  the numbers of `appsettings.json` and `frame_tcp.c` -- 5 s, 4 s, 5 times 15 s, so
  5 + 8 S < 75 -- that is up to 8 silent border routers; from the ninth on
  they can have the others restarted. The run's numbers take 10 of 12 seconds
  (2 + 2 * 4), so that one attempt more in a visit breaks it.
* `ChangeDetector`: four changes of two aspects. `PrevIsKnown` and `ChangesReported`
  name the two ways in which the code does lose a change: a failed push, after
  which the snapshot advances all the same, and a lock timeout, after which
  nothing wakes the task until the next change. Reported means sent; what the
  backend makes of it is `Dashboard`.

### 4.7 Dashboard

One aspect with two values, two changes (there and back), two loads at a time,
a loss of the connection before the accept is taken over and one after it. The page
shows the last answer to arrive, so `ViewCatchesUp` has to name what can leave it
behind:

* a NOTIFY that was not sent, or a snapshot that was skipped (`owed`, `skipped`);
* news the backend pushed nothing of (`untold`): a NOTIFY that an open request
  swallowed, one that came while the border router was being registered again, and
  what happened around the silent loss of an entry that was not Connected yet;
* events pushed before the page had joined its group (`missed`);
* an answer that arrived after a newer one (`overtaken`).

Apart from these a change reaches the page, or the page shows that it has no data.
(A NOTIFY dropped while the entry is Pending is no excuse: the poll makes up for it.)
`LossIsShown`: a lost border router ends up shown as not connected although
the poll may push online after the loss was pushed -- the load that push starts
fails, and its failure says so. It has the exceptions `missed`, `overtaken` and
`untold`. The last is the case where the connection goes between the accept and the
poll that takes it over: a page that loaded before was told "connected", because the
snapshots look at no Status; the loss is pushed to nobody, and the page stays on it
until something else makes it load. The row stays Connected too. No text of the
repository says otherwise, so this is a hazard in `PROJECT.json` and not a finding.
A border router that comes back after a reported loss stays Offline in the table
(4.2), and nothing is pushed of it; that is where the model ends.

### 4.8 Health

(violation) One task, a prefix of four bytes. `tlv_put` gets the start of the
buffer and an offset that starts at 0, so the first TLVs overwrite the counters, and
the bytes at the end of the payload were never written.

## 5. Proofs

Each theorem holds for every value of the constants that the module's
assumption allows; nothing is assumed about the schedule. Every proof module
has an inductive invariant (`IInv`, `RInv`, or a named one), which it proves by lemmas
of the form "a step keeps this part", and draws the rest from it.

| Module | Theorem | States |
|---|---|---|
| `BrTransportProofs` | `TypeCorrect` | `TypeOK` |
| | `TableIsOpen` | `PendingIsOpen` |
| | `NobodyStranded` | `NoLostWaiter` |
| | `ExecutedOnce` | `AtMostOnce` |
| | `Misdelivery` | `MisdeliveryNeedsReuse` |
| `BrTransportRefinement` | `PromiseKept` | `KeepsPromise` |
| `BrConnectionProofs` | `TypeCorrect` | `TypeOK` |
| | `OneClient` | `OneClientPerInstance` |
| | `DecidedFirst` | `OnlyDecidedPushed` |
| | `LifecycleKept` | `KeepsLifecycle`, for one administrator |
| `FrameTcpProofs` | `TypeCorrect` | `TypeOK` |
| | `SocketsAccountedFor` | `NoSocketLeak` |
| | `FramesStayWhole` | `FramesWhole` |
| `BrLinkProofs` | `TypeCorrect` | `TypeOK` |
| | `BoundedRetries` | `RetriesBounded` |
| | `ConfirmedIsOver` | `ConfirmedIsNotPending` |
| | `PatientWatchdog` | `WatchdogIsPatient` |
| `CommandProofs` | `TypeCorrect` | `TypeOK` |
| | `OneAnswer` | `AnsweredOnce` |
| | `ThreadOverIp6` | `ThreadNeedsIp6` |
| | `OneFieldIsSet` | `SetKeepsOthers` |
| | `ErasedForGood` | `ErasedStaysErased` |
| `FrameStreamProofs` | `NeverFull` | `HoldsLessThanAFrame` |
| | `OnlyRemainsHoldBack` | `HeldBackByRemains` |
| | `NextFrameIsFound` | `NothingSkipped` |
| `PartsProofs` | `UnwindingIsOrderly` | `UnwoundInOrder` |
| | `AnsweringIsKept` | `KeptAlive` |
| | `DetectorTypes` | `TypeOK` of `ChangeDetector` |
| | `ArmedIsTimed` | `ArmedMeansTimer` |
| | `ComparedWithKnown` | `PrevIsKnown` |

### 5.1 BrTransportProofs

`IInv` conjoins the type invariant, `PendingIsOpen` and `NoLostWaiter` with

* `Fresh`: a call that has not registered has no task and no timer, and while it
  looks for an id it has iterations left;
* `Answered`: the frame that completed a task carried that task's id;
* `WireOwned`: a frame on the wire that belongs to a request carries the id the
  request got, and `FromBrKinds`: what kinds come from the border router;
* `SentOnce`: a request's command is on the wire or was executed, at most one of
  these, and neither before it is written.

`Misdelivery` follows from `Answered` and `WireOwned`; `ExecutedOnce` from
`SentOnce`. `FirstOutcome`: what the table holds is open (`PendingIsOpen`), so the
outcome an answer or a failure brings is the first, and `TrySet` sets it.

### 5.2 FrameTcpProofs

`NoSocketLeak` is inductive with the types. `FramesWhole` is not: it needs that one
task writes at a time (`MutexIsHeld`), that a task in the middle of a frame wrote
the last piece of the connection its descriptor now stands for, or nothing was
written to that connection yet (`Continues`), and, since the descriptor may pass
to a new connection, that nothing is written to a connection before it is
accepted (`NewIsEmpty`). `HoldsFd` keeps descriptors in their range.

### 5.3 BrConnectionProofs

Every actor acts on what it read some steps ago, so `IInv` says of each thing one of
them may remember what it is still worth:

* `FreshClients`: a client has a state, or a connection, only after it was made; with
  it and the types `OneClientPerInstance` is inductive;
* `HandlersMade`, `EntriesSeen`: a handler, an `ActiveBr` entry and what the poll loop
  has taken from the entries belong to a connection that was made, and its network has
  a row, which never goes away;
* `ConnectedWasAccepted`: whoever remembers a network as Connected -- an entry, a
  `MarkOffline` under way, a NOTIFY behind its gate, the poll loop -- remembers one
  whose row has been Connected at some time, and so is now Connected or Offline, or
  Rejected by a second administrator (`Later`);
* `PushedWasAccepted`: the same of what the dashboards were shown;
* `DecidesPending`: a lone administrator who read a pending row still finds it pending;
* `AnnouncedFirst`: what the browser knows was announced.

`OnlyDecidedPushed` follows from `PushedWasAccepted`. It is not inductive alone: a push goes
out on what the poll loop or a NOTIFY read before, which the row has to back.
`LifecycleKept` is a refinement: with `ConnectedWasAccepted` and `DecidesPending` each
step is one of `NetworkLifecycle` or a stutter. It assumes `OneAdmin`, and needs to:
run `BrConnectionReject` shows a second administrator leave the lifecycle. `OneClient` and
`DecidedFirst` hold for any number of administrators.

### 5.4 CommandProofs

`IInv` adds `LockIsHeld` (which steps a task takes while it holds OpenThread's
lock), `AnswerDue` (a running command is unanswered, an ended one answered once),
`StoppedIsOff` (between the two calls of a stop Thread is off, so that the
interface goes down under a stopped Thread), `CopyIsCurrent` (what SET_* read is
still the dataset when it writes it back, because it never lets go of the lock)
and `ErasedIsClosed` (NVS is closed before it is erased, and stays so).
`OneFieldIsSet` follows from `CopyIsCurrent`, `ErasedForGood` from `ErasedIsClosed`.

### 5.5 BrTransportRefinement

The request path implements `RequestReply` as long as no frame id is shared. The
abstract state is a function of the concrete one, and `RInv` (theorem `Backing`) is
what makes each step legal there. It adds to `IInv`

* `AnswersBacked`: a frame that answers a request, on the wire, kept for a repeat or
  taken by a task, answers one that was executed, or refuses the confirm of one that
  has returned (`ConfirmsDone`: the confirm is the last thing a call sends);
* `KindKept`: a task has the outcome of the frame that completed it;
* `Returned`: a call has a result from its return on and not before.

The refinement is then one step per action (`CallRefines`, `StepRefines`): a call's
first step is `Call`, its last `Answer` or `Fail`, the border router's is `Execute`, and
every other action is a stutter.

### 5.6 BrLinkProofs

`ConfirmedWereAsked` keeps the confirmed ids among those that were asked, so that a
fresh request is not taken for a confirmed one; `ConfirmedIsNotPending` is inductive
with it. `MissIsQuiet` says that the watchdog never counts more misses than there
were quiet intervals; `PatientWatchdog` follows from the guard of the restart.

`RetriesBounded` needs to know whose repeats the shared counter counts (`RetryInv`).
For the request marked last, its repeats and the one the callback is about to send are
at most the counter, plus one if there was a request before (`LastCounted`): a callback
that began under the earlier mark may repeat the new id without counting it. For an
earlier one, they are at most `IpRetryMax`, plus one for each neighbour
(`EarlierCounted`): the callback may still hold its id when the next mark resets the
counter, and sends it once more at most, since it reads the id anew before each
repeat. `LastPends` says which ids the callback can hold at all, `NoneYet` that a
request starts with none. `Neighbours` turns "one for each side" into the
cardinality the property speaks of.

### 5.7 FrameStreamProofs

`NeverFull` needs three facts of the parser's branches: it stops only where less than
a frame is left, a dropped byte or a dispatched frame makes the buffer shorter, and an
append never adds more than there is room for. It holds for the backend's end as well,
whose buffer has no bound of its own.

`OnlyRemainsHoldBack` and `NextFrameIsFound` look at the `Line`, the bytes yet to be
parsed wherever they are: buffer, chunk and wire. `LineInv` says that the line is
what is left of the frames sent after the last one dispatched:

* `LineIsSound`: the frames follow one another and the bytes of each are in sequence
  (`Ordered`), a first byte is a start byte and a second one tells the length
  (`Genuine`), and a frame that is neither short nor torn is there from end to end
  (`Whole`);
* `Remains`: only the border router meets bytes of a connection before; frames that
  were given up may reach either end;
* `Idle`: between two reads the parser has nothing left to do.

The steps are a few operations on a sequence: moving bytes inside the line
(`MovesKeepLine`), taking some off its front (`CutsLine`, `CutIsSound`), putting a
frame or a part of one at its end (`SendsLine`), losing its end (`DisconnectsLine`).
What the parser takes off the front is then a whole frame or remains, because a whole
frame at the front passes every check of the parser (`FrontIsWhole`) and bytes of two
frames never do.

### 5.8 PartsProofs

*Boot.* `BootIInv` says what is held at each step of `eth_w5500_init`, and that the list
of what is left to undo names each held thing once and none before one that needs
it (`Releases`). That list is made by pushing one release in front of another's
(`Pushed`) and used up from the front (`Popped`); `UndoReleases` checks that for each of
the thirteen failure branches.

*Keepalive.* Time needs an invariant about both ends: `GapIsBounded` says that the time
since the last STATE (counted in misses and the running interval) and the time to the
next one (what is left of this visit, of this round, and of the wait for a tick) add
up to at most `LongestGap`. Each second moves one from the second to the first; a visit
to the watched border router resets the first and starts the second anew. With
`FewSilent` the first is then always below the watchdog's patience.

*ChangeDetector.* `ArmedMeansTimer` needs `OneDebounce`: the OpenThread task is not about
to start a timer that already runs. `PrevIsKnown` is inductive with the types.

### 5.9 Only model-checked

Every safety property of the passing runs is a theorem. What stays with TLC:

* liveness under fairness, which the prover does not reach: `IdsComeBack`,
  `EveryCallReturns`, `AcceptReachesDashboard`, `LossIsRecorded`, `ConnectionTakesOver`,
  `RxComesBack`, `HandshakeEnds`, `SilenceRestarts`, `AnswerIsRepeated`,
  `EveryCommandEnds`, `DeferredRestarts`, `UnreachableRestarts`, `ChangesReported`, and both
  properties of `Dashboard`;
* that the three violations are violations.

## 6. Abstractions

* Frames are records everywhere but in `FrameStream`, where a checksum is taken to
  refuse whatever is not a frame as it was sent.
* `BrTransport`: `TryRemove` and the dispose after it are one step, since
  nothing else can reach a removed entry. The write of one frame is one step
  under `_writeLock` and always ends: a border router that stops reading would
  block it until TCP gives up. `WriteFails` leaves nothing on the connection; what
  half a frame does there is the subject of `FrameStream`.
* `BrConnection`: each client's run loop ends at a cancellation at its next
  await; a database failure is a handler that ends early; the pushes of the list of
  networks are left out.
* `BrLink`: the timer task handles one callback at a time, and `FrameTcp` and
  `BrLink` take the sends of each other as always possible.
* `Command`: OpenThread's answers are nondeterministic where the code checks
  them; an unchecked call does what its documentation says. `esp_restart` is one
  step with the boot after it.
* `Dashboard`: the five events of one NOTIFY are one; a loss, its push and the row's
  Offline are one step; a push does not fail (the code logs it and goes on); a page's
  own connection to the hub does not break; a border router is not accepted anew nor
  back after a reported loss; it answers a load with what OpenThread has, or not at
  all (the request path is `BrTransport`).
* `Boot`: an SDK call that fails has acquired nothing. `Keepalive`: an answer takes no
  time, and a write to a silent border router does not block (see the hazard at
  `BrTcpClient.cs:50`).
* Time is modelled in `Keepalive` only. Elsewhere a timeout may fire whenever its
  timer is armed, which covers every duration.

### Not modelled

* The components marked so in `PROJECT.json`, with the reason there.
* The LED's colours (it changes at every update, each 300 ms, and not every 1.2 s as
  `led_status.c:77` says: `tick` counts milliseconds and is divided as a number of
  updates), the console, the stack monitor, the pins of RCP and W5500.
* SRP_REGISTER's static buffers and the cached leader address: what a stale one does
  is decided inside OpenThread or by nobody (hazards at `command.c:707` and `:223`).
* The serialisation of tables and datasets, and the parsers of one fixed layout.
* The dashboard's list of networks, its views, the login and the migrations.

## 7. Plan

Done: the request path with its refinement, connection management, the frame
transport and its parsers, the change detector, the command handlers, the boot, the
poll loop's timing, the dashboard's view of one network, and the proofs of section 5.

1. The safety that the liveness properties of `Dashboard` rest on: what `missed` and
   `overtaken` record, as an invariant that relates the page to `world`.
2. The safety part of `DeferredRestarts`: an acknowledged reset keeps its timer, or the
   timer task's call, until the device restarts.
3. The list of networks of the dashboard, composed with `BrConnection`'s decisions.
