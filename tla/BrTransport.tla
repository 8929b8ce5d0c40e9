---------------------------- MODULE BrTransport ----------------------------
(***************************************************************************)
(* The request path between the backend and one border router:             *)
(* PendingFrameStore (frame ids and the table of open requests),           *)
(* BrTcpClient (run loop, write lock, dispatch), the IP-address handshake  *)
(* of BrCommandClient, and the border router as the peer that executes     *)
(* commands, answers, repeats the answer to an unconfirmed IP request and  *)
(* pushes NOTIFY frames under frame ids of its own.                        *)
(*                                                                         *)
(* A request r is one call of BrTcpClient.RequestAsync.  Calls come from   *)
(* the poll loop, the connect handler, the NOTIFY handler and HTTP         *)
(* requests, on different threads; pc[r] is the point call r has reached.  *)
(***************************************************************************)
EXTENDS Naturals, Sequences, FiniteSets

CONSTANTS
  Requests,        \* calls of RequestAsync
  IpRequests,      \* those that are GetIpAddrAsync
  NumIds,          \* size of the frame id space (256 in the code)
  FirstNotifyId,   \* where the border router's own counter starts (0x80)
  None,            \* no request, no frame
  MaxConcurrent,   \* bound: calls in progress at once
  MaxConnections,  \* bound: TCP connections made
  MaxNotifies,     \* bound: NOTIFY frames pushed
  IpRetryMax       \* IP_RETRY_MAX

ASSUME ConstantsAssumption ==
  /\ IpRequests \subseteq Requests
  /\ NumIds \in Nat \ {0}
  /\ FirstNotifyId \in 0 .. NumIds - 1
  /\ None \notin Requests
  /\ MaxConcurrent \in Nat
  /\ MaxConnections \in Nat
  /\ MaxNotifies \in Nat
  /\ IpRetryMax \in Nat

Ids == 0 .. NumIds - 1

VARIABLES
  nextId,     \* PendingFrameStore._nextId, shared and unsynchronised
  pending,    \* PendingFrameStore._pending: id -> the request registered there
  pc,         \* pc[r]: how far call r is
  tmp,        \* tmp[r]: value call r read from _nextId
  probes,     \* probes[r]: iterations of NextId's loop
  fid,        \* fid[r]: the frame id NextId returned
  task,       \* task[r]: the TaskCompletionSource of r
  answer,     \* answer[r]: the frame that completed the task
  result,     \* result[r]: what the caller saw
  timer,      \* timer[r]: "off", "armed", "fired" (callback in flight)
  sock,       \* sock[r]: the connection a sender captured
  lock,       \* _writeLock: its holder
  client,     \* _client: number of the connection, 0 for null
  connNo,     \* connections made so far
  loop,       \* RunLoopAsync: "down", "reading", "closing", "failing"
  failing,    \* ids FailAll still has to visit
  toBr,       \* frames on the wire to the border router
  fromBr,     \* frames on the wire from the border router
  runs,       \* runs[r]: times the border router executed request r
  brIp,       \* the unconfirmed IP answer (s_pending_ip_frame_id)
  brRetry,    \* s_ip_retry_count
  brNotify,   \* s_notify_frame_id
  notified    \* NOTIFY frames pushed so far

storeVars == <<nextId, pending>>
callVars  == <<pc, tmp, probes, fid, sock>>
taskVars  == <<task, answer, timer>>
linkVars  == <<client, connNo, loop, failing>>
wireVars  == <<toBr, fromBr>>
brVars    == <<runs, brIp, brRetry, brNotify, notified>>

vars == <<storeVars, callVars, taskVars, result, lock, linkVars, wireVars, brVars>>

Command(r)    == [id |-> fid[r], req |-> r, kind |-> "command"]
Confirm(r)    == [id |-> answer[r].id, req |-> r, kind |-> "confirm"]
Notification  == [id |-> brNotify, req |-> None, kind |-> "notify"]

\* Mutant: the border router answers under the id of the IP handshake.
ReplyUnderIpId(f, kind) == [id |-> brIp.id, req |-> f.req, kind |-> kind]

Reply(f, kind) == [id |-> f.id, req |-> f.req, kind |-> kind]

Frames == [id : Ids, req : Requests \cup {None},
           kind : {"command", "confirm", "ack", "nack", "notify"}]

\* IP_PENDING_NONE: the last frame id doubles as "nothing pending".
NoIp == [id |-> NumIds - 1, req |-> None, kind |-> "ack"]

Active == {r \in Requests : pc[r] \notin {"idle", "done"}}

ASSUME NoneIsNoFrame == None \notin Frames

\* Steps after which r's frame id is settled.
Issued == {"register", "arm", "lock", "write", "await", "confirmLock", "confirmWrite", "done"}

Steps == {"idle", "load", "store", "probe", "return"} \cup Issued

TaskStates == {"none", "open", "ack", "nack", "notify", "timeout", "lost"}

Results == {"none", "ok", "nack", "unexpected", "timeout", "lost", "notConnected",
            "sendError", "duplicate", "noFreeId", "disposed", "cancelled"}

StoreType ==
  /\ nextId \in Ids
  /\ pending \in [Ids -> Requests \cup {None}]

CallType ==
  /\ pc \in [Requests -> Steps]
  /\ tmp \in [Requests -> Ids]
  /\ probes \in [Requests -> 0 .. NumIds]
  /\ fid \in [Requests -> Ids]
  /\ sock \in [Requests -> Nat]

TaskType ==
  /\ task \in [Requests -> TaskStates]
  /\ answer \in [Requests -> Frames \cup {None}]
  /\ timer \in [Requests -> {"off", "armed", "fired"}]

ReturnType ==
  /\ result \in [Requests -> Results]
  /\ lock \in Requests \cup {None}

LinkType ==
  /\ client \in Nat
  /\ connNo \in Nat
  /\ loop \in {"down", "reading", "closing", "failing"}
  /\ failing \subseteq Ids

WireType ==
  /\ toBr \in Seq(Frames)
  /\ fromBr \in Seq(Frames)

BrType ==
  /\ runs \in [Requests -> Nat]
  /\ brIp \in Frames
  /\ brRetry \in Nat
  /\ brNotify \in Ids
  /\ notified \in Nat

TypeOK ==
  StoreType /\ CallType /\ TaskType /\ ReturnType /\ LinkType /\ WireType /\ BrType

Init ==
  /\ nextId = 0
  /\ pending = [i \in Ids |-> None]
  /\ pc = [r \in Requests |-> "idle"]
  /\ tmp = [r \in Requests |-> 0]
  /\ probes = [r \in Requests |-> 0]
  /\ fid = [r \in Requests |-> 0]
  /\ task = [r \in Requests |-> "none"]
  /\ answer = [r \in Requests |-> None]
  /\ result = [r \in Requests |-> "none"]
  /\ timer = [r \in Requests |-> "off"]
  /\ sock = [r \in Requests |-> 0]
  /\ lock = None
  /\ client = 0
  /\ connNo = 0
  /\ loop = "down"
  /\ failing = {}
  /\ toBr = <<>>
  /\ fromBr = <<>>
  /\ runs = [r \in Requests |-> 0]
  /\ brIp = NoIp
  /\ brRetry = 0
  /\ brNotify = FirstNotifyId
  /\ notified = 0

-----------------------------------------------------------------------------
(***************************************************************************)
(* PendingFrameStore.                                                      *)
(***************************************************************************)

Finish(r, what) ==
  /\ pc' = [pc EXCEPT ![r] = "done"]
  /\ result' = [result EXCEPT ![r] = what]

Goto(r, step) ==
  /\ pc' = [pc EXCEPT ![r] = step]
  /\ UNCHANGED result

\* TrySetResult, TrySetException: a task keeps its first outcome.
TrySet(r, outcome) == [task EXCEPT ![r] = IF @ = "open" THEN outcome ELSE @]

\* TryRemove of whatever entry is registered under id i: its task gets the
\* outcome and its timer is disposed (a callback already running is not).
Settle(i, outcome) ==
  LET r == pending[i] IN
  /\ pending' = [pending EXCEPT ![i] = None]
  /\ task' = TrySet(r, outcome)
  /\ timer' = [timer EXCEPT ![r] = IF @ = "armed" THEN "off" ELSE @]

\* NextId is three unsynchronised accesses to _nextId per iteration: the
\* increment's read and write, the ContainsKey probe, and the return.
NextIdLoad(r) ==
  /\ \/ pc[r] = "idle" /\ Cardinality(Active) < MaxConcurrent
     \/ pc[r] = "load"
  /\ tmp' = [tmp EXCEPT ![r] = nextId]
  /\ Goto(r, "store")
  /\ UNCHANGED <<storeVars, probes, fid, sock, taskVars, lock, linkVars, wireVars, brVars>>

NextIdStore(r) ==
  /\ pc[r] = "store"
  /\ nextId' = (tmp[r] + 1) % NumIds
  /\ Goto(r, "probe")
  /\ UNCHANGED <<pending, tmp, probes, fid, sock, taskVars, lock, linkVars, wireVars, brVars>>

NextIdProbe(r) ==
  /\ pc[r] = "probe"
  /\ probes' = [probes EXCEPT ![r] = @ + 1]
  /\ \/ pending[nextId] = None /\ Goto(r, "return")
     \/ pending[nextId] # None /\ probes[r] + 1 < NumIds /\ Goto(r, "load")
     \/ pending[nextId] # None /\ probes[r] + 1 = NumIds /\ Finish(r, "noFreeId")
  /\ UNCHANGED <<storeVars, tmp, fid, sock, taskVars, lock, linkVars, wireVars, brVars>>

NextIdReturn(r) ==
  /\ pc[r] = "return"
  /\ fid' = [fid EXCEPT ![r] = nextId]
  /\ Goto(r, "register")
  /\ UNCHANGED <<storeVars, tmp, probes, sock, taskVars, lock, linkVars, wireVars, brVars>>

\* Mutant: the entry is stored without TryAdd's check.
RegisterOverwrites(r) ==
  /\ pc[r] = "register"
  /\ pending' = [pending EXCEPT ![fid[r]] = r]
  /\ task' = [task EXCEPT ![r] = "open"]
  /\ Goto(r, "arm")
  /\ UNCHANGED <<nextId, tmp, probes, fid, sock, answer, timer, lock, linkVars, wireVars, brVars>>

Register(r) ==
  /\ pc[r] = "register"
  /\ \/ /\ pending[fid[r]] = None
        /\ pending' = [pending EXCEPT ![fid[r]] = r]
        /\ task' = [task EXCEPT ![r] = "open"]
        /\ Goto(r, "arm")
     \/ /\ pending[fid[r]] # None
        /\ Finish(r, "duplicate")
        /\ UNCHANGED <<pending, task>>
  /\ UNCHANGED <<nextId, tmp, probes, fid, sock, answer, timer, lock, linkVars, wireVars, brVars>>

\* Mutant: no timeout is started.
ArmNoTimeout(r) ==
  /\ pc[r] = "arm"
  /\ Goto(r, "lock")
  /\ UNCHANGED <<storeVars, tmp, probes, fid, sock, taskVars, lock, linkVars, wireVars, brVars>>

\* CancelAfter throws when FailAll disposed the entry in the meantime.
ArmTimeout(r) ==
  /\ pc[r] = "arm"
  /\ IF pending[fid[r]] = r
     THEN timer' = [timer EXCEPT ![r] = "armed"] /\ Goto(r, "lock")
     ELSE UNCHANGED timer /\ Finish(r, "disposed")
  /\ UNCHANGED <<storeVars, tmp, probes, fid, sock, task, answer, lock, linkVars, wireVars, brVars>>

TimeoutFires(r) ==
  /\ timer[r] = "armed"
  /\ timer' = [timer EXCEPT ![r] = "fired"]
  /\ UNCHANGED <<storeVars, callVars, task, answer, result, lock, linkVars, wireVars, brVars>>

\* Mutant: the callback fails the task and leaves the entry.
TimeoutCallbackLeaves(r) ==
  /\ timer[r] = "fired"
  /\ timer' = [timer EXCEPT ![r] = "off"]
  /\ task' = TrySet(r, "timeout")
  /\ UNCHANGED <<storeVars, callVars, answer, result, lock, linkVars, wireVars, brVars>>

\* The callback knows the id, not the entry.
TimeoutCallback(r) ==
  /\ timer[r] = "fired"
  /\ IF pending[fid[r]] = None
     THEN timer' = [timer EXCEPT ![r] = "off"] /\ UNCHANGED <<pending, task>>
     ELSE LET q == pending[fid[r]] IN
          /\ pending' = [pending EXCEPT ![fid[r]] = None]
          /\ task' = TrySet(q, "timeout")
          /\ timer' = [timer EXCEPT ![r] = "off",
                                    ![q] = IF q # r /\ @ = "fired" THEN @ ELSE "off"]
  /\ UNCHANGED <<nextId, callVars, answer, result, lock, linkVars, wireVars, brVars>>

-----------------------------------------------------------------------------
(***************************************************************************)
(* BrTcpClient.SendFrameAsync, RequestAsync's await, GetIpAddrAsync.       *)
(***************************************************************************)

AcquireLock(r) ==
  /\ pc[r] \in {"lock", "confirmLock"}
  /\ lock = None
  /\ IF client = 0
     THEN Finish(r, "notConnected") /\ UNCHANGED <<lock, sock>>
     ELSE /\ lock' = r
          /\ sock' = [sock EXCEPT ![r] = client]
          /\ Goto(r, IF pc[r] = "lock" THEN "write" ELSE "confirmWrite")
  /\ UNCHANGED <<storeVars, tmp, probes, fid, taskVars, linkVars, wireVars, brVars>>

\* WaitAsync(ct) observed the caller's cancellation.
CancelWait(r) ==
  /\ pc[r] \in {"lock", "confirmLock"}
  /\ Finish(r, "cancelled")
  /\ UNCHANGED <<storeVars, tmp, probes, fid, sock, taskVars, lock, linkVars, wireVars, brVars>>

Write(r) ==
  /\ pc[r] \in {"write", "confirmWrite"}
  /\ sock[r] = client
  /\ toBr' = Append(toBr, IF pc[r] = "write" THEN Command(r) ELSE Confirm(r))
  /\ lock' = None
  /\ IF pc[r] = "write" THEN Goto(r, "await") ELSE Finish(r, "ok")
  /\ UNCHANGED <<storeVars, tmp, probes, fid, sock, taskVars, linkVars, fromBr, brVars>>

\* Mutants: no finally around the write; a retry of a write that went out.
WriteFailsKeepsLock(r) ==
  /\ pc[r] \in {"write", "confirmWrite"}
  /\ Finish(r, "sendError")
  /\ UNCHANGED <<storeVars, tmp, probes, fid, sock, taskVars, lock, linkVars, wireVars, brVars>>

WriteFailsRetries(r) ==
  /\ pc[r] = "write"
  /\ toBr' = IF sock[r] = client THEN Append(toBr, Command(r)) ELSE toBr
  /\ lock' = None
  /\ Goto(r, "lock")
  /\ UNCHANGED <<storeVars, tmp, probes, fid, sock, taskVars, linkVars, fromBr, brVars>>

WriteFails(r) ==
  /\ pc[r] \in {"write", "confirmWrite"}
  /\ lock' = None
  /\ Finish(r, "sendError")
  /\ UNCHANGED <<storeVars, tmp, probes, fid, sock, taskVars, linkVars, wireVars, brVars>>

\* Mutant: any response that is not a NACK counts as the answer.
OutcomeLenient(r) == IF task[r] \in {"ack", "notify"} THEN "ok" ELSE task[r]

\* RequestFrameAsync maps the response's command.
Outcome(r) ==
  CASE task[r] = "ack"    -> "ok"
    [] task[r] = "notify" -> "unexpected"
    [] OTHER              -> task[r]

Await(r) ==
  /\ pc[r] = "await"
  /\ task[r] # "open"
  /\ IF task[r] = "ack" /\ r \in IpRequests
     THEN Goto(r, "confirmLock")
     ELSE Finish(r, Outcome(r))
  /\ UNCHANGED <<storeVars, tmp, probes, fid, sock, taskVars, lock, linkVars, wireVars, brVars>>

-----------------------------------------------------------------------------
(***************************************************************************)
(* BrTcpClient.RunLoopAsync / ConnectAndReadAsync / Dispatch.              *)
(***************************************************************************)

Connect ==
  /\ loop = "down"
  /\ connNo < MaxConnections
  /\ connNo' = connNo + 1
  /\ client' = connNo + 1
  /\ loop' = "reading"
  /\ UNCHANGED <<storeVars, callVars, taskVars, result, lock, failing, wireVars, brVars>>

\* A frame completes whatever request is pending under its id; any other
\* frame goes to FrameReceived.
Dispatch ==
  /\ loop = "reading"
  /\ fromBr # <<>>
  /\ LET f == Head(fromBr)
         q == pending[f.id]
     IN IF q = None
        THEN UNCHANGED <<pending, taskVars>>
        ELSE /\ Settle(f.id, f.kind)
             /\ answer' = [answer EXCEPT ![q] = IF task[q] = "open" THEN f ELSE @]
  /\ fromBr' = Tail(fromBr)
  /\ UNCHANGED <<nextId, callVars, result, lock, linkVars, toBr, brVars>>

\* The read ended: the socket is closed and both directions are lost.  The
\* border router may have restarted, which resets its own counters.
CloseConnection ==
  /\ loop = "reading"
  /\ loop' = "closing"
  /\ client' = 0
  /\ toBr' = <<>>
  /\ fromBr' = <<>>
  /\ \/ UNCHANGED brVars
     \/ /\ brIp' = NoIp /\ brRetry' = 0 /\ brNotify' = FirstNotifyId
        /\ UNCHANGED <<runs, notified>>
  /\ UNCHANGED <<storeVars, callVars, taskVars, result, lock, connNo, failing>>

\* FailAll works on a copy of the keys ...
SnapshotPending ==
  /\ loop = "closing"
  /\ loop' = "failing"
  /\ failing' = {i \in Ids : pending[i] # None}
  /\ UNCHANGED <<storeVars, callVars, taskVars, result, lock, client, connNo, wireVars, brVars>>

\* ... and fails whatever entry it finds under each.
FailOne(i) ==
  /\ loop = "failing"
  /\ i \in failing
  /\ failing' = failing \ {i}
  /\ IF pending[i] = None THEN UNCHANGED <<pending, task, timer>> ELSE Settle(i, "lost")
  /\ UNCHANGED <<nextId, callVars, answer, result, lock, client, connNo, loop, wireVars, brVars>>

Disconnected ==
  /\ loop = "failing"
  /\ failing = {}
  /\ loop' = "down"
  /\ UNCHANGED <<storeVars, callVars, taskVars, result, lock, client, connNo, failing, wireVars, brVars>>

-----------------------------------------------------------------------------
(***************************************************************************)
(* The border router: rx_parse_and_dispatch, the IP_ADDR handler with its  *)
(* retry timer, and the change detector's NOTIFY.  Which answer a command  *)
(* gets, or that none gets through, is left open.                          *)
(***************************************************************************)

BrExecute ==
  /\ toBr # <<>>
  /\ Head(toBr).kind = "command"
  /\ LET f == Head(toBr) IN
     /\ runs' = [runs EXCEPT ![f.req] = @ + 1]
     /\ \/ \E kind \in {"ack", "nack"} :
             /\ fromBr' = Append(fromBr, Reply(f, kind))
             /\ IF kind = "ack" /\ f.req \in IpRequests
                THEN brIp' = Reply(f, "ack") /\ brRetry' = 0
                ELSE UNCHANGED <<brIp, brRetry>>
        \/ UNCHANGED <<fromBr, brIp, brRetry>>
  /\ toBr' = Tail(toBr)
  /\ UNCHANGED <<storeVars, callVars, taskVars, result, lock, linkVars, brNotify, notified>>

\* A confirm that does not match is dispatched as a command and refused.
BrConfirmed ==
  /\ toBr # <<>>
  /\ Head(toBr).kind = "confirm"
  /\ LET f == Head(toBr) IN
     IF brIp.id = f.id
     THEN brIp' = NoIp /\ UNCHANGED fromBr
     ELSE fromBr' = Append(fromBr, Reply(f, "nack")) /\ UNCHANGED brIp
  /\ toBr' = Tail(toBr)
  /\ UNCHANGED <<storeVars, callVars, taskVars, result, lock, linkVars, runs, brRetry, brNotify, notified>>

\* The retry timer sends to whatever connection there is.
BrRepeat ==
  /\ brIp.id # NoIp.id
  /\ IF brRetry >= IpRetryMax
     THEN brIp' = NoIp /\ UNCHANGED <<brRetry, fromBr>>
     ELSE /\ brRetry' = brRetry + 1
          /\ fromBr' = IF loop = "reading" THEN Append(fromBr, brIp) ELSE fromBr
          /\ UNCHANGED brIp
  /\ UNCHANGED <<storeVars, callVars, taskVars, result, lock, linkVars, toBr, runs, brNotify, notified>>

BrNotify ==
  /\ notified < MaxNotifies
  /\ notified' = notified + 1
  /\ brNotify' = (brNotify + 1) % NumIds
  /\ fromBr' = IF loop = "reading" THEN Append(fromBr, Notification) ELSE fromBr
  /\ UNCHANGED <<storeVars, callVars, taskVars, result, lock, linkVars, toBr, runs, brIp, brRetry>>

-----------------------------------------------------------------------------

CallStep(r) ==
  \/ NextIdLoad(r) \/ NextIdStore(r) \/ NextIdProbe(r) \/ NextIdReturn(r)
  \/ Register(r) \/ ArmTimeout(r)
  \/ AcquireLock(r) \/ CancelWait(r) \/ Write(r) \/ WriteFails(r) \/ Await(r)

Timeout(r) == TimeoutFires(r) \/ TimeoutCallback(r)

RunLoop ==
  \/ Connect \/ Dispatch \/ CloseConnection
  \/ SnapshotPending \/ (\E i \in Ids : FailOne(i)) \/ Disconnected

BorderRouter == BrExecute \/ BrConfirmed \/ BrRepeat \/ BrNotify

Next ==
  \/ \E r \in Requests : CallStep(r) \/ Timeout(r)
  \/ RunLoop
  \/ BorderRouter

Spec == Init /\ [][Next]_vars

\* Thread-pool threads, timers, the socket and the read loop all make
\* progress.  Nothing forces a caller to cancel, a write to fail, or the
\* border router to answer.
Fairness ==
  /\ \A r \in Requests :
       /\ WF_vars(pc[r] # "idle" /\ NextIdLoad(r))
       /\ WF_vars(NextIdStore(r)) /\ WF_vars(NextIdProbe(r)) /\ WF_vars(NextIdReturn(r))
       /\ WF_vars(Register(r)) /\ WF_vars(ArmTimeout(r))
       /\ WF_vars(AcquireLock(r)) /\ WF_vars(Write(r) \/ WriteFails(r)) /\ WF_vars(Await(r))
       /\ WF_vars(TimeoutFires(r)) /\ WF_vars(TimeoutCallback(r))

FairSpec == Spec /\ Fairness

-----------------------------------------------------------------------------
(***************************************************************************)
(* Properties.                                                             *)
(***************************************************************************)

\* An entry of the table belongs to the request that was given its id, and
\* that request has no outcome yet: the table never holds a finished task,
\* whatever mix of answers, timeouts and FailAll emptied it.
PendingIsOpen ==
  \A i \in Ids : pending[i] # None =>
    /\ fid[pending[i]] = i
    /\ task[pending[i]] = "open"

\* A task without an outcome is still in the table under its id and a
\* timeout is running for it (or its caller is about to start one): no
\* answer, timeout or connection loss of another request can strand it.
NoLostWaiter ==
  \A r \in Requests : task[r] = "open" =>
    /\ pending[fid[r]] = r
    /\ pc[r] = "arm" \/ timer[r] # "off"

\* The border router executes a request at most once: neither the repeated
\* IP answer nor a reconnect replays a command.
AtMostOnce == \A r \in Requests : runs[r] <= 1

\* A request completed by the answer to another request shared that
\* request's frame id: an answer never lands on an unrelated waiter.
MisdeliveryNeedsReuse ==
  \A r \in Requests :
    answer[r] # None /\ answer[r].req # None => fid[answer[r].req] = fid[r]

\* A frame the border router pushes as a notification is not taken for the
\* answer to a request.
NotifyIsNoAnswer == \A r \in Requests : task[r] # "notify"

\* Every call returns to its caller, with an answer or an error, even if the
\* border router stays silent or the connection is lost at any point.
EveryCallReturns == \A r \in Requests : pc[r] # "idle" ~> pc[r] = "done"

\* Every frame id is given back, also the id of a request whose send failed.
IdsComeBack == \A i \in Ids : pending[i] # None ~> pending[i] = None

-----------------------------------------------------------------------------
(***************************************************************************)
(* The promise to callers.                                                 *)
(***************************************************************************)

Promise ==
  INSTANCE RequestReply WITH
    call <- [r \in Requests |->
               CASE pc[r] = "idle" -> "idle"
                 [] pc[r] # "idle" /\ result[r] = "none" -> "open"
                 [] result[r] \in {"ok", "nack"} -> "answered"
                 [] OTHER -> "failed"],
    runs <- runs

\* Two calls have been given the same frame id: NextId raced, or its counter
\* came round while the answer to the first was on its way.
SharedId ==
  \E r, q \in Requests : r # q /\ {pc[r], pc[q]} \subseteq Issued /\ fid[r] = fid[q]

\* Whatever calls, answers, timeouts, reconnects and notifications do to each
\* other, every step is one of RequestReply or none of its concern, as long
\* as no two calls share a frame id: a call returns once, an answered call
\* was executed, and no call is executed twice.
KeepsPromise ==
  Promise!Init /\ [][Promise!vars' = Promise!vars \/ SharedId \/ Promise!Next]_vars
=============================================================================
