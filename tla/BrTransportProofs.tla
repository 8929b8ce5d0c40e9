------------------------- MODULE BrTransportProofs -------------------------
(***************************************************************************)
(* Proofs about the request path, for every number of calls, frame ids,    *)
(* connections and notifications.                                          *)
(***************************************************************************)
EXTENDS BrTransport, SequenceTheorems, TLAPS

USE ConstantsAssumption, NoneIsNoFrame

Unsent == {"idle", "load", "store", "probe", "return", "register", "arm", "lock", "write"}
NoTask == {"idle", "load", "store", "probe", "return", "register"}

\* Before Register a call has no task and no timer; NextId's loop ends before
\* it has tried every id twice.
Fresh ==
  \A r \in Requests :
    /\ pc[r] \in NoTask => task[r] = "none" /\ timer[r] = "off"
    /\ pc[r] \in {"idle", "load", "store", "probe"} => probes[r] < NumIds

\* A task completed by a frame holds that frame, which carried its id; only
\* such a task is confirmed.
Answered ==
  \A r \in Requests :
    /\ task[r] \in {"ack", "nack", "notify"} => answer[r] # None
    /\ answer[r] # None => pc[r] \notin NoTask /\ answer[r].id = fid[r]
    /\ pc[r] \in {"confirmLock", "confirmWrite"} => task[r] = "ack"
    /\ pc[r] \in {"arm", "lock", "write", "await"} => task[r] # "none"

\* A frame that belongs to a request carries the id of that request.
Owned(f) == f.req # None => f.id = fid[f.req] /\ pc[f.req] \notin NoTask

\* The border router sends answers and notifications only.
FromBrKinds ==
  /\ \A k \in 1 .. Len(fromBr) : fromBr[k].kind \in {"ack", "nack", "notify"}
  /\ brIp.kind = "ack"

WireOwned ==
  /\ \A k \in 1 .. Len(toBr) : Owned(toBr[k]) /\ toBr[k].req # None
  /\ \A k \in 1 .. Len(fromBr) : Owned(fromBr[k])
  /\ Owned(brIp)
  /\ \A r \in Requests : answer[r] # None => Owned(answer[r])

\* A command is on the wire or executed at most once in all, and only after
\* its write.
RunOnce ==
  \A r \in Requests : runs[r] <= 1 /\ (pc[r] \in Unsent => runs[r] = 0)

IsCommand(f) == f.kind = "command"

WireFresh ==
  \A k \in 1 .. Len(toBr) : IsCommand(toBr[k]) =>
    runs[toBr[k].req] = 0 /\ pc[toBr[k].req] \notin Unsent

WireDistinct ==
  \A k \in 1 .. Len(toBr) : \A l \in 1 .. Len(toBr) :
    IsCommand(toBr[k]) /\ IsCommand(toBr[l]) /\ toBr[k].req = toBr[l].req => k = l

SentOnce == RunOnce /\ WireFresh /\ WireDistinct

IInv == TypeOK /\ Fresh /\ PendingIsOpen /\ NoLostWaiter /\ Answered /\ WireOwned /\ FromBrKinds
        /\ SentOnce

-----------------------------------------------------------------------------
(***************************************************************************)
(* Type correctness.                                                       *)
(***************************************************************************)

\* The initial state satisfies the inductive invariant.
LEMMA InitIInv == Init => IInv
<1> SUFFICES ASSUME Init PROVE IInv
  OBVIOUS
<1> USE DEF Init
<1>1. StoreType /\ CallType /\ TaskType /\ ReturnType
  BY DEF StoreType, CallType, TaskType, ReturnType, Ids, Steps, TaskStates, Results
<1>2. LinkType /\ WireType /\ BrType
  BY DEF LinkType, WireType, BrType, Frames, NoIp, Ids
<1>3. Fresh /\ PendingIsOpen /\ NoLostWaiter /\ Answered
  BY DEF Fresh, PendingIsOpen, NoLostWaiter, Answered, Ids, NoTask
<1>4. WireOwned /\ FromBrKinds
  BY DEF WireOwned, Owned, NoIp, FromBrKinds
<1>5. SentOnce
  BY DEF SentOnce, RunOnce, WireFresh, WireDistinct
<1> QED
  BY <1>1, <1>2, <1>3, <1>4, <1>5 DEF IInv, TypeOK

\* A frame taken off a wire is a frame, and what is left is a wire.
LEMMA WireTypes ==
  ASSUME NEW q \in Seq(Frames), q # <<>>
  PROVE  /\ Head(q) \in Frames
         /\ Tail(q) \in Seq(Frames)
         /\ Head(q) = q[1] /\ 1 \in 1 .. Len(q)
         /\ Len(Tail(q)) = Len(q) - 1
         /\ \A k \in 1 .. Len(Tail(q)) : Tail(q)[k] = q[k + 1] /\ k + 1 \in 1 .. Len(q)
  OBVIOUS

\* A frame put on a wire is its last; the others stay where they are.
LEMMA WireAppend ==
  ASSUME NEW q \in Seq(Frames), NEW f \in Frames
  PROVE  /\ Append(q, f) \in Seq(Frames)
         /\ Len(Append(q, f)) = Len(q) + 1
         /\ \A k \in 1 .. Len(q) : Append(q, f)[k] = q[k]
         /\ Append(q, f)[Len(q) + 1] = f
  OBVIOUS

\* The step after the last id is the first again.
LEMMA NextIsId == \A n \in Nat : (n + 1) % NumIds \in Ids
BY DEF Ids

\* What a step leaves alone keeps its type.
LEMMA Untouched ==
  /\ StoreType /\ UNCHANGED storeVars => StoreType'
  /\ CallType /\ UNCHANGED callVars => CallType'
  /\ TaskType /\ UNCHANGED taskVars => TaskType'
  /\ ReturnType /\ UNCHANGED <<result, lock>> => ReturnType'
  /\ LinkType /\ UNCHANGED linkVars => LinkType'
  /\ WireType /\ UNCHANGED wireVars => WireType'
  /\ BrType /\ UNCHANGED brVars => BrType'
<1>1. StoreType /\ UNCHANGED storeVars => StoreType'
  BY DEF StoreType, storeVars
<1>2. CallType /\ UNCHANGED callVars => CallType'
  BY DEF CallType, callVars
<1>3. TaskType /\ UNCHANGED taskVars => TaskType'
  BY DEF TaskType, taskVars
<1>4. ReturnType /\ UNCHANGED <<result, lock>> => ReturnType'
  BY DEF ReturnType
<1>5. LinkType /\ UNCHANGED linkVars => LinkType'
  BY DEF LinkType, linkVars
<1>6. WireType /\ UNCHANGED wireVars => WireType'
  BY DEF WireType, wireVars
<1>7. BrType /\ UNCHANGED brVars => BrType'
  BY DEF BrType, brVars
<1> QED
  BY <1>1, <1>2, <1>3, <1>4, <1>5, <1>6, <1>7

\* What the table holds is open, so that an outcome given to it is its first.
LEMMA FirstOutcome ==
  ASSUME IInv, NEW i \in Ids, pending[i] # None
  PROVE  /\ pending[i] \in Requests /\ task[pending[i]] = "open"
         /\ \A outcome : TrySet(pending[i], outcome) = [task EXCEPT ![pending[i]] = outcome]
<1>1. pending[i] \in Requests /\ task[pending[i]] = "open"
  BY DEF IInv, TypeOK, StoreType, PendingIsOpen
<1>2. ASSUME NEW outcome
      PROVE  TrySet(pending[i], outcome) = [task EXCEPT ![pending[i]] = outcome]
  BY <1>1 DEF TrySet
<1> QED
  BY <1>1, <1>2

\* Every step of a call keeps the types.
LEMMA CallTypes ==
  ASSUME IInv, NEW r \in Requests, CallStep(r) \/ Timeout(r)
  PROVE  TypeOK'
<1>0. /\ StoreType /\ CallType /\ TaskType /\ ReturnType
      /\ LinkType /\ WireType /\ BrType /\ Answered /\ Fresh
  BY DEF IInv, TypeOK
<1>1. CASE NextIdLoad(r)
  <2>1. CallType'
    BY <1>0, <1>1 DEF NextIdLoad, CallType, StoreType, Steps, Issued, Goto, Finish, callVars
  <2>2. ReturnType'
    BY <1>0, <1>1 DEF NextIdLoad, ReturnType, Goto, Finish, Results
  <2> QED
    BY <1>0, <1>1, Untouched, <2>1, <2>2 DEF NextIdLoad, TypeOK
<1>2. CASE NextIdStore(r)
  <2>1. StoreType'
    BY <1>0, <1>2, NextIsId DEF NextIdStore, StoreType, CallType, Ids, storeVars
  <2>2. CallType'
    BY <1>0, <1>2 DEF NextIdStore, CallType, Steps, Issued, Goto, Finish, callVars
  <2>3. ReturnType'
    BY <1>0, <1>2 DEF NextIdStore, ReturnType, Goto, Finish, Results
  <2> QED
    BY <1>0, <1>2, Untouched, <2>1, <2>2, <2>3 DEF NextIdStore, TypeOK, storeVars
<1>3. CASE NextIdProbe(r)
  <2>1. CallType'
    BY <1>0, <1>3 DEF NextIdProbe, CallType, Fresh, Steps, Issued, Goto, Finish, callVars
  <2>2. ReturnType'
    BY <1>0, <1>3 DEF NextIdProbe, ReturnType, Goto, Finish, Results
  <2> QED
    BY <1>0, <1>3, Untouched, <2>1, <2>2 DEF NextIdProbe, TypeOK
<1>4. CASE NextIdReturn(r)
  <2>1. CallType'
    BY <1>0, <1>4 DEF NextIdReturn, CallType, StoreType, Steps, Issued, Goto, Finish, callVars
  <2>2. ReturnType'
    BY <1>0, <1>4 DEF NextIdReturn, ReturnType, Goto, Finish, Results
  <2> QED
    BY <1>0, <1>4, Untouched, <2>1, <2>2 DEF NextIdReturn, TypeOK
<1>5. CASE Register(r)
  <2>1. StoreType'
    BY <1>0, <1>5 DEF Register, StoreType, storeVars
  <2>2. CallType'
    BY <1>0, <1>5 DEF Register, CallType, Steps, Issued, Goto, Finish, callVars
  <2>3. TaskType'
    BY <1>0, <1>5 DEF Register, TaskType, TaskStates, taskVars
  <2>4. ReturnType'
    BY <1>0, <1>5 DEF Register, ReturnType, Goto, Finish, Results
  <2> QED
    BY <1>0, <1>5, Untouched, <2>1, <2>2, <2>3, <2>4 DEF Register, TypeOK, storeVars, taskVars
<1>6. CASE ArmTimeout(r)
  <2>1. CallType'
    BY <1>0, <1>6 DEF ArmTimeout, CallType, Steps, Issued, Goto, Finish, callVars
  <2>2. TaskType'
    BY <1>0, <1>6 DEF ArmTimeout, TaskType, TaskStates, taskVars
  <2>3. ReturnType'
    BY <1>0, <1>6 DEF ArmTimeout, ReturnType, Goto, Finish, Results
  <2> QED
    BY <1>0, <1>6, Untouched, <2>1, <2>2, <2>3 DEF ArmTimeout, TypeOK, taskVars
<1>7. CASE AcquireLock(r)
  <2>1. CallType'
    BY <1>0, <1>7 DEF AcquireLock, CallType, LinkType, Steps, Issued, Goto, Finish, callVars
  <2>2. ReturnType'
    BY <1>0, <1>7 DEF AcquireLock, ReturnType, Goto, Finish, Results
  <2> QED
    BY <1>0, <1>7, Untouched, <2>1, <2>2 DEF AcquireLock, TypeOK
<1>8. CASE CancelWait(r)
  <2>1. CallType'
    BY <1>0, <1>8 DEF CancelWait, CallType, Steps, Issued, Goto, Finish, callVars
  <2>2. ReturnType'
    BY <1>0, <1>8 DEF CancelWait, ReturnType, Goto, Finish, Results
  <2> QED
    BY <1>0, <1>8, Untouched, <2>1, <2>2 DEF CancelWait, TypeOK
<1>9. CASE WriteFails(r)
  <2>1. CallType'
    BY <1>0, <1>9 DEF WriteFails, CallType, Steps, Issued, Goto, Finish, callVars
  <2>2. ReturnType'
    BY <1>0, <1>9 DEF WriteFails, ReturnType, Goto, Finish, Results
  <2> QED
    BY <1>0, <1>9, Untouched, <2>1, <2>2 DEF WriteFails, TypeOK
<1>10. CASE TimeoutFires(r)
  <2>1. TaskType'
    BY <1>0, <1>10 DEF TimeoutFires, TaskType, TaskStates, taskVars
  <2> QED
    BY <1>0, <1>10, Untouched, <2>1 DEF TimeoutFires, TypeOK, taskVars
<1>11. CASE TimeoutCallback(r)
  <2>1. StoreType'
    BY <1>0, <1>11 DEF TimeoutCallback, StoreType, storeVars
  <2>2. TaskType'
    BY <1>0, <1>11 DEF TimeoutCallback, TaskType, TaskStates, taskVars, TrySet
  <2> QED
    BY <1>0, <1>11, Untouched, <2>1, <2>2 DEF TimeoutCallback, TypeOK, storeVars, taskVars
<1>12. CASE Write(r)
  <2>1. Command(r) \in Frames
    BY <1>0 DEF Command, Frames, CallType
  <2>2. pc[r] = "confirmWrite" => Confirm(r) \in Frames
    <3> SUFFICES ASSUME pc[r] = "confirmWrite" PROVE Confirm(r) \in Frames
      OBVIOUS
    <3>1. answer[r] # None
      BY <1>0 DEF Answered
    <3>2. answer[r] \in Frames
      BY <1>0, <3>1 DEF TaskType
    <3> QED
      BY <3>2 DEF Confirm, Frames
  <2>3. WireType'
    BY <1>0, <1>12, <2>1, <2>2, WireAppend DEF Write, WireType
  <2>4. CallType'
    BY <1>0, <1>12 DEF Write, CallType, Steps, Issued, Goto, Finish
  <2>5. ReturnType'
    BY <1>0, <1>12 DEF Write, ReturnType, Goto, Finish, Results
  <2> QED
    BY <1>0, <1>12, Untouched, <2>3, <2>4, <2>5 DEF Write, TypeOK
<1>13. CASE Await(r)
  <2>1. CallType'
    BY <1>0, <1>13 DEF Await, CallType, Steps, Issued, Goto, Finish
  <2>2. ReturnType'
    <3>1. task[r] # "none"
      BY <1>0, <1>13 DEF Await, Answered
    <3>2. Outcome(r) \in Results
      BY <1>0, <1>13, <3>1 DEF Await, Outcome, TaskType, TaskStates, Results
    <3> QED
      BY <1>0, <1>13, <3>2 DEF Await, ReturnType, Goto, Finish
  <2> QED
    BY <1>0, <1>13, Untouched, <2>1, <2>2 DEF Await, TypeOK
<1> QED
  BY <1>1, <1>2, <1>3, <1>4, <1>5, <1>6, <1>7, <1>8, <1>9, <1>10, <1>11, <1>12, <1>13
  DEF CallStep, Timeout

\* Every step of the run loop keeps the types.
LEMMA LoopTypes ==
  ASSUME IInv, RunLoop
  PROVE  TypeOK'
<1>0. /\ StoreType /\ CallType /\ TaskType /\ ReturnType
      /\ LinkType /\ WireType /\ BrType /\ FromBrKinds
  BY DEF IInv, TypeOK
<1>1. CASE Connect
  <2>1. LinkType'
    BY <1>0, <1>1 DEF Connect, LinkType
  <2> QED
    BY <1>0, <1>1, <2>1, Untouched DEF Connect, TypeOK
<1>2. CASE Dispatch
  <2> DEFINE f == Head(fromBr)
  <2>1. f \in Frames /\ Tail(fromBr) \in Seq(Frames)
    BY <1>0, <1>2, WireTypes DEF Dispatch, WireType
  <2>2. f.id \in Ids /\ f.kind \in {"command", "confirm", "ack", "nack", "notify"}
    BY <2>1 DEF Frames
  <2>3. f.kind \in {"ack", "nack", "notify"}
    BY <1>0, <1>2, <2>1, WireTypes DEF Dispatch, FromBrKinds, WireType
  <2>4. StoreType'
    BY <1>0, <1>2, <2>2 DEF Dispatch, StoreType, Settle
  <2>5. TaskType'
    <3>1. CASE pending[f.id] = None
      BY <1>0, <1>2, <3>1 DEF Dispatch, TaskType, taskVars
    <3>2. CASE pending[f.id] # None
      <4>1. /\ task' = [task EXCEPT ![pending[f.id]] = f.kind]
            /\ answer' = [answer EXCEPT ![pending[f.id]] = f]
            /\ timer' = [timer EXCEPT ![pending[f.id]] = IF @ = "armed" THEN "off" ELSE @]
        BY <1>2, <2>2, <3>2, FirstOutcome DEF Dispatch, Settle
      <4> QED
        BY <1>0, <2>1, <2>3, <4>1 DEF TaskType, TaskStates
    <3> QED
      BY <3>1, <3>2
  <2>6. WireType'
    BY <1>0, <1>2, <2>1 DEF Dispatch, WireType
  <2> QED
    BY <1>0, <1>2, <2>4, <2>5, <2>6, Untouched DEF Dispatch, TypeOK
<1>3. CASE CloseConnection
  <2>1. LinkType' /\ WireType'
    BY <1>0, <1>3 DEF CloseConnection, LinkType, WireType
  <2>2. BrType'
    BY <1>0, <1>3 DEF CloseConnection, BrType, NoIp, Frames, Ids, brVars
  <2> QED
    BY <1>0, <1>3, <2>1, <2>2, Untouched DEF CloseConnection, TypeOK
<1>4. CASE SnapshotPending
  <2>1. LinkType'
    BY <1>0, <1>4 DEF SnapshotPending, LinkType
  <2> QED
    BY <1>0, <1>4, <2>1, Untouched DEF SnapshotPending, TypeOK
<1>5. ASSUME NEW i \in Ids, FailOne(i) PROVE TypeOK'
  <2>1. LinkType'
    BY <1>0, <1>5 DEF FailOne, LinkType
  <2>2. StoreType'
    BY <1>0, <1>5 DEF FailOne, StoreType, Settle
  <2>3. TaskType'
    BY <1>0, <1>5 DEF FailOne, TaskType, TaskStates, Settle, StoreType, TrySet
  <2> QED
    BY <1>0, <1>5, <2>1, <2>2, <2>3, Untouched DEF FailOne, TypeOK
<1>6. CASE Disconnected
  <2>1. LinkType'
    BY <1>0, <1>6 DEF Disconnected, LinkType
  <2> QED
    BY <1>0, <1>6, <2>1, Untouched DEF Disconnected, TypeOK
<1> QED
  BY <1>1, <1>2, <1>3, <1>4, <1>5, <1>6 DEF RunLoop

\* Every step of the border router keeps the types.
LEMMA BorderRouterTypes ==
  ASSUME IInv, BorderRouter
  PROVE  TypeOK'
<1>0. /\ StoreType /\ CallType /\ TaskType /\ ReturnType
      /\ LinkType /\ WireType /\ BrType /\ WireOwned
  BY DEF IInv, TypeOK
<1>1. CASE BrExecute
  <2> DEFINE f == Head(toBr)
  <2>1. f \in Frames /\ f.req # None /\ Tail(toBr) \in Seq(Frames)
    BY <1>0, <1>1, WireTypes DEF BrExecute, WireOwned, WireType
  <2>2. f.req \in Requests
    BY <2>1 DEF Frames
  <2>3. \A kind \in {"ack", "nack"} :
          Reply(f, kind) \in Frames /\ Append(fromBr, Reply(f, kind)) \in Seq(Frames)
    BY <1>0, <2>1, WireAppend DEF Reply, Frames, WireType
  <2>4. WireType'
    BY <1>0, <1>1, <2>1, <2>3 DEF BrExecute, WireType
  <2>5. BrType'
    BY <1>0, <1>1, <2>2, <2>3 DEF BrExecute, BrType
  <2> QED
    BY <1>0, <1>1, <2>4, <2>5, Untouched DEF BrExecute, TypeOK
<1>2. CASE BrConfirmed
  <2> DEFINE f == Head(toBr)
  <2>1. f \in Frames /\ Tail(toBr) \in Seq(Frames)
    BY <1>0, <1>2, WireTypes DEF BrConfirmed, WireType
  <2>2. Reply(f, "nack") \in Frames /\ Append(fromBr, Reply(f, "nack")) \in Seq(Frames)
    BY <1>0, <2>1, WireAppend DEF Reply, Frames, WireType
  <2>3. WireType'
    BY <1>0, <1>2, <2>1, <2>2 DEF BrConfirmed, WireType
  <2>4. BrType'
    BY <1>0, <1>2 DEF BrConfirmed, BrType, NoIp, Frames, Ids
  <2> QED
    BY <1>0, <1>2, <2>3, <2>4, Untouched DEF BrConfirmed, TypeOK
<1>3. CASE BrRepeat
  <2>0. Append(fromBr, brIp) \in Seq(Frames)
    BY <1>0, WireAppend DEF WireType, BrType
  <2>1. WireType'
    BY <1>0, <1>3, <2>0 DEF BrRepeat, WireType
  <2>2. BrType'
    BY <1>0, <1>3 DEF BrRepeat, BrType, NoIp, Frames, Ids
  <2> QED
    BY <1>0, <1>3, <2>1, <2>2, Untouched DEF BrRepeat, TypeOK
<1>4. CASE BrNotify
  <2>1. Notification \in Frames
    BY <1>0 DEF Notification, Frames, BrType
  <2>2. WireType'
    BY <1>0, <1>4, <2>1, WireAppend DEF BrNotify, WireType
  <2>3. BrType'
    BY <1>0, <1>4, NextIsId DEF BrNotify, BrType, Ids
  <2> QED
    BY <1>0, <1>4, <2>2, <2>3, Untouched DEF BrNotify, TypeOK
<1> QED
  BY <1>1, <1>2, <1>3, <1>4 DEF BorderRouter

-----------------------------------------------------------------------------
(***************************************************************************)
(* The table of open requests.                                             *)
(***************************************************************************)

\* The id a call is about to settle is not one under which it already waits.
LEMMA OneEntryPerCall ==
  ASSUME IInv, NEW i \in Ids, NEW j \in Ids,
         pending[i] # None, pending[i] = pending[j]
  PROVE  i = j
BY DEF IInv, PendingIsOpen

\* Fresh survives every step.
LEMMA FreshStep ==
  ASSUME IInv, Next
  PROVE  Fresh'
<1>0. StoreType /\ CallType /\ TaskType /\ Fresh /\ PendingIsOpen
  BY DEF IInv, TypeOK
<1> USE <1>0 DEF Fresh, NoTask, CallType, TaskType, Goto, Finish
<1>1. ASSUME NEW r \in Requests, NextIdLoad(r) PROVE Fresh'
  BY <1>1 DEF NextIdLoad, taskVars, callVars
<1>2. ASSUME NEW r \in Requests, NextIdStore(r) PROVE Fresh'
  BY <1>2 DEF NextIdStore, taskVars, callVars
<1>3. ASSUME NEW r \in Requests, NextIdProbe(r) PROVE Fresh'
  BY <1>3 DEF NextIdProbe, taskVars, callVars
<1>4. ASSUME NEW r \in Requests, NextIdReturn(r) PROVE Fresh'
  BY <1>4 DEF NextIdReturn, taskVars, callVars
<1>5. ASSUME NEW r \in Requests, Register(r) PROVE Fresh'
  BY <1>5 DEF Register, taskVars, callVars
<1>6. ASSUME NEW r \in Requests, ArmTimeout(r) PROVE Fresh'
  BY <1>6 DEF ArmTimeout, taskVars, callVars
<1>7. ASSUME NEW r \in Requests, AcquireLock(r) PROVE Fresh'
  BY <1>7 DEF AcquireLock, taskVars, callVars
<1>8. ASSUME NEW r \in Requests, CancelWait(r) PROVE Fresh'
  BY <1>8 DEF CancelWait, taskVars, callVars
<1>9. ASSUME NEW r \in Requests, Write(r) PROVE Fresh'
  BY <1>9 DEF Write, taskVars, callVars
<1>10. ASSUME NEW r \in Requests, WriteFails(r) PROVE Fresh'
  BY <1>10 DEF WriteFails, taskVars, callVars
<1>11. ASSUME NEW r \in Requests, Await(r) PROVE Fresh'
  BY <1>11 DEF Await, taskVars, callVars
<1>12. ASSUME NEW r \in Requests, TimeoutFires(r) PROVE Fresh'
  BY <1>12 DEF TimeoutFires, taskVars, callVars
<1>13. ASSUME NEW r \in Requests, TimeoutCallback(r) PROVE Fresh'
  <2>1. CASE pending[fid[r]] = None
    BY <1>13, <2>1 DEF TimeoutCallback, callVars
  <2>2. CASE pending[fid[r]] # None
    <3> DEFINE q == pending[fid[r]]
    <3>1. q \in Requests /\ pc[q] \notin NoTask
      BY <2>2 DEF StoreType, PendingIsOpen
    <3> QED
      BY <1>13, <2>2, <3>1 DEF TimeoutCallback, callVars, TrySet
  <2> QED
    BY <2>1, <2>2
<1>14. CASE Dispatch
  <2> DEFINE f == Head(fromBr)
  <2>1. CASE pending[f.id] = None
    BY <1>14, <2>1 DEF Dispatch, callVars, taskVars
  <2>2. CASE pending[f.id] # None
    <3>1. f.id \in Ids
      BY <1>14, WireTypes DEF Dispatch, IInv, TypeOK, WireType, Frames
    <3>2. pending[f.id] \in Requests /\ pc[pending[f.id]] \notin NoTask
      BY <2>2, <3>1 DEF StoreType, PendingIsOpen
    <3> QED
      BY <1>14, <2>2, <3>2 DEF Dispatch, Settle, callVars, TrySet
  <2> QED
    BY <2>1, <2>2
<1>15. ASSUME NEW i \in Ids, FailOne(i) PROVE Fresh'
  <2>1. CASE pending[i] = None
    BY <1>15, <2>1 DEF FailOne, callVars
  <2>2. CASE pending[i] # None
    <3>1. pending[i] \in Requests /\ pc[pending[i]] \notin NoTask
      BY <2>2 DEF StoreType, PendingIsOpen
    <3> QED
      BY <1>15, <2>2, <3>1 DEF FailOne, Settle, callVars, TrySet
  <2> QED
    BY <2>1, <2>2
<1>16. CASE Connect \/ CloseConnection \/ SnapshotPending \/ Disconnected \/ BorderRouter
  BY <1>16 DEF Connect, CloseConnection, SnapshotPending, Disconnected, BorderRouter,
               BrExecute, BrConfirmed, BrRepeat, BrNotify, callVars, taskVars
<1> QED
  BY <1>1, <1>2, <1>3, <1>4, <1>5, <1>6, <1>7, <1>8, <1>9, <1>10, <1>11, <1>12, <1>13,
     <1>14, <1>15, <1>16 DEF Next, CallStep, Timeout, RunLoop

Table == PendingIsOpen /\ NoLostWaiter

\* Removing the entry under an id and giving its task an outcome keeps the
\* table sound.
LEMMA SettleKeepsTable ==
  ASSUME IInv, NEW i \in Ids, pending[i] # None, NEW outcome \in TaskStates \ {"open"},
         Settle(i, outcome), UNCHANGED <<fid, pc>>
  PROVE  Table'
<1> DEFINE q == pending[i]
<1>0. StoreType /\ CallType /\ TaskType /\ PendingIsOpen /\ NoLostWaiter
  BY DEF IInv, TypeOK
<1>1. q \in Requests
  BY <1>0 DEF StoreType
<1>2. task' = [task EXCEPT ![q] = outcome]
  BY FirstOutcome DEF Settle
<1>3. PendingIsOpen'
  <2> SUFFICES ASSUME NEW j \in Ids, pending'[j] # None
               PROVE  fid[pending'[j]] = j /\ task'[pending'[j]] = "open"
    BY DEF PendingIsOpen, Settle
  <2>1. j # i /\ pending'[j] = pending[j]
    BY <1>0 DEF Settle, StoreType
  <2>2. pending[j] # q /\ pending[j] \in Requests
    BY <2>1, <1>0, OneEntryPerCall DEF StoreType
  <2> QED
    BY <1>0, <1>2, <2>1, <2>2 DEF PendingIsOpen, TaskType
<1>4. NoLostWaiter'
  <2> SUFFICES ASSUME NEW r \in Requests, task'[r] = "open"
               PROVE  pending'[fid[r]] = r /\ (pc[r] = "arm" \/ timer'[r] # "off")
    BY DEF NoLostWaiter, Settle
  <2>1. r # q /\ task[r] = "open" /\ timer'[r] = timer[r]
    BY <1>0, <1>1, <1>2 DEF Settle, TaskType
  <2>2. pending[fid[r]] = r /\ fid[r] \in Ids /\ fid[r] # i
    BY <1>0, <2>1 DEF NoLostWaiter, CallType
  <2> QED
    BY <1>0, <2>1, <2>2 DEF Settle, StoreType, NoLostWaiter
<1> QED
  BY <1>3, <1>4 DEF Table

\* The table stays sound in every step.
LEMMA TableStep ==
  ASSUME IInv, Next
  PROVE  Table'
<1>0. /\ StoreType /\ CallType /\ TaskType /\ Fresh /\ PendingIsOpen /\ NoLostWaiter
      /\ WireType /\ FromBrKinds
  BY DEF IInv, TypeOK
<1>1. ASSUME NEW r \in Requests,
             \/ NextIdLoad(r) \/ NextIdStore(r) \/ NextIdProbe(r)
             \/ AcquireLock(r) \/ CancelWait(r) \/ Write(r) \/ WriteFails(r) \/ Await(r)
      PROVE  Table'
  <2>1. /\ UNCHANGED <<pending, fid, task, timer>>
        /\ pc[r] # "arm" /\ \A q \in Requests \ {r} : pc'[q] = pc[q]
    BY <1>0, <1>1 DEF NextIdLoad, NextIdStore, NextIdProbe, AcquireLock, CancelWait, Write,
       WriteFails, Await, Goto, Finish, CallType, callVars, taskVars, storeVars
  <2> QED
    BY <1>0, <2>1 DEF Table, PendingIsOpen, NoLostWaiter
<1>2. ASSUME NEW r \in Requests, NextIdReturn(r) PROVE Table'
  <2>1. task[r] = "none" /\ \A i \in Ids : pending[i] # r
    BY <1>0, <1>2 DEF NextIdReturn, Fresh, NoTask, PendingIsOpen
  <2> QED
    BY <1>0, <1>2, <2>1 DEF NextIdReturn, Table, PendingIsOpen, NoLostWaiter, Goto,
       CallType, StoreType, storeVars, taskVars
<1>3. ASSUME NEW r \in Requests, Register(r) PROVE Table'
  <2>1. CASE pending[fid[r]] # None
    BY <1>0, <1>3, <2>1 DEF Register, Table, PendingIsOpen, NoLostWaiter, Finish, CallType
  <2>2. CASE pending[fid[r]] = None
    <3>1. task[r] = "none" /\ \A i \in Ids : pending[i] # r
      BY <1>0, <1>3 DEF Register, Fresh, NoTask, PendingIsOpen
    <3>2. /\ pending' = [pending EXCEPT ![fid[r]] = r]
          /\ task' = [task EXCEPT ![r] = "open"]
          /\ pc' = [pc EXCEPT ![r] = "arm"]
          /\ UNCHANGED <<fid, timer>>
      BY <1>3, <2>2 DEF Register, Goto
    <3>3. PendingIsOpen'
      BY <1>0, <3>1, <3>2 DEF PendingIsOpen, StoreType, TaskType, CallType
    <3>4. NoLostWaiter'
      BY <1>0, <2>2, <3>1, <3>2 DEF NoLostWaiter, StoreType, TaskType, CallType
    <3> QED
      BY <3>3, <3>4 DEF Table
  <2> QED
    BY <2>1, <2>2
<1>4. ASSUME NEW r \in Requests, ArmTimeout(r) PROVE Table'
  BY <1>0, <1>4 DEF ArmTimeout, Table, PendingIsOpen, NoLostWaiter, Goto, Finish,
     CallType, TaskType, storeVars
<1>5. ASSUME NEW r \in Requests, TimeoutFires(r) PROVE Table'
  BY <1>0, <1>5 DEF TimeoutFires, Table, PendingIsOpen, NoLostWaiter, TaskType, callVars, storeVars
<1>6. ASSUME NEW r \in Requests, TimeoutCallback(r) PROVE Table'
  <2>1. CASE pending[fid[r]] = None
    BY <1>0, <1>6, <2>1 DEF TimeoutCallback, Table, PendingIsOpen, NoLostWaiter, TaskType, callVars
  <2>2. CASE pending[fid[r]] # None
    <3> DEFINE q == pending[fid[r]]
    <3>1. q \in Requests /\ fid[r] \in Ids
      BY <1>0, <2>2 DEF StoreType, CallType
    <3>2. /\ pending' = [pending EXCEPT ![fid[r]] = None]
          /\ task' = [task EXCEPT ![q] = "timeout"]
          /\ \A p \in Requests : p # r /\ p # q => timer'[p] = timer[p]
          /\ UNCHANGED <<fid, pc>>
      BY <1>0, <1>6, <2>2, <3>1, FirstOutcome DEF TimeoutCallback, TaskType, callVars
    <3>3. r # q => task[r] # "open"
      BY <1>0 DEF NoLostWaiter
    <3>4. PendingIsOpen'
      <4> SUFFICES ASSUME NEW j \in Ids, pending'[j] # None
                   PROVE  fid[pending'[j]] = j /\ task'[pending'[j]] = "open"
        BY <3>2 DEF PendingIsOpen
      <4>1. j # fid[r] /\ pending'[j] = pending[j]
        BY <1>0, <3>1, <3>2 DEF StoreType
      <4>2. pending[j] # q /\ pending[j] \in Requests
        BY <1>0, <3>1, <4>1, OneEntryPerCall DEF StoreType
      <4> QED
        BY <1>0, <3>2, <4>1, <4>2 DEF PendingIsOpen, TaskType
    <3>5. NoLostWaiter'
      <4> SUFFICES ASSUME NEW p \in Requests, task'[p] = "open"
                   PROVE  pending'[fid[p]] = p /\ (pc[p] = "arm" \/ timer'[p] # "off")
        BY <3>2 DEF NoLostWaiter
      <4>1. p # q /\ p # r /\ task[p] = "open"
        BY <1>0, <3>1, <3>2, <3>3 DEF TaskType
      <4>2. pending[fid[p]] = p /\ fid[p] \in Ids /\ fid[p] # fid[r]
        BY <1>0, <4>1 DEF NoLostWaiter, CallType
      <4> QED
        BY <1>0, <3>2, <4>1, <4>2 DEF StoreType, NoLostWaiter
    <3> QED
      BY <3>4, <3>5 DEF Table
  <2> QED
    BY <2>1, <2>2
<1>7. CASE Dispatch
  <2> DEFINE f == Head(fromBr)
  <2>1. f.id \in Ids /\ f.kind \in {"ack", "nack", "notify"}
    BY <1>0, <1>7, WireTypes DEF Dispatch, WireType, FromBrKinds, Frames
  <2>2. CASE pending[f.id] = None
    BY <1>0, <1>7, <2>2 DEF Dispatch, Table, PendingIsOpen, NoLostWaiter, callVars, taskVars
  <2>3. CASE pending[f.id] # None
    <3>1. Settle(f.id, f.kind) /\ UNCHANGED <<fid, pc>>
      BY <1>7, <2>3 DEF Dispatch, callVars
    <3> QED
      BY <2>1, <2>3, <3>1, SettleKeepsTable DEF TaskStates
  <2> QED
    BY <2>2, <2>3
<1>8. ASSUME NEW i \in Ids, FailOne(i) PROVE Table'
  <2>1. CASE pending[i] = None
    BY <1>0, <1>8, <2>1 DEF FailOne, Table, PendingIsOpen, NoLostWaiter, callVars
  <2>2. CASE pending[i] # None
    <3>1. Settle(i, "lost") /\ UNCHANGED <<fid, pc>>
      BY <1>8, <2>2 DEF FailOne, callVars
    <3> QED
      BY <2>2, <3>1, SettleKeepsTable DEF TaskStates
  <2> QED
    BY <2>1, <2>2
<1>9. CASE Connect \/ CloseConnection \/ SnapshotPending \/ Disconnected \/ BorderRouter
  <2>1. UNCHANGED <<pending, fid, task, timer, pc>>
    BY <1>9 DEF Connect, CloseConnection, SnapshotPending, Disconnected, BorderRouter,
       BrExecute, BrConfirmed, BrRepeat, BrNotify, callVars, taskVars, storeVars
  <2> QED
    BY <1>0, <2>1 DEF Table, PendingIsOpen, NoLostWaiter
<1> QED
  BY <1>1, <1>2, <1>3, <1>4, <1>5, <1>6, <1>7, <1>8, <1>9 DEF Next, CallStep, Timeout, RunLoop

-----------------------------------------------------------------------------
(***************************************************************************)
(* Outcomes and answers.                                                   *)
(***************************************************************************)

\* A call that has its frame id keeps it.
LEMMA IdStays ==
  ASSUME IInv, Next, NEW r \in Requests, pc[r] \notin NoTask
  PROVE  fid'[r] = fid[r] /\ pc'[r] \notin NoTask
<1>0. CallType
  BY DEF IInv, TypeOK
<1>1. ASSUME NEW q \in Requests, CallStep(q) PROVE fid'[r] = fid[r] /\ pc'[r] \notin NoTask
  BY <1>0, <1>1 DEF CallStep, NextIdLoad, NextIdStore, NextIdProbe, NextIdReturn, Register,
     ArmTimeout, AcquireLock, CancelWait, Write, WriteFails, Await, Goto, Finish, NoTask, CallType
<1>2. ASSUME NEW q \in Requests, Timeout(q) PROVE UNCHANGED <<fid, pc>>
  BY <1>2 DEF Timeout, TimeoutFires, TimeoutCallback, callVars
<1>3. CASE RunLoop \/ BorderRouter
  <2>1. UNCHANGED <<fid, pc>>
    BY <1>3 DEF RunLoop, Connect, Dispatch, CloseConnection, SnapshotPending, FailOne,
       Disconnected, BorderRouter, BrExecute, BrConfirmed, BrRepeat, BrNotify, callVars
  <2> QED
    BY <2>1
<1> QED
  BY <1>1, <1>2, <1>3 DEF Next

\* A task changes only from "none" to "open" and from "open" to an outcome;
\* an answer comes with the outcome of an open task registered under the id
\* of the frame.
LEMMA OutcomeStep ==
  ASSUME IInv, Next, NEW r \in Requests
  PROVE  /\ task[r] \notin {"none", "open"} => task'[r] = task[r]
         /\ task'[r] = "none" => task[r] = "none"
         /\ \/ answer'[r] = answer[r] /\ (task'[r] = task[r] \/ task'[r] \in {"open", "timeout", "lost"})
            \/ /\ task[r] = "open" /\ loop = "reading" /\ fromBr # <<>>
               /\ answer'[r] = Head(fromBr) /\ answer'[r].id = fid[r]
               /\ task'[r] = Head(fromBr).kind
<1> DEFINE Goal == /\ task[r] \notin {"none", "open"} => task'[r] = task[r]
                   /\ task'[r] = "none" => task[r] = "none"
                   /\ \/ /\ answer'[r] = answer[r]
                         /\ task'[r] = task[r] \/ task'[r] \in {"open", "timeout", "lost"}
                      \/ /\ task[r] = "open" /\ loop = "reading" /\ fromBr # <<>>
                         /\ answer'[r] = Head(fromBr) /\ answer'[r].id = fid[r]
                         /\ task'[r] = Head(fromBr).kind
<1>0. StoreType /\ CallType /\ TaskType /\ WireType /\ Fresh /\ PendingIsOpen
  BY DEF IInv, TypeOK
<1>1. ASSUME NEW q \in Requests, CallStep(q), ~ Register(q) PROVE Goal
  <2>1. UNCHANGED <<task, answer>>
    BY <1>1 DEF CallStep, NextIdLoad, NextIdStore, NextIdProbe, NextIdReturn, ArmTimeout,
       AcquireLock, CancelWait, Write, WriteFails, Await, taskVars
  <2> QED
    BY <2>1
<1>2. ASSUME NEW q \in Requests, Register(q) PROVE Goal
  <2>1. task[q] = "none" /\ UNCHANGED answer
    BY <1>0, <1>2 DEF Register, Fresh, NoTask
  <2>2. task' = [task EXCEPT ![q] = "open"] \/ UNCHANGED task
    BY <1>2 DEF Register
  <2> QED
    BY <1>0, <2>1, <2>2 DEF TaskType
<1>3. ASSUME NEW q \in Requests, Timeout(q) PROVE Goal
  <2>1. UNCHANGED answer
    BY <1>3 DEF Timeout, TimeoutFires, TimeoutCallback
  <2>2. \/ UNCHANGED task
        \/ pending[fid[q]] # None /\ task' = [task EXCEPT ![pending[fid[q]]] = "timeout"]
    <3>1. fid[q] \in Ids
      BY <1>0 DEF CallType
    <3> QED
      BY <1>3, <3>1, FirstOutcome DEF Timeout, TimeoutFires, TimeoutCallback
  <2>3. pending[fid[q]] # None => pending[fid[q]] \in Requests /\ task[pending[fid[q]]] = "open"
    BY <1>0 DEF StoreType, CallType, PendingIsOpen
  <2> QED
    BY <1>0, <2>1, <2>2, <2>3 DEF TaskType
<1>4. CASE Dispatch
  <2> DEFINE f == Head(fromBr)
  <2>1. f.id \in Ids
    BY <1>0, <1>4, WireTypes DEF Dispatch, WireType, Frames
  <2>2. CASE pending[f.id] = None
    BY <1>4, <2>2 DEF Dispatch, taskVars
  <2>3. CASE pending[f.id] # None
    <3>1. /\ pending[f.id] \in Requests
          /\ fid[pending[f.id]] = f.id
          /\ task[pending[f.id]] = "open"
      BY <1>0, <2>1, <2>3 DEF StoreType, PendingIsOpen
    <3>2. /\ task' = [task EXCEPT ![pending[f.id]] = f.kind]
          /\ answer' = [answer EXCEPT ![pending[f.id]] = f]
          /\ loop = "reading" /\ fromBr # <<>>
      BY <1>4, <2>1, <2>3, FirstOutcome DEF Dispatch, Settle
    <3>3. f.kind # "none"
      BY <1>0, <1>4, WireTypes DEF Dispatch, WireType, Frames
    <3> QED
      BY <1>0, <3>1, <3>2, <3>3 DEF TaskType
  <2> QED
    BY <2>2, <2>3
<1>5. ASSUME NEW i \in Ids, FailOne(i) PROVE Goal
  <2>1. UNCHANGED answer
    BY <1>5 DEF FailOne
  <2>2. \/ UNCHANGED task
        \/ pending[i] # None /\ task' = [task EXCEPT ![pending[i]] = "lost"]
    BY <1>5, FirstOutcome DEF FailOne, Settle
  <2>3. pending[i] # None => pending[i] \in Requests /\ task[pending[i]] = "open"
    BY <1>0 DEF StoreType, PendingIsOpen
  <2> QED
    BY <1>0, <2>1, <2>2, <2>3 DEF TaskType
<1>6. CASE Connect \/ CloseConnection \/ SnapshotPending \/ Disconnected \/ BorderRouter
  <2>1. UNCHANGED <<task, answer>>
    BY <1>6 DEF Connect, CloseConnection, SnapshotPending, Disconnected, BorderRouter,
       BrExecute, BrConfirmed, BrRepeat, BrNotify, taskVars
  <2> QED
    BY <2>1
<1> QED
  BY <1>1, <1>2, <1>3, <1>4, <1>5, <1>6 DEF Next, CallStep, RunLoop

\* Answered survives every step.
LEMMA AnsweredStep ==
  ASSUME IInv, Next
  PROVE  Answered'
<1>0. CallType /\ TaskType /\ WireType /\ Fresh /\ Answered /\ TypeOK'
  BY CallTypes, LoopTypes, BorderRouterTypes DEF IInv, TypeOK, Next
<1> SUFFICES ASSUME NEW r \in Requests
             PROVE  /\ task'[r] \in {"ack", "nack", "notify"} => answer'[r] # None
                    /\ answer'[r] # None => pc'[r] \notin NoTask /\ answer'[r].id = fid'[r]
                    /\ pc'[r] \in {"confirmLock", "confirmWrite"} => task'[r] = "ack"
                    /\ pc'[r] \in {"arm", "lock", "write", "await"} => task'[r] # "none"
  BY DEF Answered
<1>1. task[r] = "open" => pc[r] \notin NoTask
  BY <1>0 DEF Fresh
<1>2. Head(fromBr) # None \/ fromBr = <<>>
  BY <1>0, WireTypes DEF WireType
<1>3. task'[r] \in {"ack", "nack", "notify"} => answer'[r] # None
  BY <1>0, <1>2, OutcomeStep DEF Answered
<1>4. answer'[r] # None => pc'[r] \notin NoTask /\ answer'[r].id = fid'[r]
  BY <1>0, <1>1, <1>2, IdStays, OutcomeStep DEF Answered
<1>5. \/ UNCHANGED <<fid, pc>>
      \/ \E q \in Requests : CallStep(q)
  <2>1. ASSUME NEW q \in Requests, Timeout(q) PROVE UNCHANGED <<fid, pc>>
    BY <2>1 DEF Timeout, TimeoutFires, TimeoutCallback, callVars
  <2>2. CASE RunLoop \/ BorderRouter
    BY <2>2 DEF RunLoop, Connect, Dispatch, CloseConnection, SnapshotPending, FailOne,
       Disconnected, BorderRouter, BrExecute, BrConfirmed, BrRepeat, BrNotify, callVars
  <2> QED
    BY <2>1, <2>2 DEF Next
<1>6. pc'[r] \in {"confirmLock", "confirmWrite"} => task'[r] = "ack"
  <2>1. ASSUME NEW q \in Requests, CallStep(q), pc'[r] \in {"confirmLock", "confirmWrite"}
        PROVE  pc[r] \in {"confirmLock", "confirmWrite"} \/ task[r] = "ack"
    BY <1>0, <2>1 DEF CallStep, NextIdLoad, NextIdStore, NextIdProbe, NextIdReturn, Register,
       ArmTimeout, AcquireLock, CancelWait, Write, WriteFails, Await, Goto, Finish, CallType
  <2> QED
    BY <1>0, <1>5, <2>1, OutcomeStep DEF Answered
<1>7. pc'[r] \in {"arm", "lock", "write", "await"} => task'[r] # "none"
  <2>1. ASSUME NEW q \in Requests, CallStep(q), pc'[r] \in {"arm", "lock", "write", "await"}
        PROVE  pc[r] \in {"arm", "lock", "write", "await"} \/ task'[r] = "open"
    BY <1>0, <2>1 DEF CallStep, NextIdLoad, NextIdStore, NextIdProbe, NextIdReturn, Register,
       ArmTimeout, AcquireLock, CancelWait, Write, WriteFails, Await, Goto, Finish, CallType, TaskType
  <2> QED
    BY <1>0, <1>5, <2>1, OutcomeStep DEF Answered
<1> QED
  BY <1>3, <1>4, <1>6, <1>7

-----------------------------------------------------------------------------
(***************************************************************************)
(* The frames on the wires.                                                *)
(***************************************************************************)

\* A frame of a request that has its id stays owned.
LEMMA OwnedStays ==
  ASSUME IInv, Next, NEW f \in Frames, Owned(f)
  PROVE  Owned(f)'
<1>1. f.req # None => f.req \in Requests
  BY DEF Frames
<1> QED
  BY <1>1, IdStays DEF Owned

\* What a step may do to the wire to the border router ...
ToBrStep ==
  \/ toBr' = toBr \/ toBr' = <<>> \/ (toBr # <<>> /\ toBr' = Tail(toBr))
  \/ \E f \in Frames : toBr' = Append(toBr, f) /\ f.req # None /\ Owned(f)'

\* ... to the wire from it ...
FromBrStep ==
  \/ fromBr' = fromBr \/ fromBr' = <<>> \/ (fromBr # <<>> /\ fromBr' = Tail(fromBr))
  \/ \E f \in Frames : /\ fromBr' = Append(fromBr, f)
                       /\ Owned(f)'
                       /\ f.kind \in {"ack", "nack", "notify"}

\* ... and to the unconfirmed answer.
BrIpStep == brIp' = brIp \/ (Owned(brIp)' /\ brIp'.kind = "ack")

\* Every step is of that shape.
LEMMA WireShape ==
  ASSUME IInv, Next
  PROVE  ToBrStep /\ FromBrStep /\ BrIpStep
<1>0. /\ CallType /\ TaskType /\ WireType /\ BrType /\ Answered /\ WireOwned /\ FromBrKinds
  BY DEF IInv, TypeOK
<1>1. ASSUME NEW r \in Requests, CallStep(r), ~ Write(r)
      PROVE  ToBrStep /\ FromBrStep /\ BrIpStep
  BY <1>1 DEF CallStep, NextIdLoad, NextIdStore, NextIdProbe, NextIdReturn, Register,
     ArmTimeout, AcquireLock, CancelWait, WriteFails, Await, wireVars, brVars,
     ToBrStep, FromBrStep, BrIpStep
<1>2. ASSUME NEW r \in Requests, Write(r)
      PROVE  ToBrStep /\ FromBrStep /\ BrIpStep
  <2>1. pc'[r] \notin NoTask /\ UNCHANGED <<fid, fromBr, brIp>>
    BY <1>0, <1>2 DEF Write, Goto, Finish, CallType, NoTask, brVars
  <2>2. \E f \in Frames : f.id = fid[r] /\ f.req = r /\ toBr' = Append(toBr, f)
    <3>1. CASE pc[r] = "write"
      <4>1. Command(r) \in Frames /\ Command(r).req = r /\ Command(r).id = fid[r]
        BY <1>0 DEF Command, Frames, CallType
      <4> QED
        BY <1>2, <3>1, <4>1 DEF Write
    <3>2. CASE pc[r] = "confirmWrite"
      <4>1. answer[r] \in Frames /\ answer[r].id = fid[r]
        BY <1>0, <3>2 DEF Answered, TaskType
      <4>2. Confirm(r) \in Frames /\ Confirm(r).req = r /\ Confirm(r).id = fid[r]
        BY <4>1 DEF Confirm, Frames
      <4> QED
        BY <1>2, <3>2, <4>2 DEF Write
    <3> QED
      BY <1>2, <3>1, <3>2 DEF Write
  <2>3. PICK f \in Frames : f.id = fid[r] /\ f.req = r /\ toBr' = Append(toBr, f)
    BY <2>2
  <2>4. f.req # None /\ Owned(f)'
    BY <2>1, <2>3 DEF Owned
  <2> QED
    BY <2>1, <2>3, <2>4 DEF ToBrStep, FromBrStep, BrIpStep
<1>3. ASSUME NEW r \in Requests, Timeout(r)
      PROVE  ToBrStep /\ FromBrStep /\ BrIpStep
  BY <1>3 DEF Timeout, TimeoutFires, TimeoutCallback, wireVars, brVars,
     ToBrStep, FromBrStep, BrIpStep
<1>4. CASE RunLoop
  <2>1. toBr' = toBr \/ toBr' = <<>>
    BY <1>4 DEF RunLoop, Connect, Dispatch, CloseConnection, SnapshotPending, FailOne,
       Disconnected, wireVars
  <2>2. fromBr' = fromBr \/ fromBr' = <<>> \/ (fromBr # <<>> /\ fromBr' = Tail(fromBr))
    BY <1>4 DEF RunLoop, Connect, Dispatch, CloseConnection, SnapshotPending, FailOne,
       Disconnected, wireVars
  <2>3. brIp' = brIp \/ brIp' = NoIp
    BY <1>4 DEF RunLoop, Connect, Dispatch, CloseConnection, SnapshotPending, FailOne,
       Disconnected, brVars
  <2> QED
    BY <2>1, <2>2, <2>3 DEF ToBrStep, FromBrStep, BrIpStep, NoIp, Owned
<1>5. CASE BrExecute \/ BrConfirmed
  <2>1. toBr # <<>> /\ UNCHANGED <<fid, pc>> /\ toBr' = Tail(toBr)
    BY <1>5 DEF BrExecute, BrConfirmed, callVars
  <2>2. PICK f \in Frames : f = Head(toBr)
    BY <1>0, <2>1, WireTypes DEF WireType
  <2>3. f.req # None /\ f.id = fid[f.req] /\ pc[f.req] \notin NoTask
    BY <1>0, <2>1, <2>2, WireTypes DEF WireType, WireOwned, Owned
  <2>4. ASSUME NEW g, g = Reply(f, "ack") \/ g = Reply(f, "nack")
        PROVE  g \in Frames /\ Owned(g)' /\ g.kind \in {"ack", "nack"}
    <3>1. g \in Frames /\ g.id = f.id /\ g.req = f.req /\ g.kind \in {"ack", "nack"}
      BY <2>4 DEF Reply, Frames
    <3> QED
      BY <2>1, <2>3, <3>1 DEF Owned
  <2>5. \/ fromBr' = fromBr
        \/ \E g : (g = Reply(f, "ack") \/ g = Reply(f, "nack")) /\ fromBr' = Append(fromBr, g)
    BY <1>5, <2>2 DEF BrExecute, BrConfirmed
  <2>6. FromBrStep
    BY <2>4, <2>5 DEF FromBrStep
  <2>7. PICK g : g = Reply(f, "ack")
    OBVIOUS
  <2>8. brIp' = brIp \/ brIp' = NoIp \/ brIp' = g
    BY <1>5, <2>2, <2>7 DEF BrExecute, BrConfirmed
  <2>9. g.kind = "ack" /\ Owned(g)'
    BY <2>4, <2>7 DEF Reply
  <2>10. BrIpStep
    BY <2>8, <2>9 DEF BrIpStep, NoIp, Owned
  <2> QED
    BY <2>1, <2>6, <2>10 DEF ToBrStep
<1>6. CASE BrRepeat
  <2>1. UNCHANGED <<fid, pc, toBr>> /\ (brIp' = brIp \/ brIp' = NoIp)
    BY <1>6 DEF BrRepeat, callVars
  <2>2. fromBr' = fromBr \/ fromBr' = Append(fromBr, brIp)
    BY <1>6 DEF BrRepeat
  <2>3. PICK f \in Frames : f = brIp
    BY <1>0 DEF BrType
  <2>4. f.kind = "ack" /\ Owned(f)'
    BY <1>0, <2>1, <2>3 DEF FromBrKinds, WireOwned, Owned
  <2> QED
    BY <2>1, <2>2, <2>3, <2>4 DEF ToBrStep, FromBrStep, BrIpStep, NoIp, Owned
<1>7. CASE BrNotify
  <2>1. UNCHANGED <<fid, pc, toBr, brIp>>
    BY <1>7 DEF BrNotify, callVars
  <2>2. fromBr' = fromBr \/ fromBr' = Append(fromBr, Notification)
    BY <1>7 DEF BrNotify
  <2>3. PICK f \in Frames : f = Notification
    BY <1>0 DEF Notification, Frames, BrType
  <2>4. f.kind = "notify" /\ f.req = None
    BY <2>3 DEF Notification
  <2> QED
    BY <2>1, <2>2, <2>3, <2>4 DEF ToBrStep, FromBrStep, BrIpStep, Owned
<1> QED
  BY <1>1, <1>2, <1>3, <1>4, <1>5, <1>6, <1>7 DEF Next, CallStep, BorderRouter

\* A wire whose frames are owned stays so when its head is taken.
LEMMA TailOwned ==
  ASSUME NEW q \in Seq(Frames), q # <<>>, NEW k \in 1 .. Len(Tail(q))
  PROVE  \E j \in 1 .. Len(q) : Tail(q)[k] = q[j]
BY WireTypes

\* WireOwned and FromBrKinds survive every step.
LEMMA WireOwnedStep ==
  ASSUME IInv, Next
  PROVE  WireOwned' /\ FromBrKinds'
<1>0. /\ TaskType /\ WireType /\ BrType /\ WireOwned /\ FromBrKinds
      /\ ToBrStep /\ FromBrStep /\ BrIpStep
  BY WireShape DEF IInv, TypeOK
<1>1. ASSUME NEW k \in 1 .. Len(toBr') PROVE Owned(toBr[k])' /\ toBr'[k].req # None
  <2>1. \/ \E j \in 1 .. Len(toBr) : toBr'[k] = toBr[j]
        \/ \E f \in Frames : toBr'[k] = f /\ f.req # None /\ Owned(f)'
    <3>1. CASE toBr' = toBr \/ toBr' = <<>> \/ (toBr # <<>> /\ toBr' = Tail(toBr))
      <4>1. CASE toBr' = toBr \/ toBr' = <<>>
        BY <1>1, <4>1
      <4>2. CASE toBr # <<>> /\ toBr' = Tail(toBr)
        BY <1>0, <1>1, <4>2, TailOwned DEF WireType
      <4> QED
        BY <3>1, <4>1, <4>2
    <3>2. CASE \E f \in Frames : toBr' = Append(toBr, f) /\ f.req # None /\ Owned(f)'
      BY <1>0, <1>1, <3>2, WireAppend DEF WireType
    <3> QED
      BY <1>0, <3>1, <3>2 DEF ToBrStep
  <2>2. ASSUME NEW j \in 1 .. Len(toBr), toBr'[k] = toBr[j]
        PROVE  Owned(toBr[k])' /\ toBr'[k].req # None
    <3>1. PICK f \in Frames : f = toBr[j]
      BY <1>0 DEF WireType
    <3>2. Owned(f)' /\ f.req # None
      BY <1>0, <3>1, OwnedStays DEF WireOwned
    <3> QED
      BY <2>2, <3>1, <3>2 DEF Owned
  <2> QED
    BY <2>1, <2>2 DEF Owned
<1>2. ASSUME NEW k \in 1 .. Len(fromBr')
      PROVE  Owned(fromBr[k])' /\ fromBr'[k].kind \in {"ack", "nack", "notify"}
  <2>1. \/ \E j \in 1 .. Len(fromBr) : fromBr'[k] = fromBr[j]
        \/ \E f \in Frames : fromBr'[k] = f /\ Owned(f)' /\ f.kind \in {"ack", "nack", "notify"}
    <3>1. CASE fromBr' = fromBr \/ fromBr' = <<>> \/ (fromBr # <<>> /\ fromBr' = Tail(fromBr))
      <4>1. CASE fromBr' = fromBr \/ fromBr' = <<>>
        BY <1>2, <4>1
      <4>2. CASE fromBr # <<>> /\ fromBr' = Tail(fromBr)
        BY <1>0, <1>2, <4>2, TailOwned DEF WireType
      <4> QED
        BY <3>1, <4>1, <4>2
    <3>2. CASE \E f \in Frames : /\ fromBr' = Append(fromBr, f)
                                 /\ Owned(f)'
                                 /\ f.kind \in {"ack", "nack", "notify"}
      BY <1>0, <1>2, <3>2, WireAppend DEF WireType
    <3> QED
      BY <1>0, <3>1, <3>2 DEF FromBrStep
  <2>2. ASSUME NEW j \in 1 .. Len(fromBr), fromBr'[k] = fromBr[j]
        PROVE  Owned(fromBr[k])' /\ fromBr'[k].kind \in {"ack", "nack", "notify"}
    <3>1. PICK f \in Frames : f = fromBr[j]
      BY <1>0 DEF WireType
    <3>2. Owned(f)' /\ f.kind \in {"ack", "nack", "notify"}
      BY <1>0, <3>1, OwnedStays DEF WireOwned, FromBrKinds
    <3> QED
      BY <2>2, <3>1, <3>2 DEF Owned
  <2> QED
    BY <2>1, <2>2 DEF Owned
<1>3. Owned(brIp)' /\ brIp'.kind = "ack"
  <2>1. CASE brIp' = brIp
    <3>1. PICK f \in Frames : f = brIp
      BY <1>0 DEF BrType
    <3>2. Owned(f)'
      BY <1>0, <3>1, OwnedStays DEF WireOwned
    <3> QED
      BY <1>0, <2>1, <3>1, <3>2 DEF Owned, FromBrKinds
  <2> QED
    BY <1>0, <2>1 DEF BrIpStep
<1>4. ASSUME NEW r \in Requests, answer'[r] # None PROVE Owned(answer[r])'
  <2>1. answer'[r] = answer[r] \/ (fromBr # <<>> /\ answer'[r] = Head(fromBr))
    BY OutcomeStep
  <2>2. PICK f \in Frames : f = answer'[r] /\ Owned(f)
    BY <1>0, <1>4, <2>1, WireTypes DEF TaskType, WireType, WireOwned
  <2>3. Owned(f)'
    BY <2>2, OwnedStays
  <2> QED
    BY <2>2, <2>3 DEF Owned
<1> QED
  BY <1>1, <1>2, <1>3, <1>4 DEF WireOwned, FromBrKinds

-----------------------------------------------------------------------------
(***************************************************************************)
(* A command is executed at most once.                                     *)
(***************************************************************************)

\* A call never goes back to a point before its write, and no step but a
\* write puts a command on the wire, no step but BrExecute runs one.
LEMMA SendShape ==
  ASSUME IInv, Next
  PROVE  /\ \A r \in Requests : pc[r] \notin Unsent => pc'[r] \notin Unsent
         /\ \/ toBr' = toBr \/ toBr' = <<>> \/ (toBr # <<>> /\ toBr' = Tail(toBr))
            \/ \E r \in Requests : Write(r)
         /\ UNCHANGED runs \/ BrExecute
<1>0. CallType
  BY DEF IInv, TypeOK
<1>1. ASSUME NEW q \in Requests, CallStep(q)
      PROVE  \A r \in Requests : pc[r] \notin Unsent => pc'[r] \notin Unsent
  BY <1>0, <1>1 DEF CallStep, NextIdLoad, NextIdStore, NextIdProbe, NextIdReturn, Register,
     ArmTimeout, AcquireLock, CancelWait, Write, WriteFails, Await, Goto, Finish, Unsent, CallType
<1>2. ASSUME NEW q \in Requests, CallStep(q) PROVE UNCHANGED runs /\ (toBr' = toBr \/ Write(q))
  BY <1>2 DEF CallStep, NextIdLoad, NextIdStore, NextIdProbe, NextIdReturn, Register,
     ArmTimeout, AcquireLock, CancelWait, Write, WriteFails, Await, wireVars, brVars
<1>3. ASSUME NEW q \in Requests, Timeout(q) PROVE UNCHANGED <<pc, runs, toBr>>
  BY <1>3 DEF Timeout, TimeoutFires, TimeoutCallback, callVars, wireVars, brVars
<1>4. CASE RunLoop
  <2>1. UNCHANGED <<pc, runs>>
    BY <1>4 DEF RunLoop, Connect, Dispatch, CloseConnection, SnapshotPending, FailOne,
       Disconnected, callVars, brVars
  <2>2. toBr' = toBr \/ toBr' = <<>>
    BY <1>4 DEF RunLoop, Connect, Dispatch, CloseConnection, SnapshotPending, FailOne,
       Disconnected, wireVars
  <2> QED
    BY <2>1, <2>2
<1>5. CASE BorderRouter
  BY <1>5 DEF BorderRouter, BrExecute, BrConfirmed, BrRepeat, BrNotify, callVars
<1> QED
  BY <1>1, <1>2, <1>3, <1>4, <1>5 DEF Next

\* SentOnce survives every step.
LEMMA SentOnceStep ==
  ASSUME IInv, Next
  PROVE  SentOnce'
<1>0. CallType /\ WireType /\ BrType /\ WireOwned /\ RunOnce /\ WireFresh /\ WireDistinct
  BY DEF IInv, TypeOK, SentOnce
<1>a. \A r \in Requests : pc'[r] \in Unsent => pc[r] \in Unsent
  BY SendShape
<1>b. \A k \in 1 .. Len(toBr) : toBr[k] \in Frames /\ toBr[k].req \in Requests
  <2>1. \A k \in 1 .. Len(toBr) : toBr[k] \in Frames
    BY <1>0 DEF WireType
  <2>2. \A k \in 1 .. Len(toBr) : toBr[k].req # None
    BY <1>0 DEF WireOwned
  <2>3. \A f \in Frames : f.req \in Requests \cup {None}
    BY DEF Frames
  <2> QED
    BY <2>1, <2>2, <2>3
<1>1. ASSUME UNCHANGED runs, UNCHANGED toBr PROVE SentOnce'
  <2>1. RunOnce'
    BY <1>0, <1>a, <1>1 DEF RunOnce
  <2>2. WireFresh'
    BY <1>0, <1>a, <1>b, <1>1 DEF WireFresh, IsCommand
  <2>3. WireDistinct'
    BY <1>0, <1>1 DEF WireDistinct, IsCommand
  <2> QED
    BY <2>1, <2>2, <2>3 DEF SentOnce
<1>2. ASSUME UNCHANGED runs, toBr' = <<>> PROVE SentOnce'
  <2>1. RunOnce'
    BY <1>0, <1>a, <1>2 DEF RunOnce
  <2> QED
    BY <1>2, <2>1 DEF SentOnce, WireFresh, WireDistinct
<1>3. ASSUME toBr # <<>>, toBr' = Tail(toBr)
      PROVE  /\ WireDistinct'
             /\ \A k \in 1 .. Len(toBr') :
                  toBr'[k] = toBr[k + 1] /\ k + 1 \in 1 .. Len(toBr) /\ k + 1 # 1
  <2>1. \A k \in 1 .. Len(toBr') :
          toBr'[k] = toBr[k + 1] /\ k + 1 \in 1 .. Len(toBr) /\ k + 1 # 1
    BY <1>0, <1>3, WireTypes DEF WireType
  <2>2. WireDistinct'
    <3> SUFFICES ASSUME NEW k \in 1 .. Len(toBr'), NEW l \in 1 .. Len(toBr'),
                        IsCommand(toBr'[k]), IsCommand(toBr'[l]), toBr'[k].req = toBr'[l].req
                 PROVE  k = l
      BY DEF WireDistinct, IsCommand
    <3>1. k + 1 = l + 1
      BY <1>0, <2>1 DEF WireDistinct
    <3> QED
      BY <3>1
  <2> QED
    BY <2>1, <2>2
<1>4. ASSUME UNCHANGED runs, toBr # <<>>, toBr' = Tail(toBr) PROVE SentOnce'
  <2>1. RunOnce'
    BY <1>0, <1>a, <1>4 DEF RunOnce
  <2>2. WireFresh'
    <3> SUFFICES ASSUME NEW k \in 1 .. Len(toBr'), IsCommand(toBr'[k])
                 PROVE  runs'[toBr'[k].req] = 0 /\ pc'[toBr'[k].req] \notin Unsent
      BY DEF WireFresh, IsCommand
    <3>1. toBr'[k] = toBr[k + 1] /\ k + 1 \in 1 .. Len(toBr)
      BY <1>3, <1>4
    <3> QED
      BY <1>0, <1>a, <1>b, <1>4, <3>1 DEF WireFresh
  <2> QED
    BY <1>3, <1>4, <2>1, <2>2 DEF SentOnce
<1>5. ASSUME NEW r \in Requests, Write(r) PROVE SentOnce'
  <2>1. UNCHANGED runs
    BY <1>5 DEF Write, brVars
  <2>2. PICK f : f = IF pc[r] = "write" THEN Command(r) ELSE Confirm(r)
    OBVIOUS
  <2>3. /\ f.req = r
        /\ IsCommand(f) => pc[r] = "write" /\ pc'[r] = "await"
        /\ toBr' = Append(toBr, f)
    BY <1>0, <1>5, <2>2 DEF Write, Command, Confirm, IsCommand, Goto, CallType
  <2>4. /\ Len(toBr') = Len(toBr) + 1 /\ toBr'[Len(toBr) + 1] = f
        /\ \A k \in 1 .. Len(toBr) : toBr'[k] = toBr[k]
    BY <1>0, <2>3 DEF WireType
  <2>5. \A k \in 1 .. Len(toBr') : k \in 1 .. Len(toBr) \/ k = Len(toBr) + 1
    BY <1>0, <2>4 DEF WireType
  <2>6. IsCommand(f) =>
          runs[r] = 0 /\ \A k \in 1 .. Len(toBr) : IsCommand(toBr[k]) => toBr[k].req # r
    BY <1>0, <2>3 DEF RunOnce, WireFresh, Unsent
  <2>7. RunOnce'
    BY <1>0, <1>a, <2>1 DEF RunOnce
  <2>8. WireFresh'
    <3> SUFFICES ASSUME NEW k \in 1 .. Len(toBr'), IsCommand(toBr'[k])
                 PROVE  runs'[toBr'[k].req] = 0 /\ pc'[toBr'[k].req] \notin Unsent
      BY DEF WireFresh, IsCommand
    <3>1. CASE k \in 1 .. Len(toBr)
      BY <1>0, <1>a, <1>b, <2>1, <2>4, <3>1 DEF WireFresh
    <3>2. CASE k = Len(toBr) + 1
      BY <2>1, <2>3, <2>4, <2>6, <3>2 DEF Unsent
    <3> QED
      BY <2>5, <3>1, <3>2
  <2>9. WireDistinct'
    <3> SUFFICES ASSUME NEW k \in 1 .. Len(toBr'), NEW l \in 1 .. Len(toBr'),
                        IsCommand(toBr'[k]), IsCommand(toBr'[l]), toBr'[k].req = toBr'[l].req
                 PROVE  k = l
      BY DEF WireDistinct, IsCommand
    <3> QED
      BY <1>0, <2>3, <2>4, <2>5, <2>6 DEF WireDistinct
  <2> QED
    BY <2>7, <2>8, <2>9 DEF SentOnce
<1>6. ASSUME BrExecute PROVE SentOnce'
  <2>1. /\ toBr # <<>> /\ Head(toBr).kind = "command" /\ toBr' = Tail(toBr) /\ pc' = pc
        /\ runs' = [runs EXCEPT ![Head(toBr).req] = @ + 1]
    BY <1>6 DEF BrExecute, callVars
  <2>2. Head(toBr) = toBr[1] /\ 1 \in 1 .. Len(toBr)
    BY <1>0, <2>1, WireTypes DEF WireType
  <2>3. PICK r \in Requests : r = toBr[1].req
    BY <1>b, <2>2
  <2>4. runs[r] = 0 /\ pc[r] \notin Unsent
    BY <1>0, <2>1, <2>2, <2>3 DEF WireFresh, IsCommand
  <2>5. \A q \in Requests : runs'[q] = IF q = r THEN 1 ELSE runs[q]
    BY <1>0, <2>1, <2>2, <2>3, <2>4 DEF BrType
  <2>6. RunOnce'
    BY <1>0, <2>1, <2>4, <2>5 DEF RunOnce
  <2>7. WireFresh'
    <3> SUFFICES ASSUME NEW k \in 1 .. Len(toBr'), IsCommand(toBr'[k])
                 PROVE  runs'[toBr'[k].req] = 0 /\ pc'[toBr'[k].req] \notin Unsent
      BY DEF WireFresh, IsCommand
    <3>1. toBr'[k] = toBr[k + 1] /\ k + 1 \in 1 .. Len(toBr) /\ k + 1 # 1
      BY <1>3, <2>1
    <3>2. toBr[k + 1].req \in Requests /\ toBr[k + 1].req # r
      BY <1>0, <1>b, <2>1, <2>2, <2>3, <3>1 DEF WireDistinct, IsCommand
    <3> QED
      BY <1>0, <2>1, <2>5, <3>1, <3>2 DEF WireFresh
  <2> QED
    BY <1>3, <2>1, <2>6, <2>7 DEF SentOnce
<1> QED
  BY <1>1, <1>2, <1>4, <1>5, <1>6, SendShape

-----------------------------------------------------------------------------
(***************************************************************************)
(* The theorems.                                                           *)
(***************************************************************************)

\* IInv is an invariant of the request path.
THEOREM Invariance == Spec => []IInv
<1>1. IInv /\ Next => IInv'
  <2> SUFFICES ASSUME IInv, Next PROVE IInv'
    OBVIOUS
  <2>1. TypeOK'
    BY CallTypes, LoopTypes, BorderRouterTypes DEF Next
  <2> QED
    BY <2>1, FreshStep, TableStep, AnsweredStep, WireOwnedStep, SentOnceStep DEF IInv, Table
<1>2. IInv /\ UNCHANGED vars => IInv'
  BY DEF IInv, TypeOK, StoreType, CallType, TaskType, ReturnType, LinkType, WireType, BrType,
     Fresh, PendingIsOpen, NoLostWaiter, Answered, WireOwned, Owned, FromBrKinds, SentOnce,
     RunOnce, WireFresh, WireDistinct,
     vars, storeVars, callVars, taskVars, linkVars, wireVars, brVars
<1> QED
  BY InitIInv, <1>1, <1>2, PTL DEF Spec

\* Every variable keeps its type.
THEOREM TypeCorrect == Spec => []TypeOK
<1>1. IInv => TypeOK
  BY DEF IInv
<1> QED
  BY <1>1, Invariance, PTL

\* The table of open requests holds open requests only, under their own ids.
THEOREM TableIsOpen == Spec => []PendingIsOpen
<1>1. IInv => PendingIsOpen
  BY DEF IInv
<1> QED
  BY <1>1, Invariance, PTL

\* No request without an outcome is ever out of the table or without a
\* running timeout, however many calls, wraps of the id and reconnects.
THEOREM NobodyStranded == Spec => []NoLostWaiter
<1>1. IInv => NoLostWaiter
  BY DEF IInv
<1> QED
  BY <1>1, Invariance, PTL

\* The border router executes no command twice.
THEOREM ExecutedOnce == Spec => []AtMostOnce
<1>1. IInv => AtMostOnce
  BY DEF IInv, SentOnce, RunOnce, AtMostOnce
<1> QED
  BY <1>1, Invariance, PTL

\* A request answered with another's frame had been given the same id.
THEOREM Misdelivery == Spec => []MisdeliveryNeedsReuse
<1>1. IInv => MisdeliveryNeedsReuse
  <2> SUFFICES ASSUME IInv, NEW r \in Requests, answer[r] # None, answer[r].req # None
               PROVE  fid[answer[r].req] = fid[r]
    BY DEF MisdeliveryNeedsReuse
  <2>1. answer[r].id = fid[answer[r].req] /\ answer[r].id = fid[r]
    BY DEF IInv, WireOwned, Owned, Answered
  <2> QED
    BY <2>1
<1> QED
  BY <1>1, Invariance, PTL
=============================================================================
