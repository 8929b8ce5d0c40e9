----------------------- MODULE BrTransportRefinement -----------------------
(***************************************************************************)
(* The request path implements RequestReply while no two calls share a     *)
(* frame id, for any number of calls, ids, connections and notifications.  *)
(***************************************************************************)
EXTENDS BrTransportProofs

\* A call has a result from its return on.
Returned == \A r \in Requests : pc[r] = "done" <=> result[r] # "none"

\* A frame that answers a request answers one that was executed, or refuses
\* the confirm of one that has returned.
Backed(f) ==
  f.kind \in {"ack", "nack"} => f.req # None /\ (runs[f.req] = 1 \/ pc[f.req] = "done")

AnswersBacked ==
  /\ \A k \in 1 .. Len(fromBr) : Backed(fromBr[k])
  /\ brIp.id # NoIp.id => Backed(brIp)
  /\ \A r \in Requests : answer[r] # None => Backed(answer[r])

\* The confirm is the last thing a call does.
ConfirmsDone == \A k \in 1 .. Len(toBr) : toBr[k].kind = "confirm" => pc[toBr[k].req] = "done"

\* A task has the outcome of the frame that completed it.
KindKept == \A r \in Requests : task[r] \in {"ack", "nack"} => answer[r].kind = task[r]

RInv == IInv /\ Returned /\ AnswersBacked /\ ConfirmsDone /\ KindKept

\* The calls as RequestReply knows them.
Calls ==
  [r \in Requests |->
     CASE pc[r] = "idle" -> "idle"
       [] pc[r] # "idle" /\ result[r] = "none" -> "open"
       [] result[r] \in {"ok", "nack"} -> "answered"
       [] OTHER -> "failed"]

-----------------------------------------------------------------------------
(***************************************************************************)
(* The invariant.                                                          *)
(***************************************************************************)

\* The initial state satisfies the invariant.
LEMMA InitRInv == Init => RInv
<1> SUFFICES ASSUME Init PROVE RInv
  OBVIOUS
<1>1. Returned /\ AnswersBacked /\ ConfirmsDone /\ KindKept
  BY DEF Init, Returned, AnswersBacked, ConfirmsDone, KindKept
<1> QED
  BY <1>1, InitIInv DEF RInv

\* A step of a call moves it on, or makes it return with a result; an answer
\* is the task's, or follows it by a confirm.
LEMMA CallShape ==
  ASSUME IInv, NEW r \in Requests, CallStep(r)
  PROVE  /\ pc[r] # "done"
         /\ UNCHANGED runs
         /\ \/ \E s \in Steps \ {"idle", "done"} : pc' = [pc EXCEPT ![r] = s] /\ result' = result
            \/ \E what \in Results \ {"none"} :
                 /\ pc[r] # "idle"
                 /\ pc' = [pc EXCEPT ![r] = "done"] /\ result' = [result EXCEPT ![r] = what]
                 /\ what \in {"ok", "nack"} =>
                      \/ pc[r] = "await" /\ task[r] \in {"ack", "nack"}
                      \/ pc[r] = "confirmWrite"
<1>0. CallType /\ TaskType /\ Answered
  BY DEF IInv, TypeOK
<1> DEFINE Moves == \E s \in Steps \ {"idle", "done"} : pc' = [pc EXCEPT ![r] = s] /\ result' = result
           Returns(what) == pc' = [pc EXCEPT ![r] = "done"] /\ result' = [result EXCEPT ![r] = what]
<1>1. pc[r] # "done" /\ UNCHANGED runs
  BY DEF CallStep, NextIdLoad, NextIdStore, NextIdProbe, NextIdReturn, Register,
     ArmTimeout, AcquireLock, CancelWait, Write, WriteFails, Await, brVars
<1>2. CASE NextIdLoad(r) \/ NextIdStore(r) \/ NextIdReturn(r)
  <2>1. Moves
    BY <1>2 DEF NextIdLoad, NextIdStore, NextIdReturn, Goto, Steps, Issued
  <2> QED
    BY <1>1, <2>1
<1>3. CASE NextIdProbe(r) \/ Register(r) \/ ArmTimeout(r)
  <2>1. pc[r] # "idle"
    BY <1>3 DEF NextIdProbe, Register, ArmTimeout
  <2>2. Moves \/ Returns("noFreeId") \/ Returns("duplicate") \/ Returns("disposed")
    BY <1>3 DEF NextIdProbe, Register, ArmTimeout, Goto, Finish, Steps, Issued
  <2> QED
    BY <1>1, <2>1, <2>2 DEF Results
<1>4. CASE AcquireLock(r) \/ CancelWait(r) \/ WriteFails(r)
  <2>1. pc[r] # "idle"
    BY <1>4 DEF AcquireLock, CancelWait, WriteFails
  <2>2. Moves \/ Returns("notConnected") \/ Returns("cancelled") \/ Returns("sendError")
    BY <1>4 DEF AcquireLock, CancelWait, WriteFails, Goto, Finish, Steps, Issued
  <2> QED
    BY <1>1, <2>1, <2>2 DEF Results
<1>5. CASE Write(r)
  <2>1. pc[r] # "idle"
    BY <1>5 DEF Write
  <2>2. Moves \/ (pc[r] = "confirmWrite" /\ Returns("ok"))
    BY <1>5 DEF Write, Goto, Finish, Steps, Issued
  <2> QED
    BY <1>1, <2>1, <2>2 DEF Results
<1>6. CASE Await(r)
  <2>1. pc[r] = "await" /\ task[r] \notin {"open", "none"}
    BY <1>0, <1>6 DEF Await, Answered
  <2>2. Moves \/ Returns(Outcome(r))
    BY <1>6 DEF Await, Goto, Finish, Steps, Issued
  <2>3. Outcome(r) \in Results \ {"none"}
        /\ (Outcome(r) \in {"ok", "nack"} => task[r] \in {"ack", "nack"})
    BY <1>0, <2>1 DEF Outcome, TaskType, TaskStates, Results
  <2> QED
    BY <1>1, <2>1, <2>2, <2>3
<1> QED
  BY <1>2, <1>3, <1>4, <1>5, <1>6 DEF CallStep

\* Nothing else touches a call.
LEMMA OthersLeaveCalls ==
  ASSUME Next, ~ \E r \in Requests : CallStep(r)
  PROVE  UNCHANGED <<pc, result>>
<1>1. ASSUME NEW r \in Requests, Timeout(r) PROVE UNCHANGED <<pc, result>>
  BY <1>1 DEF Timeout, TimeoutFires, TimeoutCallback, callVars
<1>2. CASE RunLoop
  BY <1>2 DEF RunLoop, Connect, Dispatch, CloseConnection, SnapshotPending, FailOne,
     Disconnected, callVars
<1>3. CASE BorderRouter
  BY <1>3 DEF BorderRouter, BrExecute, BrConfirmed, BrRepeat, BrNotify, callVars
<1> QED
  BY <1>1, <1>2, <1>3 DEF Next

\* The border router executes the request whose command is first on the
\* wire, which it has not executed before.
LEMMA Executes ==
  ASSUME IInv, BrExecute
  PROVE  /\ Head(toBr) \in Frames /\ Head(toBr).req \in Requests
         /\ runs[Head(toBr).req] = 0 /\ pc[Head(toBr).req] \notin Unsent
         /\ runs' = [runs EXCEPT ![Head(toBr).req] = 1]
<1>0. WireType /\ BrType /\ WireOwned /\ WireFresh
  BY DEF IInv, TypeOK, SentOnce
<1>1. toBr # <<>> /\ Head(toBr).kind = "command" /\ runs' = [runs EXCEPT ![Head(toBr).req] = @ + 1]
  BY DEF BrExecute
<1>2. Head(toBr) \in Frames /\ Head(toBr) = toBr[1] /\ 1 \in 1 .. Len(toBr)
  BY <1>0, <1>1, WireTypes DEF WireType
<1>3. toBr[1].req # None /\ toBr[1].req \in Requests \cup {None}
  BY <1>0, <1>2 DEF WireOwned, Frames
<1>4. runs[Head(toBr).req] = 0 /\ pc[Head(toBr).req] \notin Unsent
  BY <1>0, <1>1, <1>2 DEF WireFresh, IsCommand
<1> QED
  BY <1>0, <1>1, <1>2, <1>3, <1>4 DEF BrType

\* What was executed or has returned stays so.
LEMMA Lasting ==
  ASSUME RInv, Next, NEW r \in Requests
  PROVE  /\ pc[r] = "done" => pc'[r] = "done"
         /\ runs[r] = 1 => runs'[r] = 1
<1>0. IInv /\ CallType /\ BrType
  BY DEF RInv, IInv, TypeOK
<1>1. pc[r] = "done" => pc'[r] = "done"
  <2>1. ASSUME NEW q \in Requests, CallStep(q), pc[r] = "done" PROVE pc'[r] = "done"
    BY <1>0, <2>1, CallShape DEF CallType
  <2> QED
    BY <2>1, OthersLeaveCalls
<1>2. runs[r] = 1 => runs'[r] = 1
  BY <1>0, SendShape, Executes DEF BrType
<1> QED
  BY <1>1, <1>2

\* A backed frame stays backed.
LEMMA BackedStays ==
  ASSUME RInv, Next, NEW f \in Frames, Backed(f)
  PROVE  Backed(f)'
<1>1. f.req # None => f.req \in Requests
  BY DEF Frames
<1> QED
  BY <1>1, Lasting DEF Backed

\* Returned survives every step.
LEMMA ReturnedStep ==
  ASSUME RInv, Next
  PROVE  Returned'
<1>0. IInv /\ CallType /\ ReturnType /\ Returned
  BY DEF RInv, IInv, TypeOK
<1>1. ASSUME NEW q \in Requests, CallStep(q) PROVE Returned'
  <2>1. CASE \E s \in Steps \ {"idle", "done"} : pc' = [pc EXCEPT ![q] = s] /\ result' = result
    BY <1>0, <1>1, <2>1, CallShape DEF CallType, Returned
  <2>2. CASE \E what \in Results \ {"none"} :
               pc' = [pc EXCEPT ![q] = "done"] /\ result' = [result EXCEPT ![q] = what]
    BY <1>0, <2>2 DEF CallType, ReturnType, Returned
  <2> QED
    BY <1>0, <1>1, <2>1, <2>2, CallShape
<1> QED
  BY <1>0, <1>1, OthersLeaveCalls DEF Returned

\* What a step may put on the wire from the border router, and keep to
\* repeat, is backed.
LEMMA AnswerShape ==
  ASSUME RInv, Next
  PROVE  /\ \/ fromBr' = fromBr \/ fromBr' = <<>> \/ (fromBr # <<>> /\ fromBr' = Tail(fromBr))
            \/ \E f \in Frames : fromBr' = Append(fromBr, f) /\ Backed(f)'
         /\ \/ brIp' = brIp \/ brIp' = NoIp
            \/ \E f \in Frames : brIp' = f /\ Backed(f)'
<1>0. /\ IInv /\ WireType /\ BrType /\ WireOwned /\ AnswersBacked /\ ConfirmsDone
  BY DEF RInv, IInv, TypeOK
<1> DEFINE WireOk == \/ fromBr' = fromBr \/ fromBr' = <<>> \/ (fromBr # <<>> /\ fromBr' = Tail(fromBr))
                     \/ \E f \in Frames : fromBr' = Append(fromBr, f) /\ Backed(f)'
           IpOk == \/ brIp' = brIp \/ brIp' = NoIp
                   \/ \E f \in Frames : brIp' = f /\ Backed(f)'
<1>1. ASSUME NEW r \in Requests, CallStep(r) \/ Timeout(r) PROVE WireOk /\ IpOk
  <2>1. fromBr' = fromBr /\ brIp' = brIp
    BY <1>1 DEF CallStep, Timeout, NextIdLoad, NextIdStore, NextIdProbe, NextIdReturn, Register,
       ArmTimeout, AcquireLock, CancelWait, Write, WriteFails, Await, TimeoutFires,
       TimeoutCallback, wireVars, brVars
  <2> QED
    BY <2>1
<1>2. CASE RunLoop
  <2>1. fromBr' = fromBr \/ fromBr' = <<>> \/ (fromBr # <<>> /\ fromBr' = Tail(fromBr))
    BY <1>2 DEF RunLoop, Connect, Dispatch, CloseConnection, SnapshotPending, FailOne,
       Disconnected, wireVars
  <2>2. brIp' = brIp \/ brIp' = NoIp
    BY <1>2 DEF RunLoop, Connect, Dispatch, CloseConnection, SnapshotPending, FailOne,
       Disconnected, brVars
  <2> QED
    BY <2>1, <2>2
<1>3. CASE BrExecute
  <2>1. PICK f \in Frames : f = Head(toBr) /\ f.req \in Requests /\ runs' = [runs EXCEPT ![f.req] = 1]
    BY <1>0, <1>3, Executes
  <2>2. runs'[f.req] = 1 /\ f.req # None
    BY <1>0, <2>1, ConstantsAssumption DEF BrType
  <2>3. ASSUME NEW kind \in {"ack", "nack"}
        PROVE  Reply(f, kind) \in Frames /\ Backed(Reply(f, kind))'
    <3>1. Reply(f, kind) \in Frames /\ Reply(f, kind).req = f.req
      BY <2>1 DEF Reply, Frames
    <3>2. PICK g \in Frames : g = Reply(f, kind)
      BY <3>1
    <3>3. Backed(g)'
      BY <2>2, <3>1, <3>2 DEF Backed
    <3> QED
      BY <3>1, <3>2, <3>3
  <2>4. fromBr' = fromBr \/ \E kind \in {"ack", "nack"} : fromBr' = Append(fromBr, Reply(f, kind))
    BY <1>3, <2>1 DEF BrExecute
  <2>5. brIp' = brIp \/ brIp' = Reply(f, "ack")
    BY <1>3, <2>1 DEF BrExecute
  <2> QED
    BY <2>3, <2>4, <2>5
<1>4. CASE BrConfirmed
  <2>1. toBr # <<>> /\ Head(toBr).kind = "confirm" /\ UNCHANGED <<pc, runs>>
    BY <1>4 DEF BrConfirmed, callVars
  <2>2. PICK f \in Frames : f = Head(toBr) /\ f = toBr[1] /\ 1 \in 1 .. Len(toBr)
    BY <1>0, <2>1, WireTypes DEF WireType
  <2>3. f.req # None /\ pc[f.req] = "done"
    BY <1>0, <2>1, <2>2 DEF WireOwned, ConfirmsDone
  <2>4. PICK g \in Frames : g = Reply(f, "nack") /\ g.req = f.req
    <3>1. Reply(f, "nack") \in Frames /\ Reply(f, "nack").req = f.req
      BY <2>2 DEF Reply, Frames
    <3> QED
      BY <3>1
  <2>5. Backed(g)'
    BY <2>1, <2>3, <2>4 DEF Backed
  <2>6. fromBr' = fromBr \/ fromBr' = Append(fromBr, g)
    BY <1>4, <2>2, <2>4 DEF BrConfirmed
  <2>7. brIp' = brIp \/ brIp' = NoIp
    BY <1>4 DEF BrConfirmed
  <2> QED
    BY <2>5, <2>6, <2>7
<1>5. CASE BrRepeat
  <2>1. PICK f \in Frames : f = brIp
    BY <1>0 DEF BrType
  <2>2. Backed(f)
    BY <1>0, <1>5, <2>1 DEF BrRepeat, AnswersBacked
  <2>3. Backed(f)'
    BY <2>2, BackedStays
  <2>4. fromBr' = fromBr \/ fromBr' = Append(fromBr, f)
    BY <1>5, <2>1 DEF BrRepeat
  <2>5. brIp' = brIp \/ brIp' = NoIp
    BY <1>5 DEF BrRepeat
  <2> QED
    BY <2>3, <2>4, <2>5
<1>6. CASE BrNotify
  <2>1. PICK f \in Frames : f = Notification
    BY <1>0 DEF Notification, Frames, BrType
  <2>2. Backed(f)'
    BY <2>1 DEF Notification, Backed
  <2>3. fromBr' = fromBr \/ fromBr' = Append(fromBr, f)
    BY <1>6, <2>1 DEF BrNotify
  <2> QED
    BY <1>6, <2>2, <2>3 DEF BrNotify
<1> QED
  BY <1>1, <1>2, <1>3, <1>4, <1>5, <1>6 DEF Next, BorderRouter

\* AnswersBacked survives every step.
LEMMA AnswersBackedStep ==
  ASSUME RInv, Next
  PROVE  AnswersBacked'
<1>0. IInv /\ WireType /\ BrType /\ TaskType /\ AnswersBacked
  BY DEF RInv, IInv, TypeOK
<1>1. ASSUME NEW k \in 1 .. Len(fromBr') PROVE Backed(fromBr[k])'
  <2>1. \/ \E j \in 1 .. Len(fromBr) : fromBr'[k] = fromBr[j]
        \/ \E f \in Frames : fromBr'[k] = f /\ Backed(f)'
    <3>1. CASE fromBr' = fromBr \/ fromBr' = <<>>
      BY <1>1, <3>1
    <3>2. CASE fromBr # <<>> /\ fromBr' = Tail(fromBr)
      BY <1>0, <1>1, <3>2, TailOwned DEF WireType
    <3>3. CASE \E f \in Frames : fromBr' = Append(fromBr, f) /\ Backed(f)'
      BY <1>0, <1>1, <3>3, WireAppend DEF WireType
    <3> QED
      BY <3>1, <3>2, <3>3, AnswerShape
  <2>2. ASSUME NEW j \in 1 .. Len(fromBr), fromBr'[k] = fromBr[j] PROVE Backed(fromBr[k])'
    <3>1. PICK f \in Frames : f = fromBr[j]
      BY <1>0 DEF WireType
    <3>2. Backed(f)'
      BY <1>0, <3>1, BackedStays DEF AnswersBacked
    <3> QED
      BY <2>2, <3>1, <3>2 DEF Backed
  <2> QED
    BY <2>1, <2>2 DEF Backed
<1>2. brIp'.id # NoIp.id => Backed(brIp)'
  <2>1. CASE brIp' = brIp
    <3>1. PICK f \in Frames : f = brIp
      BY <1>0 DEF BrType
    <3>2. f.id # NoIp.id => Backed(f)'
      BY <1>0, <3>1, BackedStays DEF AnswersBacked
    <3> QED
      BY <2>1, <3>1, <3>2 DEF Backed
  <2>2. CASE \E f \in Frames : brIp' = f /\ Backed(f)'
    BY <2>2 DEF Backed
  <2> QED
    BY <2>1, <2>2, AnswerShape
<1>3. ASSUME NEW r \in Requests, answer'[r] # None PROVE Backed(answer[r])'
  <2>1. answer'[r] = answer[r] \/ (fromBr # <<>> /\ answer'[r] = Head(fromBr))
    BY <1>0, OutcomeStep
  <2>2. PICK f \in Frames : f = answer'[r] /\ Backed(f)
    BY <1>0, <1>3, <2>1, WireTypes DEF TaskType, WireType, AnswersBacked
  <2>3. Backed(f)'
    BY <2>2, BackedStays
  <2> QED
    BY <2>2, <2>3 DEF Backed
<1> QED
  BY <1>1, <1>2, <1>3 DEF AnswersBacked, NoIp

\* ConfirmsDone survives every step.
LEMMA ConfirmsDoneStep ==
  ASSUME RInv, Next
  PROVE  ConfirmsDone'
<1>0. IInv /\ WireType /\ WireOwned /\ CallType /\ TaskType /\ ConfirmsDone
  BY DEF RInv, IInv, TypeOK
<1> SUFFICES ASSUME NEW k \in 1 .. Len(toBr'), toBr'[k].kind = "confirm"
             PROVE  pc'[toBr'[k].req] = "done"
  BY DEF ConfirmsDone
<1>1. ASSUME NEW j \in 1 .. Len(toBr), toBr'[k] = toBr[j] PROVE pc'[toBr'[k].req] = "done"
  <2>1. toBr[j].req \in Requests
    <3>1. toBr[j] \in Frames
      BY <1>0 DEF WireType
    <3>2. toBr[j].req # None
      BY <1>0 DEF WireOwned
    <3> QED
      BY <3>1, <3>2 DEF Frames
  <2> QED
    BY <1>0, <1>1, <2>1, Lasting DEF ConfirmsDone
<1>2. CASE toBr' = toBr \/ toBr' = <<>>
  BY <1>1, <1>2
<1>3. CASE toBr # <<>> /\ toBr' = Tail(toBr)
  BY <1>0, <1>1, <1>3, TailOwned DEF WireType
<1>4. ASSUME NEW r \in Requests, Write(r) PROVE pc'[toBr'[k].req] = "done"
  <2>1. PICK f : f = IF pc[r] = "write" THEN Command(r) ELSE Confirm(r)
    OBVIOUS
  <2>2. toBr' = Append(toBr, f) /\ pc[r] \in {"write", "confirmWrite"}
    BY <1>4, <2>1 DEF Write
  <2>3. /\ Len(toBr') = Len(toBr) + 1 /\ toBr'[Len(toBr) + 1] = f
        /\ \A j \in 1 .. Len(toBr) : toBr'[j] = toBr[j]
    BY <1>0, <2>2 DEF WireType
  <2>4. CASE k \in 1 .. Len(toBr)
    BY <1>1, <2>3, <2>4
  <2>5. CASE k = Len(toBr) + 1
    <3>1. f.kind = "confirm"
      BY <2>3, <2>5
    <3>2. pc[r] = "confirmWrite" /\ f.req = r
      BY <2>1, <2>2, <3>1 DEF Command, Confirm
    <3>3. pc'[r] = "done"
      BY <1>0, <1>4, <3>2 DEF Write, Finish, CallType
    <3> QED
      BY <2>3, <2>5, <3>2, <3>3
  <2> QED
    BY <1>0, <2>3, <2>4, <2>5 DEF WireType
<1> QED
  BY <1>0, <1>2, <1>3, <1>4, SendShape

\* KindKept survives every step.
LEMMA KindKeptStep ==
  ASSUME RInv, Next
  PROVE  KindKept'
BY OutcomeStep DEF RInv, KindKept

\* RInv is an invariant of the request path.
THEOREM Backing == Spec => []RInv
<1>1. RInv /\ IInv' /\ [Next]_vars => RInv'
  <2> SUFFICES ASSUME RInv, IInv', [Next]_vars PROVE RInv'
    OBVIOUS
  <2>1. CASE Next
    BY <2>1, ReturnedStep, AnswersBackedStep, ConfirmsDoneStep, KindKeptStep DEF RInv
  <2>2. CASE UNCHANGED vars
    <3>1. UNCHANGED <<pc, result, toBr, fromBr, brIp, runs, task, answer>>
      BY <2>2 DEF vars, callVars, taskVars, wireVars, brVars
    <3>2. Returned' /\ ConfirmsDone' /\ KindKept'
      BY <3>1 DEF RInv, Returned, ConfirmsDone, KindKept
    <3>3. AnswersBacked'
      BY <3>1 DEF RInv, AnswersBacked, Backed, NoIp
    <3> QED
      BY <3>2, <3>3 DEF RInv
  <2> QED
    BY <2>1, <2>2
<1> QED
  BY InitRInv, Invariance, <1>1, PTL DEF Spec

-----------------------------------------------------------------------------
(***************************************************************************)
(* The refinement.                                                         *)
(***************************************************************************)

\* RequestReply under the mapping.
LEMMA PromiseIs ==
  /\ Promise!Init <=> Calls = [r \in Requests |-> "idle"] /\ runs = [r \in Requests |-> 0]
  /\ UNCHANGED <<Calls, runs>> => Promise!vars' = Promise!vars
  /\ \A r \in Requests :
       \/ Calls[r] = "idle" /\ Calls' = [Calls EXCEPT ![r] = "open"] /\ UNCHANGED runs
       \/ Calls[r] = "open" /\ Calls' = [Calls EXCEPT ![r] = "failed"] /\ UNCHANGED runs
       \/ Calls[r] = "open" /\ runs[r] = 1 /\ Calls' = [Calls EXCEPT ![r] = "answered"] /\ UNCHANGED runs
       \/ Calls[r] # "idle" /\ runs[r] = 0 /\ runs' = [runs EXCEPT ![r] = 1] /\ UNCHANGED Calls
       => Promise!Next
BY DEF Calls, Promise!Init, Promise!vars, Promise!Next, Promise!Call, Promise!Fail,
   Promise!Answer, Promise!Execute

\* How the mapping follows the step a call is at.
LEMMA CallsAre ==
  ASSUME Returned, NEW r \in Requests
  PROVE  Calls[r] = IF pc[r] = "idle" THEN "idle"
                    ELSE IF pc[r] # "done" THEN "open"
                    ELSE IF result[r] \in {"ok", "nack"} THEN "answered" ELSE "failed"
BY DEF Returned, Calls

\* A step that touches one call changes the mapping there only.
LEMMA CallsMove ==
  ASSUME NEW r \in Requests, NEW c,
         \A q \in Requests \ {r} : pc'[q] = pc[q] /\ result'[q] = result[q],
         Calls'[r] = c
  PROVE  Calls' = [Calls EXCEPT ![r] = c]
<1>1. \A q \in Requests \ {r} : Calls'[q] = Calls[q]
  BY DEF Calls
<1>2. Calls = [q \in Requests |-> Calls[q]] /\ Calls' = [q \in Requests |-> Calls'[q]]
  BY DEF Calls
<1> QED
  BY <1>1, <1>2

\* A call that is about to return an answer was executed, or the answer is
\* that of a call with the same frame id.
LEMMA AnsweredWasExecuted ==
  ASSUME RInv, NEW r \in Requests, task[r] \in {"ack", "nack"}, pc[r] # "done"
  PROVE  runs[r] = 1 \/ SharedId
<1>0. /\ CallType /\ TaskType /\ Answered /\ WireOwned /\ AnswersBacked /\ KindKept
  BY DEF RInv, IInv, TypeOK
<1>1. /\ answer[r] # None /\ answer[r].kind = task[r]
      /\ answer[r].id = fid[r] /\ pc[r] \notin NoTask
  BY <1>0 DEF Answered, KindKept
<1>2. PICK f \in Frames : f = answer[r]
  BY <1>0, <1>1 DEF TaskType
<1>3. Backed(f) /\ Owned(f) /\ f.kind \in {"ack", "nack"} /\ f.id = fid[r]
  BY <1>0, <1>1, <1>2 DEF AnswersBacked, WireOwned
<1>4. PICK q \in Requests : q = f.req
  BY <1>3 DEF Backed, Frames
<1>5. /\ runs[q] = 1 \/ pc[q] = "done"
      /\ fid[q] = fid[r] /\ pc[q] \notin NoTask
  BY <1>3, <1>4, ConstantsAssumption DEF Backed, Owned
<1>6. pc[r] \in Issued /\ pc[q] \in Issued
  BY <1>0, <1>1, <1>5 DEF CallType, Steps, Issued, NoTask
<1>7. CASE q = r
  BY <1>5, <1>7
<1>8. CASE q # r
  BY <1>5, <1>6, <1>8 DEF SharedId
<1> QED
  BY <1>7, <1>8

\* A step of a call is one of RequestReply's, or none of its concern.
LEMMA CallRefines ==
  ASSUME RInv, NEW r \in Requests, CallStep(r)
  PROVE  Promise!vars' = Promise!vars \/ SharedId \/ Promise!Next
<1>0. IInv /\ CallType /\ ReturnType /\ Returned /\ Answered
  BY DEF RInv, IInv, TypeOK
<1>1. pc[r] # "done" /\ UNCHANGED runs
  BY <1>0, CallShape
<1>2. CASE \E s \in Steps \ {"idle", "done"} : pc' = [pc EXCEPT ![r] = s] /\ result' = result
  <2>1. PICK s \in Steps \ {"idle", "done"} : pc' = [pc EXCEPT ![r] = s] /\ result' = result
    BY <1>2
  <2>2. result[r] = "none" /\ pc'[r] # "idle"
    BY <1>0, <1>1, <2>1 DEF Returned, CallType
  <2>3. CASE pc[r] = "idle"
    <3>1. Calls' = [Calls EXCEPT ![r] = "open"]
      <4>1. \A q \in Requests \ {r} : pc'[q] = pc[q] /\ result'[q] = result[q]
        BY <1>0, <2>1 DEF CallType
      <4>2. Calls'[r] = "open"
        BY <2>1, <2>2 DEF Calls
      <4> QED
        BY <4>1, <4>2, CallsMove
    <3>2. Calls[r] = "idle"
      BY <1>0, <2>3, CallsAre
    <3> QED
      BY <1>1, <3>1, <3>2, PromiseIs
  <2>4. CASE pc[r] # "idle"
    <3>1. Calls' = Calls
      BY <1>0, <2>1, <2>2, <2>4 DEF Calls, CallType
    <3> QED
      BY <1>1, <3>1, PromiseIs
  <2> QED
    BY <2>3, <2>4
<1>3. ASSUME NEW what \in Results \ {"none"},
             pc[r] # "idle",
             pc' = [pc EXCEPT ![r] = "done"], result' = [result EXCEPT ![r] = what],
             what \in {"ok", "nack"} =>
               \/ pc[r] = "await" /\ task[r] \in {"ack", "nack"}
               \/ pc[r] = "confirmWrite"
      PROVE  Promise!vars' = Promise!vars \/ SharedId \/ Promise!Next
  <2>1. Calls[r] = "open"
    BY <1>0, <1>1, <1>3, CallsAre
  <2>2. /\ pc'[r] = "done" /\ result'[r] = what
        /\ \A q \in Requests \ {r} : pc'[q] = pc[q] /\ result'[q] = result[q]
    BY <1>0, <1>3 DEF CallType, ReturnType
  <2>3. CASE what \notin {"ok", "nack"}
    <3>1. Calls' = [Calls EXCEPT ![r] = "failed"]
      <4>1. Calls'[r] = "failed"
        BY <1>3, <2>2, <2>3 DEF Calls
      <4> QED
        BY <2>2, <4>1, CallsMove
    <3> QED
      BY <1>1, <2>1, <3>1, PromiseIs
  <2>4. CASE what \in {"ok", "nack"}
    <3>1. Calls' = [Calls EXCEPT ![r] = "answered"]
      <4>1. Calls'[r] = "answered"
        BY <1>3, <2>2, <2>4 DEF Calls
      <4> QED
        BY <2>2, <4>1, CallsMove
    <3>2. task[r] \in {"ack", "nack"}
      BY <1>0, <1>3, <2>4 DEF Answered
    <3>3. runs[r] = 1 \/ SharedId
      BY <1>1, <3>2, AnsweredWasExecuted
    <3> QED
      BY <1>1, <2>1, <3>1, <3>3, PromiseIs
  <2> QED
    BY <2>3, <2>4
<1> QED
  BY <1>0, <1>2, <1>3, CallShape

\* So is every other step: only the execution of a command concerns it.
LEMMA StepRefines ==
  ASSUME RInv, [Next]_vars
  PROVE  Promise!vars' = Promise!vars \/ SharedId \/ Promise!Next
<1>0. IInv /\ Returned
  BY DEF RInv
<1>1. ASSUME NEW r \in Requests, CallStep(r)
      PROVE  Promise!vars' = Promise!vars \/ SharedId \/ Promise!Next
  BY <1>1, CallRefines
<1>2. CASE UNCHANGED <<pc, result>>
  <2>1. Calls' = Calls
    BY <1>2 DEF Calls
  <2>2. CASE UNCHANGED runs
    BY <2>1, <2>2, PromiseIs
  <2>3. CASE BrExecute
    <3>1. PICK r \in Requests : /\ runs[r] = 0 /\ pc[r] \notin Unsent
                                /\ runs' = [runs EXCEPT ![r] = 1]
      BY <1>0, <2>3, Executes
    <3>2. Calls[r] # "idle"
      BY <3>1 DEF Calls, Unsent
    <3> QED
      BY <2>1, <3>1, <3>2, PromiseIs
  <2>4. CASE UNCHANGED vars
    BY <2>2, <2>4 DEF vars, brVars
  <2> QED
    BY <1>0, <2>2, <2>3, <2>4, SendShape
<1>3. CASE UNCHANGED vars
  BY <1>2, <1>3 DEF vars, callVars
<1> QED
  BY <1>1, <1>2, <1>3, OthersLeaveCalls

\* The request path keeps RequestReply's promise as long as no two calls
\* share a frame id (KeepsPromise): a call returns once, a call answered was
\* executed, and none is executed twice.
THEOREM PromiseKept == Spec => KeepsPromise
<1>1. Init => Promise!Init
  <2>1. Init => Calls = [r \in Requests |-> "idle"] /\ runs = [r \in Requests |-> 0]
    BY DEF Init, Calls
  <2> QED
    BY <2>1, PromiseIs
<1>2. RInv /\ [Next]_vars => [Promise!vars' = Promise!vars \/ SharedId \/ Promise!Next]_vars
  BY StepRefines
<1> QED
  BY <1>1, <1>2, Backing, PTL DEF Spec, KeepsPromise
=============================================================================
