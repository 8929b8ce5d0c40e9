--------------------------- MODULE CommandProofs ---------------------------
(***************************************************************************)
(* The command handlers' invariants, for any dataset fields and values and *)
(* any number of commands, network changes and presses of the button.      *)
(***************************************************************************)
EXTENDS Command, TLAPS

\* OpenThread is touched by the task that holds its lock.
LockIsHeld ==
  /\ lock = "rx" <=> rx.at \in Held
  /\ lock = "timer" <=> reset["timer"] \in {"disable", "down"}

\* A command that runs is not answered yet, one that ended is.
AnswerDue ==
  replies = IF rx.at \in {"idle", "gone"} THEN 1 ELSE 0

\* Between the two calls of a stop Thread is off.
StoppedIsOff == rx.at = "down" \/ reset["timer"] = "down" => ~ thread

\* What SET_* is about to write back is still the dataset.
CopyIsCurrent == rx.at = "write" => rx.copy = dataset /\ dataset # Erased

\* NVS is closed before it is erased; nothing is saved to an erased one.
ErasedIsClosed ==
  /\ \A t \in Resetters : reset[t] = "erase" => ~ nvsOpen
  /\ nvs = Erased => ~ nvsOpen \/ dataset = Erased

Rest == LockIsHeld /\ AnswerDue /\ StoppedIsOff /\ ThreadNeedsIp6 /\ CopyIsCurrent /\ ErasedIsClosed

IInv == TypeOK /\ Rest

\* The RX task that waits for a command.
LEMMA IdleType ==
  /\ Idle \in [at : RxSteps, cmd : Commands, copy : Datasets \cup {Erased}]
  /\ Idle.at = "idle" /\ Idle.copy = Erased
<1> DEFINE c == [kind |-> "plain", field |-> CHOOSE f \in Fields : TRUE,
                 val |-> CHOOSE v \in Values : TRUE, ok |-> TRUE]
<1>1. c \in Commands
  BY ConstantsAssumption DEF Commands, Kinds
<1>2. (CHOOSE x \in Commands : TRUE) \in Commands
  BY <1>1
<1> QED
  BY <1>2 DEF Idle, RxSteps

\* The initial state satisfies the inductive invariant.
LEMMA InitIInv == Init => IInv
<1> SUFFICES ASSUME Init PROVE IInv
  OBVIOUS
<1>1. TypeOK
  BY IdleType, ConstantsAssumption DEF Init, TypeOK
<1>2. LockIsHeld /\ AnswerDue /\ StoppedIsOff /\ ThreadNeedsIp6
  BY IdleType DEF Init, LockIsHeld, AnswerDue, StoppedIsOff, ThreadNeedsIp6, Held, Resetters
<1>3. CopyIsCurrent /\ ErasedIsClosed
  BY IdleType, ConstantsAssumption DEF Init, CopyIsCurrent, ErasedIsClosed, Datasets
<1> QED
  BY <1>1, <1>2, <1>3 DEF IInv, Rest

\* Every step keeps the types.
LEMMA StepKeepsTypes == IInv /\ [Next]_vars => TypeOK'
<1> SUFFICES ASSUME TypeOK, CopyIsCurrent, [Next]_vars PROVE TypeOK'
  BY DEF IInv, Rest
<1> USE ConstantsAssumption DEF TypeOK, RxSteps, Held, Resetters, Datasets
<1>1. ASSUME NEW c \in Commands, Receive(c) PROVE TypeOK'
  BY <1>1 DEF Receive, otVars, flashVars, resetVars
<1>2. CASE Refuse
  BY <1>2, IdleType DEF Refuse, Respond, otVars, flashVars, resetVars
<1>3. CASE WantLock
  BY <1>3 DEF WantLock, GoOn, otVars, flashVars, resetVars
<1>4. CASE LockTaken
  BY <1>4 DEF LockTaken, GoOn, FirstStep, otVars, flashVars, resetVars
<1>5. CASE LockTimesOut
  BY <1>5, IdleType DEF LockTimesOut, Respond, otVars, flashVars, resetVars
<1>6. CASE Look
  BY <1>6, IdleType DEF Look, Respond, Release, otVars, flashVars, resetVars
<1>7. CASE SetReads
  <2>1. CASE dataset = Erased
    BY <1>7, <2>1, IdleType DEF SetReads, Respond, Release, otVars, flashVars, resetVars
  <2>2. CASE dataset # Erased
    BY <1>7, <2>2 DEF SetReads, otVars, flashVars, resetVars
  <2> QED
    BY <2>1, <2>2
<1>8. CASE SetWrites
  <2>1. rx' \in [at : RxSteps, cmd : Commands, copy : Datasets \cup {Erased}]
    BY <1>8, IdleType DEF SetWrites, Respond
  <2>2. rx.cmd.field \in Fields /\ rx.cmd.val \in Values
    BY DEF Commands
  <2>3. rx.copy \in Datasets
    BY <1>8 DEF SetWrites, CopyIsCurrent
  <2>4. dataset' \in Datasets \cup {Erased} /\ nvs' \in Datasets \cup {Erased}
    BY <1>8, <2>2, <2>3 DEF SetWrites, Takes
  <2> QED
    BY <1>8, <2>1, <2>4 DEF SetWrites, Respond, Release, resetVars
<1>9. CASE StartBringsUp
  BY <1>9 DEF StartBringsUp, GoOn, flashVars, resetVars
<1>10. CASE StartEnables
  BY <1>10, IdleType DEF StartEnables, Respond, Release, flashVars, resetVars
<1>11. CASE StopDisables
  BY <1>11 DEF StopDisables, GoOn, flashVars, resetVars
<1>12. CASE StopBringsDown
  <2>1. rx' \in [at : RxSteps, cmd : Commands, copy : Datasets \cup {Erased}] /\ replies' \in Nat
    BY <1>12, IdleType DEF StopBringsDown, Respond
  <2> QED
    BY <1>12, <2>1 DEF StopBringsDown, Respond, Release, flashVars, resetVars
<1>13. CASE ResetCommand
  BY <1>13, IdleType DEF ResetCommand, Defer, Respond, otVars, flashVars, resetVars
<1>14. CASE FactoryCommand
  BY <1>14, IdleType DEF FactoryCommand, Defer, Respond, otVars, flashVars, resetVars
<1>15. CASE Petition
  BY <1>15, IdleType DEF Petition, Respond, Release, GoOn, flashVars, resetVars
<1>16. CASE WaitSeesActive
  BY <1>16 DEF WaitSeesActive, GoOn, otVars, flashVars, resetVars
<1>17. CASE WaitTimesOut
  BY <1>17, IdleType DEF WaitTimesOut, Respond, otVars, flashVars, resetVars
<1>18. CASE AddJoiner
  BY <1>18, IdleType DEF AddJoiner, Respond, Release, otVars, flashVars, resetVars
<1>19. ASSUME NEW d \in Datasets, NetworkChange(d) PROVE TypeOK'
  BY <1>19 DEF NetworkChange, Takes, rxVars, resetVars, otVars, flashVars
<1>20. CASE CommissionerMoves
  BY <1>20 DEF CommissionerMoves, rxVars, flashVars, resetVars, otVars
<1>21. ASSUME NEW k \in {"reset", "factory"}, TimerFires(k) PROVE TypeOK'
  BY <1>21 DEF TimerFires, rxVars, otVars, flashVars, resetVars
<1>22. CASE ShutdownLocks
  BY <1>22 DEF ShutdownLocks, Step, rxVars, otVars, flashVars, resetVars
<1>23. CASE ShutdownSkips
  BY <1>23 DEF ShutdownSkips, Step, rxVars, otVars, flashVars, resetVars
<1>24. CASE ShutdownDisables
  BY <1>24 DEF ShutdownDisables, Step, rxVars, flashVars, resetVars, otVars
<1>25. CASE ShutdownBringsDown
  BY <1>25 DEF ShutdownBringsDown, Release, Step, rxVars, flashVars, resetVars, otVars
<1>26. ASSUME NEW t \in Resetters, FactoryDeinit(t) PROVE TypeOK'
  BY <1>26 DEF FactoryDeinit, Step, rxVars, otVars, flashVars, resetVars
<1>27. ASSUME NEW t \in Resetters, FactoryErases(t) PROVE TypeOK'
  BY <1>27 DEF FactoryErases, Step, rxVars, otVars, flashVars, resetVars
<1>28. ASSUME NEW t \in Resetters, Restart(t) PROVE TypeOK'
  BY <1>28, IdleType DEF Restart, BootDatasets
<1>29. CASE ButtonHeld
  BY <1>29 DEF ButtonHeld, rxVars, otVars, flashVars, resetVars
<1>30. CASE ButtonReleased
  BY <1>30 DEF ButtonReleased, rxVars, otVars, flashVars, resetVars
<1>31. CASE UNCHANGED vars
  BY <1>31 DEF vars, rxVars, otVars, flashVars, resetVars
<1> QED
  BY <1>1, <1>2, <1>3, <1>4, <1>5, <1>6, <1>7, <1>8, <1>9, <1>10, <1>11, <1>12, <1>13, <1>14, <1>15, <1>16, <1>17, <1>18, <1>19, <1>20, <1>21, <1>22, <1>23, <1>24, <1>25, <1>26, <1>27, <1>28, <1>29, <1>30, <1>31
     DEF Next, Handle, TimerTask, FactoryReset

\* Every step keeps the rest: only the holder of the lock touches OpenThread,
\* and only a restart opens NVS again.
LEMMA StepKeepsRest == IInv /\ [Next]_vars => Rest'
<1> SUFFICES ASSUME TypeOK, Rest, [Next]_vars PROVE Rest'
  BY DEF IInv
<1> USE ConstantsAssumption DEF Rest, LockIsHeld, AnswerDue, StoppedIsOff, ThreadNeedsIp6,
      CopyIsCurrent, ErasedIsClosed, Held, Resetters, Datasets, TypeOK
<1>1. ASSUME NEW c \in Commands, Receive(c) PROVE Rest'
  BY <1>1 DEF Receive, otVars, flashVars, resetVars
<1>2. CASE Refuse
  BY <1>2, IdleType DEF Refuse, Respond, otVars, flashVars, resetVars
<1>3. CASE WantLock
  BY <1>3 DEF WantLock, GoOn, otVars, flashVars, resetVars
<1>4. CASE LockTaken
  BY <1>4 DEF LockTaken, GoOn, FirstStep, otVars, flashVars, resetVars
<1>5. CASE LockTimesOut
  BY <1>5, IdleType DEF LockTimesOut, Respond, otVars, flashVars, resetVars
<1>6. CASE Look
  BY <1>6, IdleType DEF Look, Respond, Release, otVars, flashVars, resetVars
<1>7. CASE SetReads
  <2>1. CASE dataset = Erased
    BY <1>7, <2>1, IdleType DEF SetReads, Respond, Release, otVars, flashVars, resetVars
  <2>2. CASE dataset # Erased
    BY <1>7, <2>2 DEF SetReads, otVars, flashVars, resetVars
  <2> QED
    BY <2>1, <2>2
<1>8. CASE SetWrites
  BY <1>8, IdleType DEF SetWrites, Respond, Release, Takes, resetVars
<1>9. CASE StartBringsUp
  BY <1>9 DEF StartBringsUp, GoOn, flashVars, resetVars
<1>10. CASE StartEnables
  BY <1>10, IdleType DEF StartEnables, Respond, Release, flashVars, resetVars
<1>11. CASE StopDisables
  BY <1>11 DEF StopDisables, GoOn, flashVars, resetVars
<1>12. CASE StopBringsDown
  BY <1>12, IdleType DEF StopBringsDown, Respond, Release, flashVars, resetVars
<1>13. CASE ResetCommand
  BY <1>13, IdleType DEF ResetCommand, Defer, Respond, otVars, flashVars, resetVars
<1>14. CASE FactoryCommand
  BY <1>14, IdleType DEF FactoryCommand, Defer, Respond, otVars, flashVars, resetVars
<1>15. CASE Petition
  BY <1>15, IdleType DEF Petition, Respond, Release, GoOn, flashVars, resetVars
<1>16. CASE WaitSeesActive
  BY <1>16 DEF WaitSeesActive, GoOn, otVars, flashVars, resetVars
<1>17. CASE WaitTimesOut
  BY <1>17, IdleType DEF WaitTimesOut, Respond, otVars, flashVars, resetVars
<1>18. CASE AddJoiner
  BY <1>18, IdleType DEF AddJoiner, Respond, Release, otVars, flashVars, resetVars
<1>19. ASSUME NEW d \in Datasets, NetworkChange(d) PROVE Rest'
  BY <1>19 DEF NetworkChange, Takes, rxVars, resetVars, otVars, flashVars
<1>20. CASE CommissionerMoves
  BY <1>20 DEF CommissionerMoves, rxVars, flashVars, resetVars, otVars
<1>21. ASSUME NEW k \in {"reset", "factory"}, TimerFires(k) PROVE Rest'
  BY <1>21 DEF TimerFires, rxVars, otVars, flashVars, resetVars
<1>22. CASE ShutdownLocks
  BY <1>22 DEF ShutdownLocks, Step, rxVars, otVars, flashVars, resetVars
<1>23. CASE ShutdownSkips
  BY <1>23 DEF ShutdownSkips, Step, rxVars, otVars, flashVars, resetVars
<1>24. CASE ShutdownDisables
  BY <1>24 DEF ShutdownDisables, Step, rxVars, flashVars, resetVars, otVars
<1>25. CASE ShutdownBringsDown
  BY <1>25 DEF ShutdownBringsDown, Release, Step, rxVars, flashVars, resetVars, otVars
<1>26. ASSUME NEW t \in Resetters, FactoryDeinit(t) PROVE Rest'
  BY <1>26 DEF FactoryDeinit, Step, rxVars, otVars, flashVars, resetVars
<1>27. ASSUME NEW t \in Resetters, FactoryErases(t) PROVE Rest'
  BY <1>27 DEF FactoryErases, Step, rxVars, otVars, flashVars, resetVars
<1>28. ASSUME NEW t \in Resetters, Restart(t) PROVE Rest'
  BY <1>28, IdleType DEF Restart, BootDatasets
<1>29. CASE ButtonHeld
  BY <1>29 DEF ButtonHeld, rxVars, otVars, flashVars, resetVars
<1>30. CASE ButtonReleased
  BY <1>30 DEF ButtonReleased, rxVars, otVars, flashVars, resetVars
<1>31. CASE UNCHANGED vars
  BY <1>31 DEF vars, rxVars, otVars, flashVars, resetVars
<1> QED
  BY <1>1, <1>2, <1>3, <1>4, <1>5, <1>6, <1>7, <1>8, <1>9, <1>10, <1>11, <1>12, <1>13, <1>14, <1>15, <1>16, <1>17, <1>18, <1>19, <1>20, <1>21, <1>22, <1>23, <1>24, <1>25, <1>26, <1>27, <1>28, <1>29, <1>30, <1>31
     DEF Next, Handle, TimerTask, FactoryReset

\* The inductive invariant holds in every reachable state of the handlers.
THEOREM Invariance == Spec => []IInv
<1>1. IInv /\ [Next]_vars => IInv'
  BY StepKeepsTypes, StepKeepsRest DEF IInv
<1> QED
  BY InitIInv, <1>1, PTL DEF Spec

\* Every variable of the handlers keeps its type.
THEOREM TypeCorrect == Spec => []TypeOK
<1>1. IInv => TypeOK
  BY DEF IInv
<1> QED
  BY Invariance, <1>1, PTL

\* A handler answers its command once, on every path out of it.
THEOREM OneAnswer == Spec => []AnsweredOnce
<1>1. IInv => AnsweredOnce
  BY DEF IInv, Rest, AnswerDue, AnsweredOnce
<1> QED
  BY Invariance, <1>1, PTL

\* Thread does not run over an interface that is down, in whatever order the
\* RX task and the timer task start and stop it.
THEOREM ThreadOverIp6 == Spec => []ThreadNeedsIp6
<1>1. IInv => ThreadNeedsIp6
  BY DEF IInv, Rest
<1> QED
  BY Invariance, <1>1, PTL

\* What can change the dataset or the flash.
LEMMA DataChanges ==
  [Next]_vars =>
    \/ UNCHANGED <<dataset, nvs>>
    \/ SetWrites
    \/ \E d \in Datasets : NetworkChange(d)
    \/ \E t \in Resetters : FactoryErases(t) \/ Restart(t)
<1>1. ASSUME NEW c \in Commands, Receive(c) PROVE UNCHANGED <<dataset, nvs>>
  BY <1>1 DEF Receive, otVars, flashVars
<1>2. Refuse => UNCHANGED <<dataset, nvs>>
  BY DEF Refuse, otVars, flashVars
<1>3. WantLock => UNCHANGED <<dataset, nvs>>
  BY DEF WantLock, otVars, flashVars
<1>4. LockTaken => UNCHANGED <<dataset, nvs>>
  BY DEF LockTaken, otVars, flashVars
<1>5. LockTimesOut => UNCHANGED <<dataset, nvs>>
  BY DEF LockTimesOut, otVars, flashVars
<1>6. Look => UNCHANGED <<dataset, nvs>>
  BY DEF Look, otVars, flashVars
<1>7. SetReads => UNCHANGED <<dataset, nvs>>
  BY DEF SetReads, otVars, flashVars
<1>8. StartBringsUp => UNCHANGED <<dataset, nvs>>
  BY DEF StartBringsUp, flashVars
<1>9. StartEnables => UNCHANGED <<dataset, nvs>>
  BY DEF StartEnables, flashVars
<1>10. StopDisables => UNCHANGED <<dataset, nvs>>
  BY DEF StopDisables, flashVars
<1>11. StopBringsDown => UNCHANGED <<dataset, nvs>>
  BY DEF StopBringsDown, flashVars
<1>12. ResetCommand => UNCHANGED <<dataset, nvs>>
  BY DEF ResetCommand, Defer, otVars, flashVars
<1>13. FactoryCommand => UNCHANGED <<dataset, nvs>>
  BY DEF FactoryCommand, Defer, otVars, flashVars
<1>14. Petition => UNCHANGED <<dataset, nvs>>
  BY DEF Petition, flashVars
<1>15. WaitSeesActive => UNCHANGED <<dataset, nvs>>
  BY DEF WaitSeesActive, otVars, flashVars
<1>16. WaitTimesOut => UNCHANGED <<dataset, nvs>>
  BY DEF WaitTimesOut, otVars, flashVars
<1>17. AddJoiner => UNCHANGED <<dataset, nvs>>
  BY DEF AddJoiner, otVars, flashVars
<1>18. CommissionerMoves => UNCHANGED <<dataset, nvs>>
  BY DEF CommissionerMoves, flashVars, otVars
<1>19. ASSUME NEW k \in {"reset", "factory"}, TimerFires(k) PROVE UNCHANGED <<dataset, nvs>>
  BY <1>19 DEF TimerFires, otVars, flashVars
<1>20. ShutdownLocks => UNCHANGED <<dataset, nvs>>
  BY DEF ShutdownLocks, Step, otVars, flashVars
<1>21. ShutdownSkips => UNCHANGED <<dataset, nvs>>
  BY DEF ShutdownSkips, Step, otVars, flashVars
<1>22. ShutdownDisables => UNCHANGED <<dataset, nvs>>
  BY DEF ShutdownDisables, Step, flashVars, otVars
<1>23. ShutdownBringsDown => UNCHANGED <<dataset, nvs>>
  BY DEF ShutdownBringsDown, Step, flashVars, otVars
<1>24. ASSUME NEW t \in Resetters, FactoryDeinit(t) PROVE UNCHANGED <<dataset, nvs>>
  BY <1>24 DEF FactoryDeinit, Step, otVars, flashVars
<1>25. ButtonHeld => UNCHANGED <<dataset, nvs>>
  BY DEF ButtonHeld, otVars, flashVars
<1>26. ButtonReleased => UNCHANGED <<dataset, nvs>>
  BY DEF ButtonReleased, otVars, flashVars
<1>27. UNCHANGED vars => UNCHANGED <<dataset, nvs>>
  BY DEF vars, otVars, flashVars
<1> QED
  BY <1>1, <1>2, <1>3, <1>4, <1>5, <1>6, <1>7, <1>8, <1>9, <1>10, <1>11, <1>12, <1>13, <1>14, <1>15, <1>16, <1>17, <1>18, <1>19, <1>20, <1>21, <1>22, <1>23, <1>24, <1>25, <1>26, <1>27
     DEF Next, Handle, TimerTask, FactoryReset

\* A SET_* command writes its own field and no older value of another.
THEOREM OneFieldIsSet == Spec => SetKeepsOthers
<1> DEFINE Kept == rx.at = "write" /\ dataset' # dataset /\ boots' = boots =>
                     \A f \in Fields \ {rx.cmd.field} : dataset'[f] = dataset[f]
<1>1. IInv /\ [Next]_vars => Kept
  <2> SUFFICES ASSUME IInv, [Next]_vars, rx.at = "write", dataset' # dataset, boots' = boots
               PROVE  \A f \in Fields \ {rx.cmd.field} : dataset'[f] = dataset[f]
    OBVIOUS
  <2>1. boots \in Nat /\ lock = "rx" /\ rx.copy = dataset /\ dataset \in Datasets
    BY DEF IInv, TypeOK, Rest, LockIsHeld, CopyIsCurrent, Held
  <2>2. CASE SetWrites
    BY <2>1, <2>2 DEF SetWrites, Takes, Datasets
  <2>3. ASSUME NEW d \in Datasets, NetworkChange(d) PROVE FALSE
    BY <2>1, <2>3 DEF NetworkChange
  <2>4. ASSUME NEW t \in Resetters, FactoryErases(t) \/ Restart(t) PROVE FALSE
    BY <2>1, <2>4 DEF FactoryErases, Restart, otVars
  <2> QED
    BY <2>2, <2>3, <2>4, DataChanges
<1> QED
  BY Invariance, <1>1, PTL DEF Spec, SetKeepsOthers

\* Nothing is saved to an erased flash before the restart.
THEOREM ErasedForGood == Spec => ErasedStaysErased
<1> DEFINE Stays == nvs = Erased /\ nvs' # Erased => boots' > boots
<1>1. IInv /\ [Next]_vars => Stays
  <2> SUFFICES ASSUME IInv, [Next]_vars, nvs = Erased, nvs' # Erased PROVE boots' > boots
    OBVIOUS
  <2>1. boots \in Nat /\ (nvsOpen => dataset = Erased)
    BY DEF IInv, TypeOK, Rest, ErasedIsClosed
  <2>2. CASE SetWrites
    <3>1. dataset # Erased
      BY <2>2 DEF IInv, Rest, CopyIsCurrent, SetWrites
    <3> QED
      BY <2>1, <2>2, <3>1 DEF SetWrites, Takes
  <2>3. ASSUME NEW d \in Datasets, NetworkChange(d) PROVE FALSE
    BY <2>1, <2>3 DEF NetworkChange, Takes
  <2>4. ASSUME NEW t \in Resetters, FactoryErases(t) PROVE FALSE
    BY <2>4 DEF FactoryErases
  <2>5. ASSUME NEW t \in Resetters, Restart(t) PROVE boots' > boots
    BY <2>1, <2>5 DEF Restart
  <2> QED
    BY <2>2, <2>3, <2>4, <2>5, DataChanges
<1> QED
  BY Invariance, <1>1, PTL DEF Spec, ErasedStaysErased
=============================================================================
