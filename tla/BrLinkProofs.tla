---------------------------- MODULE BrLinkProofs ----------------------------
(***************************************************************************)
(* The IP_ADDR handshake and the STATE watchdog, for any number of ids,    *)
(* requests, commands, retries and missed intervals.                       *)
(***************************************************************************)
EXTENDS BrLink, FiniteSetTheorems, TLAPS

\* What the proofs need of the types.
Types ==
  /\ asked \in 0 .. MaxAsked
  /\ rx \in [at : {"idle", "count", "start", "clear"}, id : Ids]
  /\ wd \in [at : {"sleep", "clear"}, miss : Nat]
  /\ quiet \in 0 .. MaxMiss
  /\ flag \in BOOLEAN

\* Only what was asked is confirmed.
ConfirmedWereAsked == \A i \in confirmed : \E k \in 1 .. asked : i = IdOf(k)

\* The watchdog has counted no more intervals than were quiet, unless a STATE
\* command came that it has not seen yet; having seen one it counts afresh.
MissIsQuiet ==
  /\ ~ flag => wd.miss <= quiet
  /\ wd.at = "clear" => wd.miss = 0

IInv == Types /\ ConfirmedWereAsked /\ ConfirmedIsNotPending /\ MissIsQuiet

\* The ids of different requests differ: there are enough of them.
LEMMA IdsDiffer ==
  ASSUME NEW j \in 1 .. MaxAsked, NEW k \in 1 .. MaxAsked, j # k
  PROVE  IdOf(j) # IdOf(k) /\ IdOf(j) \in Ids
BY ConstantsAssumption DEF IdOf, Ids

\* The initial state satisfies the inductive invariant.
LEMMA InitIInv == Init => IInv
<1> SUFFICES ASSUME Init PROVE IInv
  OBVIOUS
<1>1. flag \in BOOLEAN
  BY DEF Init
<1>2. 0 \in Ids
  BY ConstantsAssumption DEF Ids
<1>3. Types
  BY <1>1, <1>2, ConstantsAssumption DEF Init, Types, RxIdle
<1>4. ConfirmedWereAsked /\ ConfirmedIsNotPending
  BY DEF Init, ConfirmedWereAsked, ConfirmedIsNotPending
<1>5. MissIsQuiet
  BY ConstantsAssumption DEF Init, MissIsQuiet
<1> QED
  BY <1>3, <1>4, <1>5 DEF IInv

\* Every step preserves the inductive invariant.
LEMMA NextIInv == IInv /\ [Next]_vars => IInv'
<1> SUFFICES ASSUME IInv, [Next]_vars PROVE IInv'
  OBVIOUS
<1>0. Types /\ ConfirmedWereAsked /\ ConfirmedIsNotPending /\ MissIsQuiet
  BY DEF IInv
<1>1. CASE IpRequest
  <2>1. UNCHANGED <<confirmed, flag, wd, quiet>> /\ rx.at = "idle" /\ asked' = asked + 1
        /\ pend' = IdOf(asked + 1) /\ rx' = [at |-> "count", id |-> IdOf(asked + 1)]
    BY <1>1 DEF IpRequest, wdVars
  <2>2. asked + 1 \in 1 .. MaxAsked
    BY <1>0, <1>1, ConstantsAssumption DEF IpRequest, Types
  <2>3. IdOf(asked + 1) \in Ids
    BY <2>2, IdsDiffer, ConstantsAssumption DEF IdOf, Ids
  <2>4. IdOf(asked + 1) \notin confirmed
    <3> SUFFICES ASSUME NEW k \in 1 .. asked PROVE IdOf(asked + 1) # IdOf(k)
      BY <1>0 DEF ConfirmedWereAsked
    <3>1. k \in 1 .. MaxAsked /\ k # asked + 1
      BY <1>0, ConstantsAssumption DEF Types
    <3> QED
      BY <2>2, <3>1, IdsDiffer
  <2>5. Types'
    BY <1>0, <2>1, <2>2, <2>3 DEF Types
  <2>6. ConfirmedWereAsked'
    <3>1. \A k \in 1 .. asked : k \in 1 .. asked'
      BY <1>0, <2>1, ConstantsAssumption DEF Types
    <3> QED
      BY <1>0, <2>1, <3>1 DEF ConfirmedWereAsked
  <2> QED
    BY <1>0, <2>1, <2>4, <2>5, <2>6 DEF IInv, ConfirmedIsNotPending, MissIsQuiet
<1>2. CASE MarkCount \/ MarkStart
  <2>1. /\ UNCHANGED <<asked, confirmed, pend, flag, wd, quiet>>
        /\ rx.at # "clear"
        /\ rx' = [rx EXCEPT !.at = "start"] \/ rx' = RxIdle
    BY <1>2 DEF MarkCount, MarkStart, wdVars
  <2>2. Types'
    BY <1>0, <2>1, ConstantsAssumption DEF Types, RxIdle, Ids
  <2> QED
    BY <1>0, <2>1, <2>2 DEF IInv, ConfirmedWereAsked, ConfirmedIsNotPending, MissIsQuiet
<1>3. ASSUME NEW k \in 1 .. MaxAsked, Confirm(k) PROVE IInv'
  <2>1. /\ UNCHANGED <<asked, pend, flag, wd, quiet>>
        /\ confirmed' = confirmed \cup {IdOf(k)} /\ k <= asked
        /\ rx.at = "idle"
        /\ IF IdOf(k) = pend THEN rx' = [at |-> "clear", id |-> pend] ELSE rx' = rx
    BY <1>3 DEF Confirm, wdVars
  <2>2. IdOf(k) \in Ids
    BY ConstantsAssumption DEF IdOf, Ids
  <2>3. Types'
    BY <1>0, <2>1, <2>2 DEF Types
  <2>4. ConfirmedWereAsked'
    <3>1. k \in 1 .. asked
      BY <1>0, <2>1, ConstantsAssumption DEF Types
    <3> QED
      BY <1>0, <2>1, <3>1 DEF ConfirmedWereAsked
  <2> QED
    BY <1>0, <2>1, <2>3, <2>4 DEF IInv, ConfirmedIsNotPending, MissIsQuiet
<1>4. CASE ConfirmClears
  <2>1. /\ UNCHANGED <<asked, confirmed, flag, wd, quiet>>
        /\ pend' = PendingNone /\ rx' = RxIdle
    BY <1>4 DEF ConfirmClears, wdVars
  <2>2. Types'
    BY <1>0, <2>1, ConstantsAssumption DEF Types, RxIdle, Ids
  <2> QED
    BY <1>0, <2>1, <2>2 DEF IInv, ConfirmedWereAsked, ConfirmedIsNotPending, MissIsQuiet
<1>5. CASE StateCommand
  <2>1. UNCHANGED <<asked, confirmed, pend, rx, wd>> /\ flag' = TRUE /\ quiet' = 0
    BY <1>5 DEF StateCommand, ipVars
  <2>2. flag' \in BOOLEAN
    BY <2>1
  <2>3. Types'
    BY <1>0, <2>1, <2>2, ConstantsAssumption DEF Types
  <2> QED
    BY <1>0, <2>1, <2>3 DEF IInv, ConfirmedWereAsked, ConfirmedIsNotPending, MissIsQuiet
<1>6. CASE Timer
  <2>1. UNCHANGED <<asked, confirmed, rx, flag, wd, quiet>> /\ (pend' = pend \/ pend' = PendingNone)
    BY <1>6 DEF Timer, CbFires, CbReadsId, CbChecks, CbStops, CbClears, CbBumps, CbResends, wdVars
  <2> QED
    BY <1>0, <2>1 DEF IInv, Types, ConfirmedWereAsked, ConfirmedIsNotPending, MissIsQuiet
<1>7. CASE WatchdogTick
  <2>1. CASE Restart
    <3>1. /\ asked' = 0 /\ confirmed' = {} /\ pend' = PendingNone /\ rx' = RxIdle /\ flag' = FALSE
          /\ wd' = [at |-> "sleep", miss |-> 0] /\ quiet' = 0
      BY <2>1 DEF Restart, BootValues
    <3>2. flag' \in BOOLEAN
      BY <3>1
    <3>3. Types'
      BY <3>1, <3>2, ConstantsAssumption DEF Types, RxIdle, Ids
    <3> QED
      BY <3>1, <3>3 DEF IInv, ConfirmedWereAsked, ConfirmedIsNotPending, MissIsQuiet
  <2>2. CASE UNCHANGED <<asked, confirmed, pend, rx, flag>> /\ quiet' = OneMore(quiet)
             /\ wd' = [at |-> "clear", miss |-> 0]
    <3>1. Types'
      BY <1>0, <2>2, ConstantsAssumption DEF Types, OneMore
    <3> QED
      BY <1>0, <2>2, <3>1, ConstantsAssumption
      DEF IInv, ConfirmedWereAsked, ConfirmedIsNotPending, MissIsQuiet, Types
  <2>3. CASE /\ UNCHANGED <<asked, confirmed, pend, rx, flag>> /\ quiet' = OneMore(quiet)
             /\ wd.at = "sleep" /\ ~ flag /\ wd.miss + 1 < MaxMiss
             /\ wd' = [wd EXCEPT !.miss = @ + 1]
    <3>1. Types'
      BY <1>0, <2>3, ConstantsAssumption DEF Types, OneMore
    <3>2. MissIsQuiet'
      BY <1>0, <2>3, ConstantsAssumption DEF Types, OneMore, MissIsQuiet
    <3> QED
      BY <1>0, <2>3, <3>1, <3>2 DEF IInv, ConfirmedWereAsked, ConfirmedIsNotPending
  <2> QED
    BY <1>7, <2>1, <2>2, <2>3 DEF WatchdogTick, ipVars
<1>8. CASE WatchdogClears
  <2>1. UNCHANGED <<asked, confirmed, pend, rx, quiet>> /\ flag' = FALSE /\ wd.at = "clear"
        /\ wd' = [wd EXCEPT !.at = "sleep"]
    BY <1>8 DEF WatchdogClears, ipVars
  <2>2. flag' \in BOOLEAN
    BY <2>1
  <2>3. Types'
    BY <1>0, <2>1, <2>2 DEF Types
  <2>4. MissIsQuiet'
    BY <1>0, <2>1, ConstantsAssumption DEF Types, MissIsQuiet
  <2> QED
    BY <1>0, <2>1, <2>3, <2>4 DEF IInv, ConfirmedWereAsked, ConfirmedIsNotPending
<1>9. CASE UNCHANGED vars
  BY <1>0, <1>9
  DEF vars, ipVars, wdVars, IInv, Types, ConfirmedWereAsked, ConfirmedIsNotPending, MissIsQuiet
<1> QED
  BY <1>1, <1>2, <1>3, <1>4, <1>5, <1>6, <1>7, <1>8, <1>9 DEF Next, Rx, Watchdog

\* A confirmed answer is not pending once the RX task has cleared it, though
\* nothing orders its accesses with those of the timer task
\* (ConfirmedIsNotPending).
THEOREM ConfirmedIsOver == Spec => []ConfirmedIsNotPending
<1>1. IInv => ConfirmedIsNotPending
  BY DEF IInv
<1> QED
  BY InitIInv, NextIInv, <1>1, PTL DEF Spec

\* Only the watchdog counts a start, in an interval that would be one miss
\* too many.
LEMMA BootsStep ==
  ASSUME [Next]_vars
  PROVE  boots' = boots \/ (boots' = boots + 1 /\ ~ flag /\ wd.miss + 1 >= MaxMiss)
<1>1. CASE Rx \/ Timer \/ WatchdogClears
  BY <1>1 DEF Rx, Timer, IpRequest, MarkCount, MarkStart, Confirm, ConfirmClears, StateCommand,
     CbFires, CbReadsId, CbChecks, CbStops, CbClears, CbBumps, CbResends, WatchdogClears, wdVars
<1>2. CASE WatchdogTick
  BY <1>2 DEF WatchdogTick, Restart
<1>3. CASE UNCHANGED vars
  BY <1>3 DEF vars, wdVars
<1> QED
  BY <1>1, <1>2, <1>3 DEF Next, Watchdog

BootsAreCounted == boots \in Nat

\* The watchdog restarts the device only when every interval it counted was
\* without a STATE command (WatchdogIsPatient).
THEOREM PatientWatchdog == Spec => WatchdogIsPatient
<1>1. Init => BootsAreCounted
  BY DEF Init, BootsAreCounted
<1>2. BootsAreCounted /\ [Next]_vars => BootsAreCounted'
  BY BootsStep DEF BootsAreCounted
<1>3. BootsAreCounted /\ IInv /\ [Next]_vars => [boots' > boots => quiet + 1 >= MaxMiss]_vars
  <2> SUFFICES ASSUME BootsAreCounted, IInv, Next, boots' > boots PROVE quiet + 1 >= MaxMiss
    OBVIOUS
  <2>1. ~ flag /\ wd.miss + 1 >= MaxMiss
    BY BootsStep DEF BootsAreCounted
  <2>2. wd.miss <= quiet
    BY <2>1 DEF IInv, MissIsQuiet
  <2> QED
    BY <2>1, <2>2, ConstantsAssumption DEF IInv, Types
<1> QED
  BY InitIInv, NextIInv, <1>1, <1>2, <1>3, PTL DEF Spec, WatchdogIsPatient

-----------------------------------------------------------------------------
(***************************************************************************)
(* How often an answer is repeated.                                        *)
(***************************************************************************)

\* How often request j's answer was repeated; the callback has an answer in
\* hand; a neighbour before request j counts for one more.
Times(j)  == resent[IdOf(j)]
InHand    == cb.at \in {"check", "bump", "send"}
Before(j) == IF j > 1 THEN 1 ELSE 0

RetryTypes ==
  /\ pend \in Ids
  /\ count \in 0 .. IpRetryMax
  /\ cb \in [at : {"idle", "read", "check", "bump", "stop", "clear", "send"},
             id : Ids, count : 0 .. IpRetryMax]
  /\ resent \in [Ids -> Nat]

\* Nothing happens before the first request, and no answer is repeated before
\* it is asked for.
NoneYet ==
  /\ asked = 0 => ~ timer /\ cb.at = "idle" /\ pend = PendingNone /\ rx.at \notin {"count", "start"}
  /\ \A j \in 1 .. MaxAsked : j > asked => Times(j) = 0

\* The pending id is the last request's; the callback has one that was asked,
\* and while it has an earlier one the last answer has not been repeated.
LastPends ==
  /\ asked > 0 => pend \in {IdOf(asked), PendingNone}
  /\ InHand => \E j \in 1 .. asked : cb.id = IdOf(j)
  /\ InHand /\ cb.id # IdOf(asked) => Times(asked) = 0
  /\ cb.at = "bump" => cb.count < IpRetryMax

\* The last answer's repetitions are counted, but for the one of a callback
\* that began before the mark of its id reset the counter.
LastCounted ==
  asked > 0 =>
    /\ rx.at = "count" =>
         Times(asked) + (IF cb.at = "read" \/ InHand THEN 1 ELSE 0) <= Before(asked)
    /\ rx.at # "count" =>
         /\ Times(asked) + (IF cb.at = "send" /\ cb.id = IdOf(asked) THEN 1 ELSE 0)
              <= count + Before(asked)
         /\ cb.at = "bump" /\ cb.id = IdOf(asked) => Times(asked) <= cb.count + Before(asked)

\* An earlier answer may be in hand once more when the next is marked.
EarlierCounted ==
  \A j \in 1 .. asked - 1 :
    Times(j) + (IF InHand /\ cb.id = IdOf(j) THEN 1 ELSE 0) <= IpRetryMax + Before(j) + 1

RetryInv == RetryTypes /\ NoneYet /\ LastPends /\ LastCounted /\ EarlierCounted

\* Request k has as many neighbours as there are requests beside it.
LEMMA Neighbours ==
  ASSUME NEW n \in Nat, NEW k \in 1 .. n
  PROVE  Cardinality({k - 1, k + 1} \cap 1 .. n) = Before(k) + (IF k < n THEN 1 ELSE 0)
<1> DEFINE beside == {k - 1, k + 1} \cap 1 .. n
<1>1. CASE k > 1 /\ k < n
  <2>1. beside = {k - 1, k + 1} /\ k - 1 # k + 1
    BY <1>1
  <2>2. Cardinality({k - 1, k + 1}) = 2
    <3>1. IsFiniteSet({k - 1}) /\ Cardinality({k - 1}) = 1
      BY FS_Singleton
    <3>2. k + 1 \notin {k - 1} /\ {k - 1, k + 1} = {k - 1} \cup {k + 1}
      BY <2>1
    <3> QED
      BY <3>1, <3>2, FS_AddElement
  <2> QED
    BY <1>1, <2>1, <2>2 DEF Before
<1>2. CASE k > 1 /\ ~ k < n
  <2>1. beside = {k - 1}
    BY <1>2
  <2>2. Cardinality({k - 1}) = 1
    BY FS_Singleton
  <2> QED
    BY <1>2, <2>1, <2>2 DEF Before
<1>3. CASE ~ k > 1 /\ k < n
  <2>1. beside = {k + 1}
    BY <1>3
  <2>2. Cardinality(beside) = 1
    BY <2>1, FS_Singleton
  <2>3. Before(k) + (IF k < n THEN 1 ELSE 0) = 1
    BY <1>3 DEF Before
  <2> QED
    BY <2>2, <2>3
<1>4. CASE ~ k > 1 /\ ~ k < n
  <2>1. beside = {}
    BY <1>4
  <2> QED
    BY <1>4, <2>1, FS_EmptySet DEF Before
<1> QED
  BY <1>1, <1>2, <1>3, <1>4

\* What the invariant says is what the property says.
LEMMA CountedIsBounded == IInv /\ RetryInv => RetriesBounded
<1> SUFFICES ASSUME IInv, RetryInv, NEW k \in 1 .. asked
             PROVE  Times(k) <= IpRetryMax + Cardinality({k - 1, k + 1} \cap 1 .. asked)
  BY DEF RetriesBounded, Times
<1>0. asked \in Nat /\ k \in 1 .. MaxAsked /\ IpRetryMax \in Nat
  BY ConstantsAssumption DEF IInv, Types
<1>1. Cardinality({k - 1, k + 1} \cap 1 .. asked) = Before(k) + (IF k < asked THEN 1 ELSE 0)
  BY <1>0, Neighbours
<1>2. Times(k) \in Nat /\ Before(k) \in Nat /\ count \in 0 .. IpRetryMax
  <2>1. IdOf(k) \in Ids
    BY <1>0, ConstantsAssumption DEF IdOf, Ids
  <2> QED
    BY <2>1 DEF RetryInv, RetryTypes, Times, Before
<1>3. CASE k < asked
  BY <1>0, <1>1, <1>2, <1>3 DEF RetryInv, EarlierCounted
<1>4. CASE k = asked
  BY <1>0, <1>1, <1>2, <1>4 DEF RetryInv, LastCounted
<1> QED
  BY <1>0, <1>3, <1>4

-----------------------------------------------------------------------------

\* The numbers and ids the steps work with.
LEMMA Numbers ==
  ASSUME IInv, RetryInv
  PROVE  /\ asked \in 0 .. MaxAsked /\ MaxAsked \in Nat /\ IpRetryMax \in Nat
         /\ \A j \in 1 .. MaxAsked :
              IdOf(j) \in Ids /\ Times(j) \in Nat /\ Before(j) \in {0, 1}
         /\ \A j \in 1 .. MaxAsked : \A k \in 1 .. MaxAsked : j # k => IdOf(j) # IdOf(k)
         /\ \A j \in 1 .. asked : j \in 1 .. MaxAsked
         /\ PendingNone \in Ids /\ 0 \in Ids
<1>1. asked \in 0 .. MaxAsked /\ MaxAsked \in Nat /\ IpRetryMax \in Nat
  BY ConstantsAssumption DEF IInv, Types
<1>2. \A j \in 1 .. MaxAsked : IdOf(j) \in Ids
  BY ConstantsAssumption DEF IdOf, Ids
<1>3. \A j \in 1 .. MaxAsked : Times(j) \in Nat /\ Before(j) \in {0, 1}
  BY <1>2 DEF RetryInv, RetryTypes, Times, Before
<1>4. PendingNone \in Ids /\ 0 \in Ids
  BY ConstantsAssumption DEF PendingNone, Ids
<1> QED
  BY <1>1, <1>2, <1>3, <1>4, IdsDiffer

\* A request makes the last one an earlier one.
LEMMA RequestKeeps ==
  ASSUME IInv, RetryInv, IpRequest
  PROVE  RetryInv'
<1>0. /\ asked < MaxAsked /\ asked' = asked + 1 /\ pend' = IdOf(asked + 1)
      /\ rx.at = "idle" /\ rx'.at = "count"
      /\ UNCHANGED <<count, timer, cb, resent>>
  BY DEF IpRequest
<1>1. /\ RetryTypes /\ NoneYet /\ LastPends /\ LastCounted /\ EarlierCounted
  BY DEF RetryInv
<1>2. asked + 1 \in 1 .. MaxAsked /\ asked \in Nat
  BY <1>0, Numbers
<1>3. \A j \in 1 .. MaxAsked : Times(j)' = Times(j)
  BY <1>0 DEF Times
<1>4. InHand' = InHand
  BY <1>0 DEF InHand
<1>5. RetryTypes'
  BY <1>0, <1>1, <1>2, Numbers DEF RetryTypes
<1>6. NoneYet'
  BY <1>0, <1>1, <1>2, <1>3, Numbers DEF NoneYet
<1>7. Times(asked + 1) = 0
  BY <1>1, <1>2 DEF NoneYet
<1>8. LastPends'
  <2>1. InHand => \E j \in 1 .. asked + 1 : cb.id = IdOf(j)
    BY <1>1, <1>2 DEF LastPends
  <2> QED
    BY <1>0, <1>1, <1>2, <1>3, <1>4, <1>7, <2>1 DEF LastPends
<1>9. LastCounted'
  <2>1. cb.at = "read" \/ InHand => asked > 0
    BY <1>1, <1>2 DEF NoneYet, InHand
  <2> QED
    BY <1>0, <1>2, <1>3, <1>4, <1>7, <2>1 DEF LastCounted, Before
<1>10. EarlierCounted'
  <2> SUFFICES ASSUME NEW j \in 1 .. asked
               PROVE  Times(j) + (IF InHand /\ cb.id = IdOf(j) THEN 1 ELSE 0)
                        <= IpRetryMax + Before(j) + 1
    BY <1>0, <1>2, <1>3, <1>4, Numbers DEF EarlierCounted
  <2>1. CASE j = asked
    <3>1. /\ asked > 0 /\ rx.at # "count" /\ Times(j) \in Nat /\ Before(j) \in {0, 1}
          /\ count \in 0 .. IpRetryMax /\ IpRetryMax \in Nat
      BY <1>0, <1>1, <2>1, Numbers DEF RetryTypes
    <3> QED
      BY <1>1, <2>1, <3>1 DEF LastCounted
  <2>2. CASE j # asked
    BY <1>1, <1>2, <2>2 DEF EarlierCounted
  <2> QED
    BY <2>1, <2>2
<1> QED
  BY <1>5, <1>6, <1>8, <1>9, <1>10 DEF RetryInv

\* The mark resets the counter and starts the timer.
LEMMA MarkKeeps ==
  ASSUME IInv, RetryInv, MarkCount \/ MarkStart
  PROVE  RetryInv'
<1>0. /\ UNCHANGED <<asked, pend, cb, resent>>
      /\ rx.at \in {"count", "start"} /\ rx'.at \in {"start", "idle"}
      /\ rx.at = "count" => count' = 0
      /\ rx.at # "count" => count' = count
  BY DEF MarkCount, MarkStart, RxIdle, IInv, Types
<1>1. RetryTypes /\ NoneYet /\ LastPends /\ LastCounted /\ EarlierCounted
  BY DEF RetryInv
<1>2. asked > 0 /\ asked \in 1 .. MaxAsked
  BY <1>0, <1>1, Numbers DEF NoneYet
<1>3. \A j \in 1 .. MaxAsked : Times(j)' = Times(j)
  BY <1>0 DEF Times
<1>4. InHand' = InHand
  BY <1>0 DEF InHand
<1>5. RetryTypes'
  BY <1>0, <1>1, Numbers DEF RetryTypes
<1>6. NoneYet' /\ LastPends'
  BY <1>0, <1>1, <1>2, <1>3, <1>4, Numbers DEF NoneYet, LastPends
<1>7. LastCounted'
  <2>1. /\ Times(asked) \in Nat /\ Before(asked) \in {0, 1} /\ Times(asked)' = Times(asked)
        /\ count \in 0 .. IpRetryMax
    BY <1>0, <1>1, <1>2, <1>3, Numbers DEF RetryTypes
  <2>2. CASE rx.at = "count"
    <3>1. Times(asked) + (IF cb.at = "read" \/ InHand THEN 1 ELSE 0) <= Before(asked) /\ count' = 0
      BY <1>0, <1>1, <1>2, <2>2 DEF LastCounted
    <3>2. cb \in [at : {"idle", "read", "check", "bump", "stop", "clear", "send"},
                  id : Ids, count : 0 .. IpRetryMax]
      BY <1>1 DEF RetryTypes
    <3> QED
      BY <1>0, <2>1, <3>1, <3>2 DEF LastCounted, InHand
  <2>3. CASE rx.at # "count"
    BY <1>0, <1>1, <1>2, <2>1, <2>3 DEF LastCounted
  <2> QED
    BY <2>2, <2>3
<1>8. EarlierCounted'
  BY <1>0, <1>1, <1>3, <1>4, Numbers DEF EarlierCounted
<1> QED
  BY <1>5, <1>6, <1>7, <1>8 DEF RetryInv

\* A confirm touches neither the counter nor the callback.
LEMMA ConfirmKeeps ==
  ASSUME IInv, RetryInv,
         (\E k \in 1 .. MaxAsked : Confirm(k)) \/ ConfirmClears
  PROVE  RetryInv'
<1>0. /\ UNCHANGED <<asked, count, cb, resent>>
      /\ rx.at \in {"idle", "clear"} /\ rx'.at \in {"idle", "clear"}
      /\ pend' \in {pend, PendingNone}
      /\ timer' => timer
  BY DEF Confirm, ConfirmClears, RxIdle
<1>1. RetryTypes /\ NoneYet /\ LastPends /\ LastCounted /\ EarlierCounted
  BY DEF RetryInv
<1>3. \A j \in 1 .. MaxAsked : Times(j)' = Times(j)
  BY <1>0 DEF Times
<1>4. InHand' = InHand
  BY <1>0 DEF InHand
<1>5. RetryTypes'
  BY <1>0, <1>1, Numbers DEF RetryTypes
<1>6. NoneYet' /\ LastPends'
  BY <1>0, <1>1, <1>3, <1>4, Numbers DEF NoneYet, LastPends
<1>7. LastCounted' /\ EarlierCounted'
  BY <1>0, <1>1, <1>3, <1>4, Numbers DEF LastCounted, EarlierCounted
<1> QED
  BY <1>5, <1>6, <1>7 DEF RetryInv

\* The callback begins, stops the timer and clears the id with no answer in
\* hand.
LEMMA EmptyHandedKeeps ==
  ASSUME IInv, RetryInv, CbFires \/ CbStops \/ CbClears \/ (CbReadsId /\ pend = PendingNone)
  PROVE  RetryInv'
<1>0. /\ UNCHANGED <<asked, count, rx, resent>>
      /\ ~ InHand /\ ~ InHand' /\ cb'.at \in {"read", "clear", "idle"}
      /\ cb'.at = "read" => timer /\ rx.at # "count"
      /\ cb' \in [at : {"idle", "read", "check", "bump", "stop", "clear", "send"},
                  id : Ids, count : 0 .. IpRetryMax]
      /\ pend' \in {pend, PendingNone}
      /\ timer' => timer
      /\ asked > 0
  <2>1. cb \in [at : {"idle", "read", "check", "bump", "stop", "clear", "send"},
                id : Ids, count : 0 .. IpRetryMax]
    BY DEF RetryInv, RetryTypes
  <2>2. CbIdle \in [at : {"idle"}, id : Ids, count : 0 .. IpRetryMax]
    BY Numbers DEF CbIdle
  <2>3. (cb.at = "idle" /\ timer) \/ cb.at # "idle" => asked > 0
    BY Numbers DEF RetryInv, NoneYet
  <2>4. CASE CbFires
    <3>1. cb' = [CbIdle EXCEPT !.at = "read"]
      BY <2>4 DEF CbFires
    <3> QED
      BY <2>2, <2>3, <2>4, <3>1 DEF CbFires, InHand
  <2>5. CASE CbStops
    BY <2>1, <2>3, <2>5 DEF CbStops, InHand
  <2>6. CASE CbClears
    BY <2>2, <2>3, <2>6 DEF CbClears, InHand
  <2>7. CASE CbReadsId /\ pend = PendingNone
    BY <2>2, <2>3, <2>7 DEF CbReadsId, InHand
  <2> QED
    BY <2>4, <2>5, <2>6, <2>7
<1>1. RetryTypes /\ NoneYet /\ LastPends /\ LastCounted /\ EarlierCounted
  BY DEF RetryInv
<1>2. asked \in 1 .. MaxAsked
  BY <1>0, Numbers
<1>3. \A j \in 1 .. MaxAsked : Times(j)' = Times(j)
  BY <1>0 DEF Times
<1>5. RetryTypes'
  BY <1>0, <1>1, Numbers DEF RetryTypes
<1>6. NoneYet' /\ LastPends'
  BY <1>0, <1>1, <1>2, <1>3, Numbers DEF NoneYet, LastPends, InHand
<1>7. LastCounted'
  <2>1. /\ Times(asked) \in Nat /\ Before(asked) \in {0, 1} /\ Times(asked)' = Times(asked)
        /\ count \in 0 .. IpRetryMax
    BY <1>0, <1>1, <1>2, <1>3, Numbers DEF RetryTypes
  <2> QED
    BY <1>0, <1>1, <2>1 DEF LastCounted
<1>8. EarlierCounted'
  BY <1>0, <1>1, <1>3, Numbers DEF EarlierCounted
<1> QED
  BY <1>5, <1>6, <1>7, <1>8 DEF RetryInv

\* The callback takes the last answer in hand, and checks the counter.
LEMMA TakesKeeps ==
  ASSUME IInv, RetryInv, CbReadsId /\ pend # PendingNone
  PROVE  RetryInv'
<1>0. /\ UNCHANGED <<asked, pend, timer, count, rx, resent>>
      /\ cb.at = "read" /\ cb' = [cb EXCEPT !.at = "check", !.id = pend]
  BY DEF CbReadsId
<1>1. RetryTypes /\ NoneYet /\ LastPends /\ LastCounted /\ EarlierCounted
  BY DEF RetryInv
<1>2. asked \in 1 .. MaxAsked /\ pend = IdOf(asked)
  BY <1>0, <1>1, Numbers DEF NoneYet, LastPends
<1>3. \A j \in 1 .. MaxAsked : Times(j)' = Times(j)
  BY <1>0 DEF Times
<1>4. cb'.at = "check" /\ cb'.id = IdOf(asked) /\ InHand' /\ ~ InHand
  BY <1>0, <1>1, <1>2 DEF RetryTypes, InHand
<1>5. RetryTypes'
  BY <1>0, <1>1 DEF RetryTypes
<1>6. NoneYet' /\ LastPends'
  BY <1>0, <1>1, <1>2, <1>3, <1>4, Numbers DEF NoneYet, LastPends
<1>7. LastCounted'
  <2>1. /\ Times(asked) \in Nat /\ Before(asked) \in {0, 1} /\ Times(asked)' = Times(asked)
        /\ count \in 0 .. IpRetryMax
    BY <1>0, <1>1, <1>2, <1>3, Numbers DEF RetryTypes
  <2> QED
    BY <1>0, <1>1, <1>4, <2>1 DEF LastCounted
<1>8. EarlierCounted'
  <2> SUFFICES ASSUME NEW j \in 1 .. asked - 1
               PROVE  Times(j) <= IpRetryMax + Before(j) + 1 /\ cb'.id # IdOf(j)
    BY <1>0, <1>2, <1>3, Numbers DEF EarlierCounted
  <2> QED
    BY <1>1, <1>2, <1>4, Numbers DEF EarlierCounted
<1> QED
  BY <1>5, <1>6, <1>7, <1>8 DEF RetryInv

\* The limit is checked before the counter is advanced.
LEMMA ChecksKeeps ==
  ASSUME IInv, RetryInv, CbChecks
  PROVE  RetryInv'
<1>0. /\ UNCHANGED <<asked, pend, timer, count, rx, resent>>
      /\ cb.at = "check"
      /\ \/ cb' = [cb EXCEPT !.at = "stop"]
         \/ count < IpRetryMax /\ cb' = [cb EXCEPT !.at = "bump", !.count = count]
  BY Numbers DEF CbChecks, RetryInv, RetryTypes
<1>1. RetryTypes /\ NoneYet /\ LastPends /\ LastCounted /\ EarlierCounted
  BY DEF RetryInv
<1>2. asked \in 1 .. MaxAsked
  BY <1>0, <1>1, Numbers DEF NoneYet
<1>3. \A j \in 1 .. MaxAsked : Times(j)' = Times(j)
  BY <1>0 DEF Times
<1>4. /\ InHand /\ cb'.id = cb.id /\ cb'.at \in {"stop", "bump"}
      /\ InHand' <=> cb'.at = "bump"
      /\ cb'.at = "bump" => cb'.count = count /\ count < IpRetryMax
  BY <1>0, <1>1 DEF RetryTypes, InHand
<1>5. RetryTypes'
  BY <1>0, <1>1 DEF RetryTypes
<1>6. NoneYet' /\ LastPends'
  BY <1>0, <1>1, <1>2, <1>3, <1>4, Numbers DEF NoneYet, LastPends
<1>7. LastCounted'
  <2>1. /\ Times(asked) \in Nat /\ Before(asked) \in {0, 1} /\ Times(asked)' = Times(asked)
        /\ count \in 0 .. IpRetryMax
    BY <1>0, <1>1, <1>2, <1>3, Numbers DEF RetryTypes
  <2> QED
    BY <1>0, <1>1, <1>4, <2>1 DEF LastCounted
<1>8. EarlierCounted'
  BY <1>0, <1>1, <1>3, <1>4, Numbers DEF EarlierCounted
<1> QED
  BY <1>5, <1>6, <1>7, <1>8 DEF RetryInv

\* The counter is advanced by one from the value that was checked.
LEMMA BumpsKeeps ==
  ASSUME IInv, RetryInv, CbBumps
  PROVE  RetryInv'
<1>0. /\ UNCHANGED <<asked, pend, timer, rx, resent>>
      /\ cb.at = "bump" /\ cb' = [cb EXCEPT !.at = "send"] /\ count' = cb.count + 1
  BY DEF CbBumps
<1>1. RetryTypes /\ NoneYet /\ LastPends /\ LastCounted /\ EarlierCounted
  BY DEF RetryInv
<1>2. asked \in 1 .. MaxAsked
  BY <1>0, <1>1, Numbers DEF NoneYet
<1>3. \A j \in 1 .. MaxAsked : Times(j)' = Times(j)
  BY <1>0 DEF Times
<1>4. InHand /\ InHand' /\ cb'.id = cb.id /\ cb'.at = "send"
  BY <1>0, <1>1 DEF RetryTypes, InHand
<1>c. cb.count \in Nat /\ cb.count < IpRetryMax
  BY <1>0, <1>1, Numbers DEF RetryTypes, LastPends
<1>5. RetryTypes'
  BY <1>0, <1>1, <1>c, Numbers DEF RetryTypes
<1>6. NoneYet' /\ LastPends'
  BY <1>0, <1>1, <1>2, <1>3, <1>4, Numbers DEF NoneYet, LastPends
<1>7. LastCounted'
  <2>1. /\ Times(asked) \in Nat /\ Before(asked) \in {0, 1} /\ Times(asked)' = Times(asked)
        /\ count \in 0 .. IpRetryMax
    BY <1>0, <1>1, <1>2, <1>3, Numbers DEF RetryTypes
  <2>2. cb.id # IdOf(asked) => Times(asked) = 0
    BY <1>1, <1>4 DEF LastPends
  <2> QED
    BY <1>0, <1>1, <1>4, <1>c, <2>1, <2>2 DEF LastCounted
<1>8. EarlierCounted'
  BY <1>0, <1>1, <1>3, <1>4, Numbers DEF EarlierCounted
<1> QED
  BY <1>5, <1>6, <1>7, <1>8 DEF RetryInv

\* What was counted is sent.
LEMMA ResendsKeeps ==
  ASSUME IInv, RetryInv, CbResends
  PROVE  RetryInv'
<1>0. /\ UNCHANGED <<asked, pend, timer, count, rx>>
      /\ cb.at = "send" /\ cb' = CbIdle /\ resent' = [resent EXCEPT ![cb.id] = @ + 1]
  BY DEF CbResends
<1>1. RetryTypes /\ NoneYet /\ LastPends /\ LastCounted /\ EarlierCounted
  BY DEF RetryInv
<1>2. asked \in 1 .. MaxAsked
  BY <1>0, <1>1, Numbers DEF NoneYet
<1>3. \A j \in 1 .. MaxAsked : Times(j)' = IF cb.id = IdOf(j) THEN Times(j) + 1 ELSE Times(j)
  BY <1>0, <1>1, Numbers DEF Times, RetryTypes
<1>4. InHand /\ ~ InHand' /\ cb'.at = "idle"
  BY <1>0 DEF InHand, CbIdle
<1>5. RetryTypes'
  <2>1. cb.id \in Ids /\ resent[cb.id] \in Nat
    BY <1>1 DEF RetryTypes
  <2>2. CbIdle \in [at : {"idle"}, id : Ids, count : 0 .. IpRetryMax]
    BY Numbers DEF CbIdle
  <2> QED
    BY <1>0, <1>1, <2>1, <2>2 DEF RetryTypes
<1>6. NoneYet'
  <2>1. PICK i \in 1 .. asked : cb.id = IdOf(i)
    BY <1>1, <1>4 DEF LastPends
  <2>2. \A j \in 1 .. MaxAsked : j > asked => cb.id # IdOf(j)
    BY <1>2, <2>1, Numbers
  <2> QED
    BY <1>0, <1>1, <1>2, <1>3, <2>2 DEF NoneYet
<1>7. LastPends'
  BY <1>0, <1>1, <1>2, <1>4, Numbers DEF LastPends
<1>8. LastCounted'
  <2>1. /\ Times(asked) \in Nat /\ Before(asked) \in {0, 1}
        /\ count \in 0 .. IpRetryMax
        /\ Times(asked)' = IF cb.id = IdOf(asked) THEN Times(asked) + 1 ELSE Times(asked)
    BY <1>0, <1>1, <1>2, <1>3, Numbers DEF RetryTypes
  <2> QED
    BY <1>0, <1>1, <1>4, <2>1 DEF LastCounted
<1>9. EarlierCounted'
  BY <1>0, <1>1, <1>3, <1>4, Numbers DEF EarlierCounted
<1> QED
  BY <1>5, <1>6, <1>7, <1>8, <1>9 DEF RetryInv

\* After a start nothing was asked, and nothing repeated.
LEMMA BootKeeps ==
  ASSUME /\ asked' = 0 /\ pend' = PendingNone /\ count' = 0 /\ timer' = FALSE
         /\ rx' = RxIdle /\ cb' = CbIdle /\ resent' = [i \in Ids |-> 0]
  PROVE  RetryInv'
<1>1. PendingNone \in Ids /\ 0 \in Ids /\ \A j \in 1 .. MaxAsked : IdOf(j) \in Ids
  BY ConstantsAssumption DEF PendingNone, Ids, IdOf
<1>2. RetryTypes'
  BY <1>1, ConstantsAssumption DEF RetryTypes, CbIdle
<1>3. NoneYet'
  BY <1>1, ConstantsAssumption DEF NoneYet, Times, CbIdle, RxIdle
<1>4. (LastPends /\ LastCounted /\ EarlierCounted)'
  BY DEF LastPends, LastCounted, EarlierCounted, InHand, CbIdle
<1> QED
  BY <1>2, <1>3, <1>4 DEF RetryInv

\* The repetitions stay counted in every step.
LEMMA NextRetryInv == IInv /\ RetryInv /\ [Next]_vars => RetryInv'
<1> SUFFICES ASSUME IInv, RetryInv, [Next]_vars PROVE RetryInv'
  OBVIOUS
<1>1. CASE Rx
  <2>1. CASE StateCommand
    BY <2>1 DEF StateCommand, ipVars, RetryInv, RetryTypes, NoneYet, LastPends, LastCounted,
       EarlierCounted, Times, InHand
  <2> QED
    BY <1>1, <2>1, RequestKeeps, MarkKeeps, ConfirmKeeps DEF Rx
<1>2. CASE Timer
  BY <1>2, EmptyHandedKeeps, TakesKeeps, ChecksKeeps, BumpsKeeps, ResendsKeeps DEF Timer
<1>3. CASE UNCHANGED ipVars
  BY <1>3 DEF ipVars, RetryInv, RetryTypes, NoneYet, LastPends, LastCounted, EarlierCounted,
     Times, InHand
<1>4. Restart => RetryInv'
  BY BootKeeps DEF Restart, BootValues
<1>5. Watchdog \/ UNCHANGED vars => Restart \/ UNCHANGED ipVars
  BY DEF Watchdog, WatchdogTick, WatchdogClears, vars
<1> QED
  BY <1>1, <1>2, <1>3, <1>4, <1>5 DEF Next

\* Nothing was repeated before the first step.
LEMMA InitRetryInv == Init => RetryInv
<1> SUFFICES ASSUME Init PROVE RetryInv
  OBVIOUS
<1>1. PendingNone \in Ids /\ 0 \in Ids /\ \A j \in 1 .. MaxAsked : IdOf(j) \in Ids
  BY ConstantsAssumption DEF PendingNone, Ids, IdOf
<1>2. RetryTypes
  BY <1>1, ConstantsAssumption DEF Init, RetryTypes, CbIdle
<1>3. NoneYet
  BY <1>1, ConstantsAssumption DEF Init, NoneYet, Times, CbIdle, RxIdle
<1>4. LastPends /\ LastCounted /\ EarlierCounted
  BY DEF Init, LastPends, LastCounted, EarlierCounted, InHand, CbIdle
<1> QED
  BY <1>2, <1>3, <1>4 DEF RetryInv

\* An answer is repeated IP_RETRY_MAX times at most, and once more for each
\* neighbouring request, though the RX task and the timer task share the id
\* and the counter with no lock (RetriesBounded).
THEOREM BoundedRetries == Spec => []RetriesBounded
BY InitIInv, NextIInv, InitRetryInv, NextRetryInv, CountedIsBounded, PTL DEF Spec

-----------------------------------------------------------------------------

\* The types the arguments above did not need.
OtherTypes ==
  /\ confirmed \subseteq Ids
  /\ timer \in BOOLEAN
  /\ states \in 0 .. MaxStates
  /\ wd.miss \in 0 .. MaxMiss - 1
  /\ boots \in 0 .. MaxBoots

\* The other variables keep their types too.
LEMMA NextOtherTypes == IInv /\ OtherTypes /\ [Next]_vars => OtherTypes'
<1> SUFFICES ASSUME IInv, OtherTypes, [Next]_vars PROVE OtherTypes'
  OBVIOUS
<1> USE ConstantsAssumption DEF OtherTypes
<1>1. CASE IpRequest \/ MarkCount \/ ConfirmClears
  BY <1>1 DEF IpRequest, MarkCount, ConfirmClears, wdVars
<1>2. CASE MarkStart
  <2>1. timer' \in BOOLEAN
    BY <1>2 DEF MarkStart
  <2> QED
    BY <1>2, <2>1 DEF MarkStart, wdVars
<1>3. ASSUME NEW k \in 1 .. MaxAsked, Confirm(k) PROVE OtherTypes'
  <2>1. timer' \in BOOLEAN
    BY <1>3 DEF Confirm
  <2>2. IdOf(k) \in Ids
    BY DEF IdOf, Ids
  <2> QED
    BY <1>3, <2>1, <2>2 DEF Confirm, wdVars
<1>4. CASE StateCommand
  BY <1>4 DEF StateCommand, ipVars
<1>5. CASE Timer
  <2>1. timer' \in BOOLEAN
    BY <1>5 DEF Timer, CbFires, CbReadsId, CbChecks, CbStops, CbClears, CbBumps, CbResends
  <2> QED
    BY <1>5, <2>1
    DEF Timer, CbFires, CbReadsId, CbChecks, CbStops, CbClears, CbBumps, CbResends, wdVars
<1>6. CASE WatchdogTick
  <2>1. CASE Restart /\ boots < MaxBoots
    <3>1. /\ confirmed' = {} /\ timer' = FALSE /\ states' = states
          /\ wd' = [at |-> "sleep", miss |-> 0] /\ boots' = boots + 1
      BY <2>1 DEF Restart, BootValues
    <3>2. timer' \in BOOLEAN
      BY <3>1
    <3> QED
      BY <2>1, <3>1, <3>2
  <2>2. CASE UNCHANGED <<ipVars, states, boots>> /\ wd' = [at |-> "clear", miss |-> 0]
    BY <2>2 DEF ipVars
  <2>3. CASE UNCHANGED <<ipVars, states, boots>> /\ wd.miss + 1 < MaxMiss
             /\ wd' = [wd EXCEPT !.miss = @ + 1]
    BY <2>3 DEF ipVars, IInv, Types
  <2> QED
    BY <1>6, <2>1, <2>2, <2>3 DEF WatchdogTick
<1>7. CASE WatchdogClears
  BY <1>7 DEF WatchdogClears, ipVars, IInv, Types
<1>8. CASE UNCHANGED vars
  BY <1>8 DEF vars, ipVars, wdVars
<1> QED
  BY <1>1, <1>2, <1>3, <1>4, <1>5, <1>6, <1>7, <1>8 DEF Next, Rx, Watchdog

\* Every variable keeps its type: the counter stays within the retries and
\* the watchdog's within the misses.
THEOREM TypeCorrect == Spec => []TypeOK
<1>1. Init => OtherTypes
  <2> SUFFICES ASSUME Init PROVE OtherTypes
    OBVIOUS
  <2>1. timer \in BOOLEAN
    BY DEF Init
  <2>2. 0 \in 0 .. MaxStates /\ 0 \in 0 .. MaxMiss - 1 /\ 0 \in 0 .. MaxBoots
    BY ConstantsAssumption
  <2> QED
    BY <2>1, <2>2 DEF Init, OtherTypes
<1>2. IInv /\ RetryInv /\ OtherTypes => TypeOK
  <2> SUFFICES ASSUME IInv, RetryInv, OtherTypes PROVE TypeOK
    OBVIOUS
  <2>1. wd \in [at : {"sleep", "clear"}, miss : 0 .. MaxMiss - 1]
    BY DEF IInv, Types, OtherTypes
  <2> QED
    BY <2>1 DEF IInv, Types, RetryInv, RetryTypes, OtherTypes, TypeOK
<1> QED
  BY InitIInv, NextIInv, InitRetryInv, NextRetryInv, NextOtherTypes, <1>1, <1>2, PTL DEF Spec
=============================================================================
