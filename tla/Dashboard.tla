----------------------------- MODULE Dashboard -----------------------------
(***************************************************************************)
(* A change of the Thread network on its way to the dashboard: what the    *)
(* border router's change detector pushes (ChangeDetector) makes the       *)
(* backend push a SignalR event, the event makes useOtbrData load the data *)
(* again, and the load asks the border router, one command after another.  *)
(* Loads overlap, and the last answer to arrive is what the store keeps.   *)
(*                                                                         *)
(* One network, accepted while its border router is connected, and one     *)
(* page that shows it.  The connection may be lost before the backend has  *)
(* taken over the accept, and come back; it may be lost afterwards, for    *)
(* good: a border router that comes back then is Offline, and nothing is   *)
(* pushed of it any more.                                                  *)
(***************************************************************************)
EXTENDS ChangeDetector, Sequences

CONSTANTS
  Reads,      \* Reads[l]: the aspects load l asks for, in that order
  Optional,   \* aspects a load does without (TryGetIpAsync)
  None,       \* the store has no value
  MaxLoads    \* bound: loads of a kind under way at once

Loads == DOMAIN Reads

AspectsOf(l) == {Reads[l][k] : k \in 1 .. Len(Reads[l])}

ASSUME ViewAssumption ==
  /\ "state" \in Loads
  /\ Optional \subseteq Aspects /\ None \notin Values
  /\ Aspects = UNION {AspectsOf(l) : l \in Loads}

VARIABLES
  row,        \* Status of the network in the database
  entry,      \* Status of its ActiveBr, which a poll takes from the row; "none": removed
  poll,       \* PollActiveAsync: "idle", "row", "state" or "data"
  gate,       \* HandleNotifyAsync calls at _notifyGate: the loads each will cause
  joined,     \* the page is in the hub's group
  events,     \* SignalR events on their way to the page
  missed,     \* loads whose last event was pushed before the page joined
  untold,     \* loads with news of which the backend pushed nothing
  loads,      \* loads[l]: under way, in the order they were started
  shown,      \* the store: the values of the aspects
  conn,       \* the store: connection.isConnected
  overtaken   \* loads whose answer in the store came after newer news

brVars   == <<row, entry, poll, gate>>
pushVars == <<joined, events, missed, untold>>
pageVars == <<loads, shown, conn, overtaken>>
viewVars == <<brVars, pushVars, pageVars>>

NewLoad == [seen |-> <<>>, failed |-> FALSE, late |-> FALSE]

ViewTypeOK ==
  /\ TypeOK
  /\ row \in {"Connected", "Offline"}
  /\ entry \in {"Pending", "Connected", "none"}
  /\ poll \in {"idle", "row", "state", "data"}
  /\ gate \in Seq(SUBSET Loads)
  /\ joined \in BOOLEAN /\ conn \in BOOLEAN
  /\ events \in Seq([conn : {"on", "off", "same"}, starts : SUBSET Loads])
  /\ missed \subseteq Loads /\ untold \subseteq Loads /\ overtaken \subseteq Loads
  /\ shown \in [Aspects -> Values \cup {None}]
  /\ \A l \in Loads :
       loads[l] \in Seq([seen : Seq(Values \cup {None}), failed : BOOLEAN, late : BOOLEAN])

\* The page loads everything when it opens, and joins the group meanwhile.
ViewInit ==
  /\ Init
  /\ row = "Connected" /\ entry = "Pending" /\ poll = "idle" /\ gate = <<>>
  /\ joined = FALSE /\ events = <<>> /\ missed = {} /\ untold = {}
  /\ loads = [l \in Loads |-> <<NewLoad>>]
  /\ shown = [a \in Aspects |-> None]
  /\ conn = FALSE
  /\ overtaken = {}

-----------------------------------------------------------------------------
(***************************************************************************)
(* The backend.                                                            *)
(***************************************************************************)

\* SendAsync to the group: an event the page gets if it has joined.  The
\* loss is news for every load.
PushEvent(news, starts) ==
  LET covers == IF news = "off" THEN Loads ELSE starts IN
  /\ events' = IF joined THEN Append(events, [conn |-> news, starts |-> starts]) ELSE events
  /\ missed' = IF joined THEN missed \ covers ELSE missed \cup covers
  /\ untold' = untold \ covers
  /\ UNCHANGED joined

Join ==
  /\ ~ joined
  /\ joined' = TRUE
  /\ UNCHANGED <<vars, brVars, events, missed, untold, pageVars>>

Reachable == entry # "none"

\* What a NOTIFY with the mask concerns.
Affected == {l \in Loads : AspectsOf(l) \cap Mask # {}}

\* A NOTIFY frame, if any, reaches the backend, which minds those of a
\* network it knows as Connected.  For a Pending one the poll will make up.
Notify ==
  /\ Push
  /\ gate' = IF Mask # {} /\ entry = "Connected" THEN Append(gate, Affected) ELSE gate
  /\ untold' = IF entry = "none" THEN untold \cup Affected ELSE untold
  /\ UNCHANGED <<row, entry, poll, joined, events, missed, pageVars>>

HandleNotify(k) ==
  /\ PushEvent("same", gate[k])
  /\ gate' = SubSeq(gate, 1, k - 1) \o SubSeq(gate, k + 1, Len(gate))
  /\ UNCHANGED <<vars, row, entry, poll, pageVars>>

\* The poll loop reads the row of an entry that is still Pending, ...
PollTakes ==
  /\ entry = "Pending" /\ poll = "idle"
  /\ poll' = "row"
  /\ UNCHANGED <<vars, row, entry, gate, pushVars, pageVars>>

\* ... gives the entry the Status of the row, removed or not, and asks for
\* STATE.
PollAssigns ==
  /\ poll = "row"
  /\ entry' = IF entry = "Pending" THEN "Connected" ELSE entry
  /\ poll' = "state"
  /\ UNCHANGED <<vars, row, gate, pushVars, pageVars>>

\* Whatever happened while it asked.
PollPushesOnline ==
  /\ poll = "state"
  /\ PushEvent("on", Loads)
  /\ poll' = "data"
  /\ UNCHANGED <<vars, row, entry, gate, pageVars>>

PollPushesData ==
  /\ poll = "data"
  /\ PushEvent("same", Loads)
  /\ poll' = "idle"
  /\ UNCHANGED <<vars, row, entry, gate, pageVars>>

\* Mutant: the entry goes and nobody is told.
LoseQuietly ==
  /\ Reachable
  /\ entry' = "none"
  /\ \/ /\ entry = "Connected"
        /\ row' = "Offline"
        /\ UNCHANGED pushVars
     \/ /\ entry = "Pending"
        /\ untold' = Loads
        /\ UNCHANGED <<row, joined, events, missed>>
  /\ UNCHANGED <<vars, poll, gate, pageVars>>

\* OnClientDisconnectedAsync, OnBrLost: the entry goes whatever its Status,
\* and is reported only if that is Connected.
Lose ==
  /\ Reachable
  /\ entry' = "none"
  /\ \/ /\ entry = "Connected"
        /\ row' = "Offline"
        /\ PushEvent("off", {})
     \/ /\ entry = "Pending"
        /\ untold' = Loads
        /\ UNCHANGED <<row, joined, events, missed>>
  /\ UNCHANGED <<vars, poll, gate, pageVars>>

\* OnClientConnectedAsync: the new entry has the Status of the row at once,
\* so no poll finds it changed, and the page is told nothing.
Return ==
  /\ entry = "none" /\ row = "Connected"
  /\ entry' = "Connected"
  /\ UNCHANGED <<vars, row, poll, gate, pushVars, pageVars>>

-----------------------------------------------------------------------------
(***************************************************************************)
(* The loads: a request of the page, and the commands that answer it.      *)
(***************************************************************************)

Asking(l, k) ==
  /\ ~ loads[l][k].failed
  /\ Len(loads[l][k].seen) < Len(Reads[l])

NextOf(l, k) == Reads[l][Len(loads[l][k].seen) + 1]

LoadReads(l, k) ==
  /\ Asking(l, k)
  /\ Reachable
  /\ loads' = [loads EXCEPT ![l][k].seen = Append(@, world[NextOf(l, k)])]
  /\ UNCHANGED <<vars, brVars, pushVars, shown, conn, overtaken>>

\* The load's next command ends without an answer to it.
CommandFails(l, k) ==
  /\ Asking(l, k)
  /\ loads' = IF NextOf(l, k) \in Optional
              THEN [loads EXCEPT ![l][k].seen = Append(@, None)]
              ELSE [loads EXCEPT ![l][k].failed = TRUE]

\* A command fails, or there is no entry to send it to.
LoadMisses(l, k) ==
  /\ CommandFails(l, k)
  /\ UNCHANGED <<vars, brVars, pushVars, shown, conn, overtaken>>

\* Dispatch takes a NOTIFY under the id of an open command for the answer
\* to it, and nobody else hears of it.  The command is a load's, or one of
\* the poll or of another page.
NotifySwallowed ==
  /\ Push /\ Mask # {}
  /\ Reachable
  /\ UNCHANGED loads \/ \E l \in Loads : \E k \in DOMAIN loads[l] : CommandFails(l, k)
  /\ untold' = IF entry = "Pending" THEN untold ELSE untold \cup Affected
  /\ UNCHANGED <<brVars, joined, events, missed, shown, conn, overtaken>>

Late(some) == [k \in DOMAIN some |-> [some[k] EXCEPT !.late = TRUE]]

\* The position of aspect a among the answers of load l.
At(l, a) == CHOOSE k \in 1 .. Len(Reads[l]) : Reads[l][k] = a

\* setOtbrStatus, setThreadDataset, ...; in the catch block setConnection
\* for the state, which keeps the values, and no value for the others.
LoadEnds(l, k) ==
  LET it == loads[l][k] IN
  /\ ~ Asking(l, k)
  /\ loads' = [loads EXCEPT ![l] = Late(SubSeq(@, 1, k - 1)) \o SubSeq(@, k + 1, Len(@))]
  /\ conn' = IF l = "state" THEN ~ it.failed ELSE conn
  /\ shown' = [a \in Aspects |->
                 IF a \notin AspectsOf(l) \/ (it.failed /\ l = "state") THEN shown[a]
                 ELSE IF it.failed THEN None ELSE it.seen[At(l, a)]]
  /\ overtaken' = IF it.late THEN overtaken \cup {l} ELSE overtaken \ {l}
  /\ UNCHANGED <<vars, brVars, pushVars>>

\* Mutant: no second load of a kind while one is under way.
OnEventUnlessLoading ==
  LET it == Head(events) IN
  /\ events # <<>>
  /\ \A l \in it.starts : Len(loads[l]) < MaxLoads
  /\ events' = Tail(events)
  /\ conn' = IF it.conn = "same" THEN conn ELSE it.conn = "on"
  /\ loads' = IF it.conn = "off" THEN [l \in Loads |-> Late(loads[l])]
              ELSE [l \in Loads |-> IF l \in it.starts /\ loads[l] = <<>>
                                    THEN Append(loads[l], NewLoad) ELSE loads[l]]
  /\ UNCHANGED <<vars, brVars, joined, missed, untold, shown, overtaken>>

OnEvent ==
  LET it == Head(events) IN
  /\ events # <<>>
  /\ \A l \in it.starts : Len(loads[l]) < MaxLoads
  /\ events' = Tail(events)
  /\ conn' = IF it.conn = "same" THEN conn ELSE it.conn = "on"
  /\ loads' = IF it.conn = "off" THEN [l \in Loads |-> Late(loads[l])]
              ELSE [l \in Loads |-> IF l \in it.starts
                                    THEN Append(loads[l], NewLoad) ELSE loads[l]]
  /\ UNCHANGED <<vars, brVars, joined, missed, untold, shown, overtaken>>

-----------------------------------------------------------------------------

\* ChangeDetector's own steps; Push is part of Notify and NotifySwallowed.
Detects ==
  /\ OpenThread \/ TimerTask \/ Wake \/ Snapshot \/ LockTimesOut \/ PushFails
  /\ UNCHANGED viewVars

Backend ==
  \/ PollTakes \/ PollAssigns \/ PollPushesOnline \/ PollPushesData
  \/ \E k \in DOMAIN gate : HandleNotify(k)

LoadStep ==
  \E l \in Loads : \E k \in DOMAIN loads[l] : LoadReads(l, k) \/ LoadMisses(l, k) \/ LoadEnds(l, k)

ViewNext ==
  \/ Detects \/ Notify \/ NotifySwallowed
  \/ Join \/ Backend \/ Lose \/ Return
  \/ LoadStep \/ OnEvent

allVars == <<vars, viewVars>>

ViewSpec == ViewInit /\ [][ViewNext]_allVars

\* Tasks, timers, the poll loop, pushes and requests go on; the network
\* need not change nor a connection be lost or come back, and any command may fail.
ViewFairness ==
  /\ WF_allVars(OnStateChanged /\ UNCHANGED viewVars)
  /\ WF_allVars(StartDebounce /\ UNCHANGED viewVars)
  /\ WF_allVars(TimerTask /\ UNCHANGED viewVars)
  /\ WF_allVars(\/ Notify \/ NotifySwallowed
                \/ (Wake \/ Snapshot \/ LockTimesOut \/ PushFails) /\ UNCHANGED viewVars)
  /\ WF_allVars(Backend)
  /\ WF_allVars(LoadStep)
  /\ WF_allVars(OnEvent)

FairViewSpec == ViewSpec /\ ViewFairness

-----------------------------------------------------------------------------
(***************************************************************************)
(* Properties.                                                             *)
(***************************************************************************)

\* Each of these is a way a change can fail to get to the page: the NOTIFY
\* or the snapshot, news the backend pushed nothing of, an event before the
\* page joined, an answer overtaken.
Excused(l) ==
  \/ skipped
  \/ l \in missed \cup untold \cup overtaken
  \/ owed \cap AspectsOf(l) # {}

\* The page shows that it has no data of load l.
ShownMissing(l) == IF l = "state" THEN ~ conn ELSE \A a \in AspectsOf(l) : shown[a] = None

\* A change reaches the page, however the debounce, the snapshots, the polls
\* and overlapping loads fall, or the page shows that it has no data.
ViewCatchesUp ==
  \A l \in Loads : \A a \in AspectsOf(l) \ Optional :
    (entry = "Connected" /\ shown[a] # world[a])
      ~> (shown[a] = world[a] \/ entry # "Connected" \/ ShownMissing(l) \/ Excused(l))

\* A lost border router is shown as not connected, though a poll may push
\* online after the loss was pushed, unless it is back.  The exceptions: a
\* load answered late, a page that had not joined, and an entry that was not
\* Connected yet, whose loss the backend pushes to nobody although the loads
\* it answered said connected.
LossIsShown ==
  ~ Reachable ~> (~ conn \/ Reachable \/ "state" \in missed \cup untold \cup overtaken)
=============================================================================
