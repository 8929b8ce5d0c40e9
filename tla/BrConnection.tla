---------------------------- MODULE BrConnection ----------------------------
(***************************************************************************)
(* How the backend follows its border routers: BrMdnsBrowser (which        *)
(* instances are announced), BrConnectionService (one BrTcpClient per      *)
(* instance, the ActiveBr entries, the poll loop, the handlers) and        *)
(* BrProvisioningService (the status column of the Networks table).        *)
(*                                                                         *)
(* Each await of a handler ends an action, since the poll loop, the run    *)
(* loops, the mDNS threads and the HTTP requests interleave there.         *)
(* Every connection a client makes is numbered; connection n also names    *)
(* the OnClientConnected call it started, the ActiveBr object that call    *)
(* creates, and the MarkOffline call made when that object is dropped.     *)
(***************************************************************************)
EXTENDS Naturals, FiniteSets

CONSTANTS
  Instances,         \* mDNS service instances
  Networks,          \* rows of the Networks table, one per EUI-64
  NetworkOf,         \* NetworkOf[i]: the row whose EUI-64 instance i reports
  Admins,            \* accept and reject requests
  MaxAnnouncements,  \* bound: times an instance is newly announced
  MaxClients,        \* bound: BrTcpClient objects made
  MaxConnections,    \* bound: TCP connections made
  MaxRestarts        \* bound: restarts of the backend

ASSUME ConstantsAssumption ==
  /\ Instances # {}
  /\ NetworkOf \in [Instances -> Networks]
  /\ {MaxAnnouncements, MaxClients, MaxConnections, MaxRestarts} \subseteq Nat

Clients == 1 .. MaxClients
Conns   == 1 .. MaxConnections
Rounds  == 1 .. MaxAnnouncements

VARIABLES
  known,      \* BrMdnsBrowser._known
  raised,     \* BrFound / BrLost events on their way to the service
  announced,  \* announcements so far
  clientOf,   \* _clients: instance -> client, 0 for no entry
  made,       \* clients made so far
  instOf,     \* the endpoint a client was made for
  life,       \* "none", "added", "running", "dropped", "disposed", "orphan"
  link,       \* a client's socket: "off", "up", or "closed" before Disconnected
  owner,      \* the client of a connection, 0 while it is not made
  handler,    \* OnClientConnectedAsync: "none", "mac", "read", "insert", "activate", "done"
  active,     \* _active: instance -> ActiveBr (by connection), 0 for no entry
  status,     \* ActiveBr.Status; before that, what the handler read
  leaving,    \* MarkOfflineAsync: "none", "read", "save", "done"
  row,        \* the Status column of the Networks table
  poll,       \* PollActiveAsync: where it is, on which entry, the status it read
  todo,       \* entries of its array still to visit
  admin,      \* accept and reject requests: the step, and the network
  shown,      \* the last NotifyConnectionChanged of a network
  told,       \* networks whose live data was pushed
  notifying,  \* HandleNotifyAsync calls waiting at the gate
  restarts    \* restarts so far

mdnsVars    == <<known, raised, announced>>
clientVars  == <<clientOf, made, instOf, life>>
connVars    == <<link, owner>>
activeVars  == <<active, status>>
pushVars    == <<shown, told>>
pollVars    == <<poll, todo>>

vars == <<mdnsVars, clientVars, connVars, handler, activeVars, leaving, row,
          pollVars, admin, pushVars, notifying, restarts>>

Events == [kind : {"found", "lost"}, inst : Instances, round : Rounds]

Statuses == {"pending", "connected", "rejected", "offline"}

NoPoll == [at |-> "idle", on |-> 0, read |-> "pending"]
NoAdmin == [at |-> "idle", net |-> CHOOSE n \in Networks : TRUE]

Up(c) == link[c] = "up"

\* A run loop that keeps reconnecting.
Runs(c) == life[c] \in {"running", "orphan"}

\* The instance, and the network, of connection n.
InstOf(n) == instOf[owner[n]]
NetOf(n)  == NetworkOf[InstOf(n)]

MdnsType ==
  /\ known \subseteq Instances
  /\ raised \subseteq Events
  /\ announced \in 0 .. MaxAnnouncements

ClientType ==
  /\ clientOf \in [Instances -> {0} \cup Clients]
  /\ made \in 0 .. MaxClients
  /\ instOf \in [Clients -> Instances]
  /\ life \in [Clients -> {"none", "added", "running", "dropped", "disposed", "orphan"}]

ConnType ==
  /\ link \in [Clients -> {"off", "up", "closed"}]
  /\ owner \in [Conns -> {0} \cup Clients]
  /\ handler \in [Conns -> {"none", "mac", "read", "insert", "activate", "done"}]

EntryType ==
  /\ active \in [Instances -> {0} \cup Conns]
  /\ status \in [Conns -> Statuses]
  /\ leaving \in [Conns -> {"none", "read", "save", "done"}]

RowType == row \in [Networks -> Statuses \cup {"absent"}]

PollType ==
  /\ poll \in [at : {"idle", "pick", "read", "assign", "alive", "joined"},
               on : {0} \cup Conns, read : Statuses]
  /\ todo \subseteq Conns

AdminType ==
  admin \in [Admins -> [at : {"idle", "accept", "reject", "remove", "done"}, net : Networks]]

PushType ==
  /\ shown \in [Networks -> {"never", "online", "offline"}]
  /\ told \subseteq Networks
  /\ notifying \subseteq Conns
  /\ restarts \in 0 .. MaxRestarts

TypeOK ==
  MdnsType /\ ClientType /\ ConnType /\ EntryType /\ RowType /\ PollType /\ AdminType /\ PushType

Init ==
  /\ known = {} /\ raised = {} /\ announced = 0
  /\ clientOf = [i \in Instances |-> 0]
  /\ made = 0
  /\ instOf = [c \in Clients |-> CHOOSE i \in Instances : TRUE]
  /\ life = [c \in Clients |-> "none"]
  /\ link = [c \in Clients |-> "off"]
  /\ owner = [n \in Conns |-> 0]
  /\ handler = [n \in Conns |-> "none"]
  /\ active = [i \in Instances |-> 0]
  /\ status = [n \in Conns |-> "pending"]
  /\ leaving = [n \in Conns |-> "none"]
  /\ row = [n \in Networks |-> "absent"]
  /\ poll = NoPoll /\ todo = {}
  /\ admin = [a \in Admins |-> NoAdmin]
  /\ shown = [n \in Networks |-> "never"]
  /\ told = {} /\ notifying = {}
  /\ restarts = 0

-----------------------------------------------------------------------------
(***************************************************************************)
(* BrMdnsBrowser.  Its maps change under a lock; the events are raised     *)
(* after it, by the receiving threads and the sweep thread.                *)
(***************************************************************************)

Discovered(i) ==
  /\ announced < MaxAnnouncements
  /\ i \notin known
  /\ known' = known \cup {i}
  /\ announced' = announced + 1
  /\ raised' = raised \cup {[kind |-> "found", inst |-> i, round |-> announced + 1]}
  /\ UNCHANGED <<clientVars, connVars, handler, activeVars, leaving, row, pollVars, admin,
                 pushVars, notifying, restarts>>

\* A goodbye, or the sweep that collects every instance not seen for a while.
Withdrawn(gone) ==
  /\ gone # {}
  /\ gone \subseteq known
  /\ known' = known \ gone
  /\ raised' = raised \cup [kind : {"lost"}, inst : gone, round : {announced}]
  /\ UNCHANGED <<announced, clientVars, connVars, handler, activeVars, leaving, row, pollVars,
                 admin, pushVars, notifying, restarts>>

-----------------------------------------------------------------------------
(***************************************************************************)
(* The client table.                                                       *)
(***************************************************************************)

\* A client disposed before its Start is started all the same.
Disposed(c) == [life EXCEPT ![c] = IF @ = "added" THEN "dropped" ELSE "disposed"]

\* The ActiveBr of instance i goes, whatever client it was made for; one
\* that was known as Connected is reported and marked offline.
Leave(i) ==
  /\ active' = [active EXCEPT ![i] = 0]
  /\ IF active[i] # 0 /\ status[active[i]] = "connected"
     THEN /\ shown' = [shown EXCEPT ![NetOf(active[i])] = "offline"]
          /\ leaving' = [leaving EXCEPT ![active[i]] = "read"]
     ELSE UNCHANGED <<shown, leaving>>

\* Mutant: the table's entry is replaced.
OnBrFoundReplaces(e) ==
  /\ e \in raised
  /\ e.kind = "found"
  /\ made < MaxClients
  /\ raised' = raised \ {e}
  /\ made' = made + 1
  /\ clientOf' = [clientOf EXCEPT ![e.inst] = made']
  /\ instOf' = [instOf EXCEPT ![made'] = e.inst]
  /\ life' = [life EXCEPT ![made'] = "added"]
  /\ UNCHANGED <<known, announced, connVars, handler, activeVars, leaving, row, pollVars, admin,
                 pushVars, notifying, restarts>>

OnBrFound(e) ==
  /\ e \in raised
  /\ e.kind = "found"
  /\ raised' = raised \ {e}
  /\ IF clientOf[e.inst] # 0
     THEN UNCHANGED clientVars
     ELSE /\ made < MaxClients
          /\ made' = made + 1
          /\ clientOf' = [clientOf EXCEPT ![e.inst] = made']
          /\ instOf' = [instOf EXCEPT ![made'] = e.inst]
          /\ life' = [life EXCEPT ![made'] = "added"]
  /\ UNCHANGED <<known, announced, connVars, handler, activeVars, leaving, row, pollVars, admin,
                 pushVars, notifying, restarts>>

StartClient(c) ==
  /\ life[c] \in {"added", "dropped"}
  /\ life' = [life EXCEPT ![c] = IF @ = "added" THEN "running" ELSE "orphan"]
  /\ UNCHANGED <<mdnsVars, clientOf, made, instOf, connVars, handler, activeVars, leaving, row,
                 pollVars, admin, pushVars, notifying, restarts>>

\* Mutant: the network of a border router that disappears stays online.
OnBrLostQuietly(e) ==
  /\ e \in raised
  /\ e.kind = "lost"
  /\ raised' = raised \ {e}
  /\ clientOf' = [clientOf EXCEPT ![e.inst] = 0]
  /\ active' = [active EXCEPT ![e.inst] = 0]
  /\ life' = IF clientOf[e.inst] = 0 THEN life ELSE Disposed(clientOf[e.inst])
  /\ UNCHANGED <<known, announced, made, instOf, connVars, handler, status, leaving, row,
                 pollVars, admin, pushVars, notifying, restarts>>

OnBrLost(e) ==
  /\ e \in raised
  /\ e.kind = "lost"
  /\ raised' = raised \ {e}
  /\ IF clientOf[e.inst] = 0
     THEN UNCHANGED <<clientOf, life, active, shown, leaving>>
     ELSE /\ clientOf' = [clientOf EXCEPT ![e.inst] = 0]
          /\ life' = Disposed(clientOf[e.inst])
          /\ Leave(e.inst)
  /\ UNCHANGED <<known, announced, made, instOf, connVars, handler, status, row, pollVars,
                 admin, told, notifying, restarts>>

-----------------------------------------------------------------------------
(***************************************************************************)
(* A client's connections and the handlers they start.                     *)
(***************************************************************************)

\* The socket is up and Connected is raised: the handler checks, before its
\* first await, that the table still holds this client.
Connect(c, n) ==
  /\ Runs(c)
  /\ link[c] = "off"
  /\ owner[n] = 0
  /\ \A m \in 1 .. n - 1 : owner[m] # 0
  /\ link' = [link EXCEPT ![c] = "up"]
  /\ owner' = [owner EXCEPT ![n] = c]
  /\ handler' = [handler EXCEPT ![n] = IF clientOf[instOf[c]] = c THEN "mac" ELSE "done"]
  /\ UNCHANGED <<mdnsVars, clientVars, activeVars, leaving, row, pollVars, admin, pushVars,
                 notifying, restarts>>

LinkLost(c) ==
  /\ link[c] = "up"
  /\ link' = [link EXCEPT ![c] = "closed"]
  /\ UNCHANGED <<mdnsVars, clientVars, owner, handler, activeVars, leaving, row, pollVars,
                 admin, pushVars, notifying, restarts>>

\* A disposed client's read is cancelled, and Disconnected is not raised.
Cancelled(c) ==
  /\ life[c] = "disposed"
  /\ link[c] = "up"
  /\ link' = [link EXCEPT ![c] = "off"]
  /\ UNCHANGED <<mdnsVars, clientVars, owner, handler, activeVars, leaving, row, pollVars,
                 admin, pushVars, notifying, restarts>>

\* Disconnected, after a connection or a failed attempt.  The handler knows
\* the instance and not the client.
OnClientDisconnected(c) ==
  /\ link[c] = "closed" \/ (link[c] = "off" /\ Runs(c))
  /\ link' = [link EXCEPT ![c] = "off"]
  /\ Leave(instOf[c])
  /\ UNCHANGED <<mdnsVars, clientVars, owner, handler, status, row, pollVars, admin, told,
                 notifying, restarts>>

MacAnswered(n) ==
  /\ handler[n] = "mac"
  /\ handler' = [handler EXCEPT ![n] = "read"]
  /\ UNCHANGED <<mdnsVars, clientVars, connVars, activeVars, leaving, row, pollVars, admin,
                 pushVars, notifying, restarts>>

\* No MAC address, or the database throws: logged, and no entry is made.
HandshakeFails(n) ==
  /\ handler[n] \in {"mac", "read", "insert"}
  /\ handler' = [handler EXCEPT ![n] = "done"]
  /\ UNCHANGED <<mdnsVars, clientVars, connVars, activeVars, leaving, row, pollVars, admin,
                 pushVars, notifying, restarts>>

GetNetwork(n) ==
  /\ handler[n] = "read"
  /\ IF row[NetOf(n)] = "absent"
     THEN handler' = [handler EXCEPT ![n] = "insert"] /\ UNCHANGED status
     ELSE /\ handler' = [handler EXCEPT ![n] = "activate"]
          /\ status' = [status EXCEPT ![n] = row[NetOf(n)]]
  /\ UNCHANGED <<mdnsVars, clientVars, connVars, active, leaving, row, pollVars, admin,
                 pushVars, notifying, restarts>>

\* Mutant: the row is written whether or not it is there by now.
CreatePendingUpserts(n) ==
  /\ handler[n] = "insert"
  /\ row' = [row EXCEPT ![NetOf(n)] = "pending"]
  /\ status' = [status EXCEPT ![n] = "pending"]
  /\ handler' = [handler EXCEPT ![n] = "activate"]
  /\ UNCHANGED <<mdnsVars, clientVars, connVars, active, leaving, pollVars, admin, pushVars,
                 notifying, restarts>>

\* The unique index on Eui64 makes the second insert throw.
CreatePending(n) ==
  /\ handler[n] = "insert"
  /\ IF row[NetOf(n)] = "absent"
     THEN /\ row' = [row EXCEPT ![NetOf(n)] = "pending"]
          /\ status' = [status EXCEPT ![n] = "pending"]
          /\ handler' = [handler EXCEPT ![n] = "activate"]
     ELSE handler' = [handler EXCEPT ![n] = "done"] /\ UNCHANGED <<row, status>>
  /\ UNCHANGED <<mdnsVars, clientVars, connVars, active, leaving, pollVars, admin, pushVars,
                 notifying, restarts>>

\* The entry is set without looking at the client table again.
Activate(n) ==
  /\ handler[n] = "activate"
  /\ handler' = [handler EXCEPT ![n] = "done"]
  /\ active' = [active EXCEPT ![InstOf(n)] = n]
  /\ UNCHANGED <<mdnsVars, clientVars, connVars, status, leaving, row, pollVars, admin,
                 pushVars, notifying, restarts>>

MarkOfflineRead(n) ==
  /\ leaving[n] = "read"
  /\ leaving' = [leaving EXCEPT ![n] = IF row[NetOf(n)] = "connected" THEN "save" ELSE "done"]
  /\ UNCHANGED <<mdnsVars, clientVars, connVars, handler, activeVars, row, pollVars, admin,
                 pushVars, notifying, restarts>>

MarkOfflineSave(n) ==
  /\ leaving[n] = "save"
  /\ leaving' = [leaving EXCEPT ![n] = "done"]
  /\ row' = [row EXCEPT ![NetOf(n)] = "offline"]
  /\ UNCHANGED <<mdnsVars, clientVars, connVars, handler, activeVars, pollVars, admin,
                 pushVars, notifying, restarts>>

\* A NOTIFY of any client of the instance counts for its current entry.
NotifyFrame(c) ==
  /\ Up(c)
  /\ LET n == active[instOf[c]] IN
     /\ n # 0
     /\ status[n] = "connected"
     /\ notifying' = notifying \cup {n}
  /\ UNCHANGED <<mdnsVars, clientVars, connVars, handler, activeVars, leaving, row, pollVars,
                 admin, pushVars, restarts>>

HandleNotify(n) ==
  /\ n \in notifying
  /\ notifying' = notifying \ {n}
  /\ told' = told \cup {NetOf(n)}
  /\ UNCHANGED <<mdnsVars, clientVars, connVars, handler, activeVars, leaving, row, pollVars,
                 admin, shown, restarts>>

-----------------------------------------------------------------------------
(***************************************************************************)
(* PollActiveAsync: one entry after the other.                             *)
(***************************************************************************)

PollTick ==
  /\ poll.at = "idle"
  /\ poll' = [poll EXCEPT !.at = "pick"]
  /\ todo' = {active[i] : i \in Instances} \ {0}
  /\ UNCHANGED <<mdnsVars, clientVars, connVars, handler, activeVars, leaving, row, admin,
                 pushVars, notifying, restarts>>

PollPick(n) ==
  /\ poll.at = "pick"
  /\ n \in todo
  /\ todo' = todo \ {n}
  /\ poll' = IF Up(owner[n]) THEN [poll EXCEPT !.at = "read", !.on = n] ELSE poll
  /\ UNCHANGED <<mdnsVars, clientVars, connVars, handler, activeVars, leaving, row, admin,
                 pushVars, notifying, restarts>>

PollRead ==
  /\ poll.at = "read"
  /\ poll' = [poll EXCEPT !.at = "assign", !.read = row[NetOf(poll.on)]]
  /\ UNCHANGED <<mdnsVars, clientVars, connVars, handler, activeVars, leaving, row, todo, admin,
                 pushVars, notifying, restarts>>

\* Mutant: the entry is updated before it is compared.
PollAssignFirst ==
  /\ poll.at = "assign"
  /\ status' = [status EXCEPT ![poll.on] = poll.read]
  /\ poll' = [poll EXCEPT !.at = IF poll.read = "connected" /\ status'[poll.on] # "connected"
                                 THEN "joined" ELSE "alive"]
  /\ UNCHANGED <<mdnsVars, clientVars, connVars, handler, active, leaving, row, todo, admin,
                 pushVars, notifying, restarts>>

\* becameConnected, and br.Status; the keepalive request follows.
PollAssign ==
  /\ poll.at = "assign"
  /\ status' = [status EXCEPT ![poll.on] = poll.read]
  /\ poll' = [poll EXCEPT !.at = IF poll.read = "connected" /\ status[poll.on] # "connected"
                                 THEN "joined" ELSE "alive"]
  /\ UNCHANGED <<mdnsVars, clientVars, connVars, handler, active, leaving, row, todo, admin,
                 pushVars, notifying, restarts>>

\* Mutant: the health of every border router is pushed.
PollAliveAll ==
  /\ poll.at = "alive"
  /\ poll' = [poll EXCEPT !.at = "pick"]
  /\ told' = told \cup {NetOf(poll.on)}
  /\ UNCHANGED <<mdnsVars, clientVars, connVars, handler, activeVars, leaving, row, todo, admin,
                 shown, notifying, restarts>>

\* The keepalive returned or failed; an accepted network's health is pushed
\* on some of the polls.
PollAlive ==
  /\ poll.at = "alive"
  /\ poll' = [poll EXCEPT !.at = "pick"]
  /\ \/ UNCHANGED told
     \/ poll.read = "connected" /\ told' = told \cup {NetOf(poll.on)}
  /\ UNCHANGED <<mdnsVars, clientVars, connVars, handler, activeVars, leaving, row, todo, admin,
                 shown, notifying, restarts>>

PollJoined ==
  /\ poll.at = "joined"
  /\ poll' = [poll EXCEPT !.at = "pick"]
  /\ shown' = [shown EXCEPT ![NetOf(poll.on)] = "online"]
  /\ told' = told \cup {NetOf(poll.on)}
  /\ UNCHANGED <<mdnsVars, clientVars, connVars, handler, activeVars, leaving, row, todo, admin,
                 notifying, restarts>>

PollEnd ==
  /\ poll.at = "pick"
  /\ todo = {}
  /\ poll' = NoPoll
  /\ UNCHANGED <<mdnsVars, clientVars, connVars, handler, activeVars, leaving, row, todo, admin,
                 pushVars, notifying, restarts>>

-----------------------------------------------------------------------------
(***************************************************************************)
(* Accept and reject: the row is read, checked and saved in separate       *)
(* steps, with no concurrency token on it.                                 *)
(***************************************************************************)

Decide(a, net, what) ==
  /\ admin[a].at = "idle"
  /\ row[net] = "pending"
  /\ admin' = [admin EXCEPT ![a] = [at |-> what, net |-> net]]
  /\ UNCHANGED <<mdnsVars, clientVars, connVars, handler, activeVars, leaving, row, pollVars,
                 pushVars, notifying, restarts>>

AcceptSave(a) ==
  /\ admin[a].at = "accept"
  /\ row' = [row EXCEPT ![admin[a].net] = "connected"]
  /\ admin' = [admin EXCEPT ![a].at = "done"]
  /\ UNCHANGED <<mdnsVars, clientVars, connVars, handler, activeVars, leaving, pollVars,
                 pushVars, notifying, restarts>>

RejectSave(a) ==
  /\ admin[a].at = "reject"
  /\ row' = [row EXCEPT ![admin[a].net] = "rejected"]
  /\ admin' = [admin EXCEPT ![a].at = "remove"]
  /\ UNCHANGED <<mdnsVars, clientVars, connVars, handler, activeVars, leaving, pollVars,
                 pushVars, notifying, restarts>>

\* The first entry found for the network goes, with the client of its
\* instance.
RejectRemove(a) ==
  /\ admin[a].at = "remove"
  /\ admin' = [admin EXCEPT ![a].at = "done"]
  /\ LET of == {i \in Instances : active[i] # 0 /\ NetOf(active[i]) = admin[a].net} IN
     IF of = {}
     THEN UNCHANGED <<active, clientOf, life>>
     ELSE \E i \in of :
            /\ active' = [active EXCEPT ![i] = 0]
            /\ clientOf' = [clientOf EXCEPT ![i] = 0]
            /\ life' = IF clientOf[i] = 0 THEN life ELSE Disposed(clientOf[i])
  /\ UNCHANGED <<mdnsVars, made, instOf, connVars, handler, status, leaving, row, pollVars,
                 pushVars, notifying, restarts>>

-----------------------------------------------------------------------------

\* The backend stops, at any point, and starts again: the rows stay.
Restart ==
  /\ restarts < MaxRestarts
  /\ restarts' = restarts + 1
  /\ known' = {} /\ raised' = {} /\ notifying' = {} /\ todo' = {} /\ poll' = NoPoll
  /\ clientOf' = [i \in Instances |-> 0]
  /\ life' = [c \in Clients |-> IF life[c] = "none" THEN "none" ELSE "disposed"]
  /\ link' = [c \in Clients |-> "off"]
  /\ handler' = [n \in Conns |-> IF handler[n] = "none" THEN "none" ELSE "done"]
  /\ active' = [i \in Instances |-> 0]
  /\ leaving' = [n \in Conns |-> IF leaving[n] = "none" THEN "none" ELSE "done"]
  /\ admin' = [a \in Admins |-> IF admin[a].at = "idle" THEN admin[a]
                                                          ELSE [admin[a] EXCEPT !.at = "done"]]
  /\ UNCHANGED <<announced, made, instOf, owner, status, row, pushVars>>

Browser == (\E i \in Instances : Discovered(i)) \/ (\E gone \in SUBSET known : Withdrawn(gone))

Table == (\E e \in raised : OnBrFound(e) \/ OnBrLost(e)) \/ (\E c \in Clients : StartClient(c))

Socket(c) ==
  \/ \E n \in Conns : Connect(c, n)
  \/ LinkLost(c) \/ Cancelled(c) \/ OnClientDisconnected(c) \/ NotifyFrame(c)

Handler(n) ==
  \/ MacAnswered(n) \/ HandshakeFails(n) \/ GetNetwork(n) \/ CreatePending(n) \/ Activate(n)
  \/ MarkOfflineRead(n) \/ MarkOfflineSave(n) \/ HandleNotify(n)

PollLoop ==
  \/ PollTick \/ (\E n \in Conns : PollPick(n)) \/ PollRead \/ PollAssign \/ PollAlive
  \/ PollJoined \/ PollEnd

Request(a) ==
  \/ \E net \in Networks, what \in {"accept", "reject"} : Decide(a, net, what)
  \/ AcceptSave(a) \/ RejectSave(a) \/ RejectRemove(a)

Next ==
  \/ Browser \/ Table
  \/ \E c \in Clients : Socket(c)
  \/ \E n \in Conns : Handler(n)
  \/ PollLoop
  \/ \E a \in Admins : Request(a)
  \/ Restart

Spec == Init /\ [][Next]_vars

\* Raised events are delivered, run loops and handlers make progress, and the
\* poll timer keeps ticking.  Nothing makes a border router answer or stay.
Fairness ==
  /\ WF_vars(Table)
  /\ \A c \in Clients : WF_vars(link[c] = "closed" /\ OnClientDisconnected(c))
                        /\ WF_vars(Cancelled(c))
  /\ \A n \in Conns : WF_vars(GetNetwork(n)) /\ WF_vars(CreatePending(n)) /\ WF_vars(Activate(n))
                      /\ WF_vars(MarkOfflineRead(n)) /\ WF_vars(MarkOfflineSave(n))
  /\ WF_vars(PollLoop)

FairSpec == Spec /\ Fairness

-----------------------------------------------------------------------------
(***************************************************************************)
(* Properties.                                                             *)
(***************************************************************************)

\* The backend pushes nothing about a network -- neither a connection state
\* nor a change of live data -- before an administrator decided about it,
\* however late the handlers, the NOTIFY gate and the poll loop act on what
\* they read.  This is about pushes: the REST snapshots look at no Status and
\* answer a page that opens a pending network.
OnlyDecidedPushed ==
  \A n \in Networks : shown[n] # "never" \/ n \in told => row[n] \notin {"absent", "pending"}

\* An instance has at most one client that was not disposed, the one in the
\* table, even while mDNS events overtake each other and a reject removes it.
\* Not counted is a client disposed before its Start ("orphan"), which goes
\* on to connect all the same, beside the one in the table.
OneClientPerInstance ==
  /\ \A i \in Instances : clientOf[i] # 0 =>
       instOf[clientOf[i]] = i /\ life[clientOf[i]] \in {"added", "running"}
  /\ \A c \in Clients : life[c] \in {"added", "running"} => clientOf[instOf[c]] = c

\* Once a network is accepted while its border router is connected, the poll
\* loop reports it online, unless the connection goes first.
AcceptReachesDashboard ==
  \A i \in Instances, n \in Conns :
    (active[i] = n /\ status[n] = "pending" /\ row[NetworkOf[i]] = "connected")
      ~> (\/ shown[NetworkOf[i]] = "online"
          \/ active[i] # n
          \/ \A c \in Clients : owner[n] = c => ~ Up(c))

\* A border router known as Connected whose connection is lost has its row
\* marked offline, unless a registration is still under way at that moment.
LossIsRecorded ==
  \A i \in Instances, n \in Conns :
    (/\ active[i] = n /\ status[n] = "connected"
     /\ \E c \in Clients : owner[n] = c /\ link[c] = "closed" /\ clientOf[i] = c
     /\ \A m \in Conns : handler[m] \in {"none", "done"})
      ~> (row[NetworkOf[i]] # "connected")

\* A rejected border router stays rejected.
RejectedStays ==
  [][\A n \in Networks : row[n] = "rejected" => row'[n] = "rejected"]_vars

\* One decision at a time keeps to the lifecycle of NetworkLifecycle.
Lifecycle == INSTANCE NetworkLifecycle
KeepsLifecycle == Lifecycle!Spec
=============================================================================
