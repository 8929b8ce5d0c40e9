------------------------- MODULE BrConnectionProofs -------------------------
(***************************************************************************)
(* Connections, clients and decisions, for any number of instances,        *)
(* networks, administrators, clients, connections and restarts.            *)
(***************************************************************************)
EXTENDS BrConnection, TLAPS

OneAdmin == \A a, b \in Admins : a = b

\* What a row can be once it was connected: a second administrator who read
\* it before may still reject it.
Later == IF OneAdmin THEN {"connected", "offline"} ELSE {"connected", "offline", "rejected"}

\* Connection n was made, and its network is in the table, or was accepted.
Made(n)     == owner[n] # 0
Seen(n)     == Made(n) /\ row[NetOf(n)] # "absent"
Accepted(n) == Made(n) /\ row[NetOf(n)] \in Later

\* Clients are made one after the other, and connect after they are made.
FreshClients ==
  /\ \A c \in Clients : c > made => life[c] = "none"
  /\ \A n \in Conns : owner[n] <= made

\* A handler, and the MarkOffline of a dropped entry, are those of a
\* connection that was made.
HandlersMade == \A n \in Conns : handler[n] # "none" => Made(n)

\* What the handler is about to enter, the table of entries, and what the
\* poll loop has taken from it, are connections of networks in the table.
Remembered(n) ==
  \/ handler[n] = "activate"
  \/ \E i \in Instances : active[i] = n
  \/ n \in todo
  \/ poll.at \notin {"idle", "pick"} /\ poll.on = n

EntriesSeen ==
  /\ \A n \in Conns : Remembered(n) => Seen(n)
  /\ poll.at \notin {"idle", "pick"} => poll.on \in Conns

\* Whoever remembers a network as Connected, remembers one that was.
RememberedConnected(n) ==
  \/ status[n] = "connected"
  \/ leaving[n] \in {"read", "save"}
  \/ n \in notifying
  \/ poll.at \in {"assign", "alive", "joined"} /\ poll.read = "connected" /\ poll.on = n

ConnectedWasAccepted ==
  /\ \A n \in Conns : RememberedConnected(n) => Accepted(n)
  /\ poll.at = "joined" => poll.read = "connected"

\* Nothing was pushed before.
PushedWasAccepted ==
  \A net \in Networks : shown[net] # "never" \/ net \in told => row[net] \in Later

\* A lone administrator decides about a network that is still pending.
DecidesPending ==
  OneAdmin => \A a \in Admins : admin[a].at \in {"accept", "reject"} => row[admin[a].net] = "pending"

\* What the browser knows was announced before.
AnnouncedFirst == known # {} => announced \in Rounds

IInv ==
  /\ TypeOK /\ AnnouncedFirst
  /\ FreshClients /\ OneClientPerInstance
  /\ HandlersMade /\ EntriesSeen
  /\ ConnectedWasAccepted /\ PushedWasAccepted /\ DecidesPending

-----------------------------------------------------------------------------
(***************************************************************************)
(* Who changes what.                                                       *)
(***************************************************************************)

\* The client table and the clients.
LEMMA ClientSteps ==
  ASSUME [Next]_vars
  PROVE  \/ \E e \in raised : OnBrFound(e) \/ OnBrLost(e)
         \/ \E c \in Clients : StartClient(c)
         \/ \E a \in Admins : RejectRemove(a)
         \/ Restart
         \/ UNCHANGED clientVars
<1> USE DEF clientVars
<1>1. CASE Browser \/ PollLoop
  BY <1>1 DEF Browser, Discovered, Withdrawn, PollLoop, PollTick, PollPick, PollRead, PollAssign,
     PollAlive, PollJoined, PollEnd
<1>2. CASE Table
  BY <1>2 DEF Table
<1>3. ASSUME NEW c \in Clients, Socket(c) PROVE UNCHANGED clientVars
  BY <1>3 DEF Socket, Connect, LinkLost, Cancelled, OnClientDisconnected, NotifyFrame
<1>4. ASSUME NEW n \in Conns, Handler(n) PROVE UNCHANGED clientVars
  BY <1>4 DEF Handler, MacAnswered, HandshakeFails, GetNetwork, CreatePending, Activate,
     MarkOfflineRead, MarkOfflineSave, HandleNotify
<1>5. ASSUME NEW a \in Admins, Request(a) PROVE RejectRemove(a) \/ UNCHANGED clientVars
  BY <1>5 DEF Request, Decide, AcceptSave, RejectSave
<1>6. CASE UNCHANGED vars
  BY <1>6 DEF vars
<1> QED
  BY <1>1, <1>2, <1>3, <1>4, <1>5, <1>6 DEF Next

\* Connections are made one at a time, by a client that runs.
LEMMA ConnSteps ==
  ASSUME [Next]_vars
  PROVE  \/ \E c \in Clients, n \in Conns : Connect(c, n)
         \/ UNCHANGED owner
<1> USE DEF connVars
<1>1. CASE Browser \/ PollLoop \/ Restart
  BY <1>1 DEF Browser, Discovered, Withdrawn, PollLoop, PollTick, PollPick, PollRead, PollAssign,
     PollAlive, PollJoined, PollEnd, Restart
<1>2. ASSUME NEW e \in raised, OnBrFound(e) \/ OnBrLost(e) PROVE UNCHANGED owner
  BY <1>2 DEF OnBrFound, OnBrLost
<1>3. ASSUME NEW c \in Clients, StartClient(c) PROVE UNCHANGED owner
  BY <1>3 DEF StartClient
<1>4. ASSUME NEW c \in Clients, Socket(c)
      PROVE  (\E n \in Conns : Connect(c, n)) \/ UNCHANGED owner
  BY <1>4 DEF Socket, LinkLost, Cancelled, OnClientDisconnected, NotifyFrame
<1>5. ASSUME NEW n \in Conns, Handler(n) PROVE UNCHANGED owner
  BY <1>5 DEF Handler, MacAnswered, HandshakeFails, GetNetwork, CreatePending, Activate,
     MarkOfflineRead, MarkOfflineSave, HandleNotify
<1>6. ASSUME NEW a \in Admins, Request(a) PROVE UNCHANGED owner
  BY <1>6 DEF Request, Decide, AcceptSave, RejectSave, RejectRemove
<1>7. CASE UNCHANGED vars
  BY <1>7 DEF vars
<1> QED
  BY <1>1, <1>2, <1>3, <1>4, <1>5, <1>6, <1>7 DEF Next, Table

\* The handlers.
LEMMA HandlerSteps ==
  ASSUME [Next]_vars
  PROVE  \/ \E c \in Clients, n \in Conns : Connect(c, n)
         \/ \E n \in Conns : \/ MacAnswered(n) \/ HandshakeFails(n) \/ GetNetwork(n)
                             \/ CreatePending(n) \/ Activate(n)
         \/ Restart
         \/ UNCHANGED handler
<1>1. CASE Browser \/ PollLoop
  BY <1>1 DEF Browser, Discovered, Withdrawn, PollLoop, PollTick, PollPick, PollRead, PollAssign,
     PollAlive, PollJoined, PollEnd
<1>2. ASSUME NEW e \in raised, OnBrFound(e) \/ OnBrLost(e) PROVE UNCHANGED handler
  BY <1>2 DEF OnBrFound, OnBrLost
<1>3. ASSUME NEW c \in Clients, StartClient(c) PROVE UNCHANGED handler
  BY <1>3 DEF StartClient
<1>4. ASSUME NEW c \in Clients, Socket(c)
      PROVE  (\E n \in Conns : Connect(c, n)) \/ UNCHANGED handler
  BY <1>4 DEF Socket, LinkLost, Cancelled, OnClientDisconnected, NotifyFrame
<1>5. ASSUME NEW n \in Conns, MarkOfflineRead(n) \/ MarkOfflineSave(n) \/ HandleNotify(n)
      PROVE  UNCHANGED handler
  BY <1>5 DEF MarkOfflineRead, MarkOfflineSave, HandleNotify
<1>6. ASSUME NEW a \in Admins, Request(a) PROVE UNCHANGED handler
  BY <1>6 DEF Request, Decide, AcceptSave, RejectSave, RejectRemove
<1>7. CASE UNCHANGED vars
  BY <1>7 DEF vars
<1> QED
  BY <1>1, <1>2, <1>3, <1>4, <1>5, <1>6, <1>7 DEF Next, Table, Handler

\* The entries, and the MarkOffline of those that go.
LEMMA EntrySteps ==
  ASSUME [Next]_vars
  PROVE  \/ \E e \in raised : OnBrLost(e)
         \/ \E c \in Clients : OnClientDisconnected(c)
         \/ \E n \in Conns : Activate(n) \/ MarkOfflineRead(n) \/ MarkOfflineSave(n)
         \/ \E a \in Admins : RejectRemove(a)
         \/ Restart
         \/ UNCHANGED <<active, leaving>>
<1> USE DEF activeVars
<1>1. CASE Browser \/ PollLoop
  BY <1>1 DEF Browser, Discovered, Withdrawn, PollLoop, PollTick, PollPick, PollRead, PollAssign,
     PollAlive, PollJoined, PollEnd
<1>2. ASSUME NEW e \in raised, OnBrFound(e) PROVE UNCHANGED <<active, leaving>>
  BY <1>2 DEF OnBrFound
<1>3. ASSUME NEW c \in Clients, StartClient(c) PROVE UNCHANGED <<active, leaving>>
  BY <1>3 DEF StartClient
<1>4. ASSUME NEW c \in Clients, Socket(c)
      PROVE  OnClientDisconnected(c) \/ UNCHANGED <<active, leaving>>
  BY <1>4 DEF Socket, Connect, LinkLost, Cancelled, NotifyFrame
<1>5. ASSUME NEW n \in Conns, Handler(n)
      PROVE  \/ Activate(n) \/ MarkOfflineRead(n) \/ MarkOfflineSave(n)
             \/ UNCHANGED <<active, leaving>>
  BY <1>5 DEF Handler, MacAnswered, HandshakeFails, GetNetwork, CreatePending, HandleNotify
<1>6. ASSUME NEW a \in Admins, Request(a) PROVE RejectRemove(a) \/ UNCHANGED <<active, leaving>>
  BY <1>6 DEF Request, Decide, AcceptSave, RejectSave
<1>7. CASE UNCHANGED vars
  BY <1>7 DEF vars
<1> QED
  BY <1>1, <1>2, <1>3, <1>4, <1>5, <1>6, <1>7 DEF Next, Table

\* What an entry remembers as the status of its network.
LEMMA StatusSteps ==
  ASSUME [Next]_vars
  PROVE  \/ \E n \in Conns : GetNetwork(n) \/ CreatePending(n)
         \/ PollAssign
         \/ UNCHANGED status
<1> USE DEF activeVars
<1>1. CASE Browser \/ PollLoop \/ Restart
  BY <1>1 DEF Browser, Discovered, Withdrawn, PollLoop, PollTick, PollPick, PollRead,
     PollAlive, PollJoined, PollEnd, Restart
<1>2. ASSUME NEW e \in raised, OnBrFound(e) \/ OnBrLost(e) PROVE UNCHANGED status
  BY <1>2 DEF OnBrFound, OnBrLost
<1>3. ASSUME NEW c \in Clients, StartClient(c) \/ Socket(c) PROVE UNCHANGED status
  BY <1>3 DEF StartClient, Socket, Connect, LinkLost, Cancelled, OnClientDisconnected, NotifyFrame
<1>4. ASSUME NEW n \in Conns, Handler(n)
      PROVE  GetNetwork(n) \/ CreatePending(n) \/ UNCHANGED status
  BY <1>4 DEF Handler, MacAnswered, HandshakeFails, Activate, MarkOfflineRead, MarkOfflineSave,
     HandleNotify
<1>5. ASSUME NEW a \in Admins, Request(a) PROVE UNCHANGED status
  BY <1>5 DEF Request, Decide, AcceptSave, RejectSave, RejectRemove
<1>6. CASE UNCHANGED vars
  BY <1>6 DEF vars
<1> QED
  BY <1>1, <1>2, <1>3, <1>4, <1>5, <1>6 DEF Next, Table

\* The rows, and the requests that decide about them.
LEMMA RowSteps ==
  ASSUME [Next]_vars
  PROVE  \/ \E n \in Conns : CreatePending(n) \/ MarkOfflineSave(n)
         \/ \E a \in Admins : AcceptSave(a) \/ RejectSave(a)
         \/ UNCHANGED row
<1>1. CASE Browser \/ PollLoop \/ Restart
  BY <1>1 DEF Browser, Discovered, Withdrawn, PollLoop, PollTick, PollPick, PollRead, PollAssign,
     PollAlive, PollJoined, PollEnd, Restart
<1>2. ASSUME NEW e \in raised, OnBrFound(e) \/ OnBrLost(e) PROVE UNCHANGED row
  BY <1>2 DEF OnBrFound, OnBrLost
<1>3. ASSUME NEW c \in Clients, StartClient(c) \/ Socket(c) PROVE UNCHANGED row
  BY <1>3 DEF StartClient, Socket, Connect, LinkLost, Cancelled, OnClientDisconnected, NotifyFrame
<1>4. ASSUME NEW n \in Conns, Handler(n)
      PROVE  CreatePending(n) \/ MarkOfflineSave(n) \/ UNCHANGED row
  BY <1>4 DEF Handler, MacAnswered, HandshakeFails, GetNetwork, Activate, MarkOfflineRead,
     HandleNotify
<1>5. ASSUME NEW a \in Admins, Request(a)
      PROVE  AcceptSave(a) \/ RejectSave(a) \/ UNCHANGED row
  BY <1>5 DEF Request, Decide, RejectRemove
<1>6. CASE UNCHANGED vars
  BY <1>6 DEF vars
<1> QED
  BY <1>1, <1>2, <1>3, <1>4, <1>5, <1>6 DEF Next, Table

\* The requests.
LEMMA AdminSteps ==
  ASSUME [Next]_vars
  PROVE  (\E a \in Admins : Request(a)) \/ Restart \/ UNCHANGED admin
<1>1. CASE Browser \/ PollLoop
  BY <1>1 DEF Browser, Discovered, Withdrawn, PollLoop, PollTick, PollPick, PollRead, PollAssign,
     PollAlive, PollJoined, PollEnd
<1>2. ASSUME NEW e \in raised, OnBrFound(e) \/ OnBrLost(e) PROVE UNCHANGED admin
  BY <1>2 DEF OnBrFound, OnBrLost
<1>3. ASSUME NEW c \in Clients, StartClient(c) \/ Socket(c) PROVE UNCHANGED admin
  BY <1>3 DEF StartClient, Socket, Connect, LinkLost, Cancelled, OnClientDisconnected, NotifyFrame
<1>4. ASSUME NEW n \in Conns, Handler(n) PROVE UNCHANGED admin
  BY <1>4 DEF Handler, MacAnswered, HandshakeFails, GetNetwork, CreatePending, Activate,
     MarkOfflineRead, MarkOfflineSave, HandleNotify
<1>5. CASE UNCHANGED vars
  BY <1>5 DEF vars
<1> QED
  BY <1>1, <1>2, <1>3, <1>4, <1>5 DEF Next, Table

\* What is pushed to the dashboards.
LEMMA PushSteps ==
  ASSUME [Next]_vars
  PROVE  \/ \E e \in raised : OnBrLost(e)
         \/ \E c \in Clients : OnClientDisconnected(c) \/ NotifyFrame(c)
         \/ \E n \in Conns : HandleNotify(n)
         \/ PollAlive \/ PollJoined
         \/ Restart
         \/ UNCHANGED <<shown, told, notifying>>
<1> USE DEF pushVars
<1>1. CASE Browser
  BY <1>1 DEF Browser, Discovered, Withdrawn
<1>2. ASSUME NEW e \in raised, OnBrFound(e) PROVE UNCHANGED <<shown, told, notifying>>
  BY <1>2 DEF OnBrFound
<1>3. ASSUME NEW c \in Clients, StartClient(c) \/ Socket(c)
      PROVE  \/ OnClientDisconnected(c) \/ NotifyFrame(c)
             \/ UNCHANGED <<shown, told, notifying>>
  BY <1>3 DEF StartClient, Socket, Connect, LinkLost, Cancelled
<1>4. ASSUME NEW n \in Conns, Handler(n)
      PROVE  HandleNotify(n) \/ UNCHANGED <<shown, told, notifying>>
  BY <1>4 DEF Handler, MacAnswered, HandshakeFails, GetNetwork, CreatePending, Activate,
     MarkOfflineRead, MarkOfflineSave
<1>5. CASE PollTick \/ PollRead \/ PollAssign \/ PollEnd \/ \E n \in Conns : PollPick(n)
  BY <1>5 DEF PollTick, PollPick, PollRead, PollAssign, PollEnd
<1>6. ASSUME NEW a \in Admins, Request(a) PROVE UNCHANGED <<shown, told, notifying>>
  BY <1>6 DEF Request, Decide, AcceptSave, RejectSave, RejectRemove
<1>7. CASE UNCHANGED vars
  BY <1>7 DEF vars
<1> QED
  BY <1>1, <1>2, <1>3, <1>4, <1>5, <1>6, <1>7 DEF Next, Table, PollLoop

\* The poll loop.
LEMMA PollSteps ==
  ASSUME [Next]_vars
  PROVE  PollLoop \/ Restart \/ UNCHANGED pollVars
<1> USE DEF pollVars
<1>1. CASE Browser
  BY <1>1 DEF Browser, Discovered, Withdrawn
<1>2. ASSUME NEW e \in raised, OnBrFound(e) \/ OnBrLost(e) PROVE UNCHANGED pollVars
  BY <1>2 DEF OnBrFound, OnBrLost
<1>3. ASSUME NEW c \in Clients, StartClient(c) \/ Socket(c) PROVE UNCHANGED pollVars
  BY <1>3 DEF StartClient, Socket, Connect, LinkLost, Cancelled, OnClientDisconnected, NotifyFrame
<1>4. ASSUME NEW n \in Conns, Handler(n) PROVE UNCHANGED pollVars
  BY <1>4 DEF Handler, MacAnswered, HandshakeFails, GetNetwork, CreatePending, Activate,
     MarkOfflineRead, MarkOfflineSave, HandleNotify
<1>5. ASSUME NEW a \in Admins, Request(a) PROVE UNCHANGED pollVars
  BY <1>5 DEF Request, Decide, AcceptSave, RejectSave, RejectRemove
<1>6. CASE UNCHANGED vars
  BY <1>6 DEF vars
<1> QED
  BY <1>1, <1>2, <1>3, <1>4, <1>5, <1>6 DEF Next, Table

-----------------------------------------------------------------------------
(***************************************************************************)
(* Types, clients and connections.                                         *)
(***************************************************************************)

\* The constants, one by one.
LEMMA Bounds ==
  /\ MaxAnnouncements \in Nat /\ MaxClients \in Nat /\ MaxConnections \in Nat /\ MaxRestarts \in Nat
  /\ \A i \in Instances : NetworkOf[i] \in Networks
  /\ (CHOOSE i \in Instances : TRUE) \in Instances
  /\ (CHOOSE n \in Networks : TRUE) \in Networks
<1>1. PICK i \in Instances : NetworkOf[i] \in Networks
  BY ConstantsAssumption
<1> QED
  BY <1>1, ConstantsAssumption

\* Clients are numbered as they are made, and an instance has one of its own.
LEMMA ClientsStep ==
  ASSUME IInv, [Next]_vars
  PROVE  (ClientType /\ (\A c \in Clients : c > made => life[c] = "none") /\ OneClientPerInstance)'
<1> DEFINE Fresh == \A c \in Clients : c > made => life[c] = "none"
<1>0. MdnsType /\ ClientType /\ Fresh /\ OneClientPerInstance /\ MaxClients \in Nat
  BY Bounds DEF IInv, TypeOK, FreshClients
<1> SUFFICES (ClientType /\ Fresh /\ OneClientPerInstance)'
  OBVIOUS
<1>1. ASSUME NEW e \in raised, OnBrFound(e) PROVE (ClientType /\ Fresh /\ OneClientPerInstance)'
  <2>0. PICK i \in Instances : i = e.inst
    BY <1>0 DEF MdnsType, Events
  <2>1. CASE clientOf[i] # 0
    BY <1>0, <1>1, <2>0, <2>1 DEF OnBrFound, clientVars, ClientType, OneClientPerInstance
  <2>2. CASE clientOf[i] = 0
    <3>1. PICK m \in Clients : m = made + 1
      BY <1>0, <1>1, <2>0, <2>2 DEF OnBrFound, Clients, ClientType
    <3>2. /\ made' = m
          /\ clientOf' = [clientOf EXCEPT ![i] = m]
          /\ instOf' = [instOf EXCEPT ![m] = i]
          /\ life' = [life EXCEPT ![m] = "added"]
      BY <1>0, <1>1, <2>0, <2>2, <3>1 DEF OnBrFound
    <3>3. m \in Nat /\ m <= MaxClients /\ made \in Nat /\ m > made /\ life[m] = "none"
      BY <1>0, <3>1 DEF Clients, ClientType
    <3>4. ClientType'
      BY <1>0, <3>1, <3>2, <3>3 DEF ClientType, Clients
    <3>5. Fresh'
      BY <1>0, <3>1, <3>2, <3>3 DEF ClientType, Clients
    <3>6. \A j \in Instances : clientOf[j] # m
      BY <1>0, <3>1, <3>3 DEF OneClientPerInstance, Clients
    <3>7. \A c \in Clients : life[c] \in {"added", "running"} => instOf[c] # i
      BY <1>0, <2>2 DEF OneClientPerInstance, Clients
    <3>8. OneClientPerInstance'
      <4>1. ASSUME NEW j \in Instances, clientOf'[j] # 0
            PROVE  instOf'[clientOf'[j]] = j /\ life'[clientOf'[j]] \in {"added", "running"}
        <5>1. CASE j = i
          BY <1>0, <3>1, <3>2, <5>1 DEF ClientType
        <5>2. CASE j # i
          BY <1>0, <3>1, <3>2, <3>6, <4>1, <5>2 DEF ClientType, OneClientPerInstance
        <5> QED
          BY <5>1, <5>2
      <4>2. ASSUME NEW c \in Clients, life'[c] \in {"added", "running"}
            PROVE  clientOf'[instOf'[c]] = c
        <5>1. CASE c = m
          BY <1>0, <3>1, <3>2, <5>1 DEF ClientType
        <5>2. CASE c # m
          <6>1. life[c] \in {"added", "running"} /\ instOf'[c] = instOf[c]
            BY <1>0, <3>2, <4>2, <5>2 DEF ClientType
          <6>2. instOf[c] # i /\ instOf[c] \in Instances
            BY <1>0, <3>7, <6>1 DEF ClientType
          <6> QED
            BY <1>0, <3>2, <6>1, <6>2 DEF ClientType, OneClientPerInstance
        <5> QED
          BY <5>1, <5>2
      <4> QED
        BY <4>1, <4>2 DEF OneClientPerInstance
    <3> QED
      BY <3>4, <3>5, <3>8
  <2> QED
    BY <2>1, <2>2
<1>2. ASSUME NEW i \in Instances, clientOf[i] # 0, UNCHANGED <<made, instOf>>,
             clientOf' = [clientOf EXCEPT ![i] = 0], life' = Disposed(clientOf[i])
      PROVE  (ClientType /\ Fresh /\ OneClientPerInstance)'
  <2>1. PICK c \in Clients : c = clientOf[i]
    BY <1>0, <1>2 DEF ClientType
  <2>2. /\ life' = [life EXCEPT ![c] = IF @ = "added" THEN "dropped" ELSE "disposed"]
        /\ life[c] # "none" /\ instOf[c] = i
    BY <1>0, <1>2, <2>1 DEF Disposed, OneClientPerInstance
  <2>3. ClientType' /\ Fresh'
    BY <1>0, <1>2, <2>2 DEF ClientType
  <2>4. \A j \in Instances \ {i} : clientOf[j] # c
    BY <1>0, <2>1, <2>2, <1>2 DEF OneClientPerInstance
  <2>5. OneClientPerInstance'
    BY <1>0, <1>2, <2>1, <2>2, <2>4 DEF ClientType, OneClientPerInstance
  <2> QED
    BY <2>3, <2>5
<1>3. ASSUME NEW i \in Instances, clientOf[i] = 0, UNCHANGED <<made, instOf, life>>,
             clientOf' = [clientOf EXCEPT ![i] = 0]
      PROVE  (ClientType /\ Fresh /\ OneClientPerInstance)'
  <2>1. clientOf' = clientOf
    BY <1>0, <1>3 DEF ClientType
  <2> QED
    BY <1>0, <1>3, <2>1 DEF ClientType, OneClientPerInstance
<1>4. CASE UNCHANGED clientVars
  BY <1>0, <1>4 DEF clientVars, ClientType, OneClientPerInstance
<1>5. ASSUME NEW e \in raised, OnBrLost(e) PROVE (ClientType /\ Fresh /\ OneClientPerInstance)'
  <2>0. PICK i \in Instances : i = e.inst
    BY <1>0 DEF MdnsType, Events
  <2>1. CASE clientOf[i] = 0
    BY <1>4, <1>5, <2>0, <2>1 DEF OnBrLost, clientVars
  <2>2. CASE clientOf[i] # 0
    BY <1>2, <1>5, <2>0, <2>2 DEF OnBrLost
  <2> QED
    BY <2>1, <2>2
<1>6. ASSUME NEW c \in Clients, StartClient(c) PROVE (ClientType /\ Fresh /\ OneClientPerInstance)'
  <2>1. /\ UNCHANGED <<clientOf, made, instOf>>
        /\ life[c] \in {"added", "dropped"}
        /\ life' = [life EXCEPT ![c] = IF @ = "added" THEN "running" ELSE "orphan"]
    BY <1>6 DEF StartClient
  <2> QED
    BY <1>0, <2>1 DEF ClientType, OneClientPerInstance
<1>7. ASSUME NEW a \in Admins, RejectRemove(a) PROVE (ClientType /\ Fresh /\ OneClientPerInstance)'
  <2>1. CASE UNCHANGED <<clientOf, life>>
    BY <1>4, <1>7, <2>1 DEF RejectRemove, clientVars
  <2>2. CASE \E i \in Instances :
               /\ clientOf' = [clientOf EXCEPT ![i] = 0]
               /\ life' = IF clientOf[i] = 0 THEN life ELSE Disposed(clientOf[i])
    BY <1>2, <1>3, <1>7, <2>2 DEF RejectRemove
  <2> QED
    BY <1>7, <2>1, <2>2 DEF RejectRemove
<1>8. CASE Restart
  <2>1. /\ UNCHANGED <<made, instOf>>
        /\ clientOf' = [i \in Instances |-> 0]
        /\ life' = [c \in Clients |-> IF life[c] = "none" THEN "none" ELSE "disposed"]
    BY <1>8 DEF Restart
  <2> QED
    BY <1>0, <2>1 DEF ClientType, OneClientPerInstance
<1> QED
  BY <1>1, <1>4, <1>5, <1>6, <1>7, <1>8, ClientSteps

\* The connections of clients that were made, and the sockets.
LEMMA ConnsStep ==
  ASSUME IInv, [Next]_vars
  PROVE  (\A n \in Conns : owner[n] <= made)' /\ owner' \in [Conns -> {0} \cup Clients]
<1>0. ClientType /\ ConnType /\ FreshClients
  BY DEF IInv, TypeOK
<1>1. made' \in Nat /\ made' >= made
  <2>1. ASSUME NEW e \in raised, OnBrFound(e) PROVE made' = made \/ made' = made + 1
    BY <2>1 DEF OnBrFound, clientVars
  <2>2. ASSUME NEW e \in raised, OnBrLost(e) PROVE made' = made
    BY <2>2 DEF OnBrLost
  <2>3. ASSUME NEW c \in Clients, StartClient(c) PROVE made' = made
    BY <2>3 DEF StartClient
  <2>4. ASSUME NEW a \in Admins, RejectRemove(a) PROVE made' = made
    BY <2>4 DEF RejectRemove
  <2>5. made' = made \/ made' = made + 1
    BY <2>1, <2>2, <2>3, <2>4, ClientSteps DEF Restart, clientVars
  <2> QED
    BY <1>0, <2>5 DEF ClientType
<1>2. ASSUME NEW c \in Clients, NEW n \in Conns, Connect(c, n)
      PROVE  (\A m \in Conns : owner[m] <= made)' /\ owner' \in [Conns -> {0} \cup Clients]
  <2>1. c <= made
    BY <1>0, <1>2 DEF Connect, Runs, FreshClients, Clients, ClientType
  <2>2. owner' = [owner EXCEPT ![n] = c]
    BY <1>2 DEF Connect
  <2> QED
    BY <1>0, <1>1, <2>1, <2>2 DEF ConnType, ClientType, FreshClients, Clients
<1>3. CASE UNCHANGED owner
  BY <1>0, <1>1, <1>3 DEF ConnType, ClientType, FreshClients, Clients
<1> QED
  BY <1>2, <1>3, ConnSteps

\* A connection stays that of its client, and so of its network.
LEMMA ConnStays ==
  ASSUME IInv, [Next]_vars, NEW n \in Conns, Made(n)
  PROVE  Made(n)' /\ owner'[n] = owner[n] /\ InstOf(n)' = InstOf(n) /\ NetOf(n)' = NetOf(n)
<1>0. ClientType /\ ConnType /\ FreshClients
  BY DEF IInv, TypeOK
<1>1. owner'[n] = owner[n]
  BY <1>0, ConnSteps DEF Connect, Made, ConnType
<1>2. owner[n] \in Clients /\ owner[n] <= made
  BY <1>0 DEF Made, ConnType, FreshClients
<1>3. instOf'[owner[n]] = instOf[owner[n]]
  <2>1. ASSUME NEW e \in raised, OnBrFound(e) PROVE instOf'[owner[n]] = instOf[owner[n]]
    <3>1. UNCHANGED instOf \/ instOf' = [instOf EXCEPT ![made + 1] = e.inst]
      BY <2>1 DEF OnBrFound, clientVars
    <3>2. owner[n] # made + 1
      BY <1>0, <1>2 DEF ClientType, Clients
    <3> QED
      BY <1>0, <1>2, <3>1, <3>2 DEF ClientType
  <2>2. ASSUME NEW e \in raised, OnBrLost(e) PROVE UNCHANGED instOf
    BY <2>2 DEF OnBrLost
  <2>3. ASSUME NEW c \in Clients, StartClient(c) PROVE UNCHANGED instOf
    BY <2>3 DEF StartClient
  <2>4. ASSUME NEW a \in Admins, RejectRemove(a) PROVE UNCHANGED instOf
    BY <2>4 DEF RejectRemove
  <2> QED
    BY <2>1, <2>2, <2>3, <2>4, ClientSteps DEF Restart, clientVars
<1> QED
  BY <1>1, <1>3 DEF Made, InstOf, NetOf

-----------------------------------------------------------------------------
(***************************************************************************)
(* Rows: they are made once, as pending, and what was accepted stays so.   *)
(***************************************************************************)

\* The network of a connection is one.
LEMMA NetOfType ==
  ASSUME IInv, NEW n \in Conns, Made(n)
  PROVE  InstOf(n) \in Instances /\ NetOf(n) \in Networks
BY Bounds DEF IInv, TypeOK, ClientType, ConnType, Made, InstOf, NetOf

\* A row changes in four ways.
LEMMA RowShape ==
  ASSUME IInv, [Next]_vars
  PROVE  \/ row' = row
         \/ \E net \in Networks :
              \/ row[net] = "absent" /\ row' = [row EXCEPT ![net] = "pending"]
              \/ row[net] \in Later /\ row' = [row EXCEPT ![net] = "offline"]
              \/ /\ OneAdmin => row[net] = "pending"
                 /\ \E what \in {"connected", "rejected"} : row' = [row EXCEPT ![net] = what]
<1>0. /\ RowType /\ AdminType /\ HandlersMade /\ ConnectedWasAccepted /\ DecidesPending
  BY DEF IInv, TypeOK
<1>1. ASSUME NEW n \in Conns, CreatePending(n)
      PROVE  row' = row \/ \E net \in Networks : row[net] = "absent" /\ row' = [row EXCEPT ![net] = "pending"]
  <2>1. NetOf(n) \in Networks
    BY <1>0, <1>1, NetOfType DEF CreatePending, HandlersMade
  <2> QED
    BY <1>1, <2>1 DEF CreatePending
<1>2. ASSUME NEW n \in Conns, MarkOfflineSave(n)
      PROVE  \E net \in Networks : row[net] \in Later /\ row' = [row EXCEPT ![net] = "offline"]
  <2>1. Accepted(n)
    BY <1>0, <1>2 DEF MarkOfflineSave, ConnectedWasAccepted, RememberedConnected
  <2>2. NetOf(n) \in Networks
    BY <2>1, NetOfType DEF Accepted
  <2> QED
    BY <1>2, <2>1, <2>2 DEF MarkOfflineSave, Accepted
<1>3. ASSUME NEW a \in Admins, AcceptSave(a) \/ RejectSave(a)
      PROVE  \E net \in Networks :
               /\ OneAdmin => row[net] = "pending"
               /\ \E what \in {"connected", "rejected"} : row' = [row EXCEPT ![net] = what]
  <2>1. admin[a].net \in Networks /\ admin[a].at \in {"accept", "reject"}
    BY <1>0, <1>3 DEF AcceptSave, RejectSave, AdminType
  <2>2. OneAdmin => row[admin[a].net] = "pending"
    BY <1>0, <2>1 DEF DecidesPending
  <2> QED
    BY <1>3, <2>1, <2>2 DEF AcceptSave, RejectSave
<1> QED
  BY <1>1, <1>2, <1>3, RowSteps

\* A row stays in the table, and an accepted one accepted.
LEMMA RowStays ==
  ASSUME IInv, [Next]_vars, NEW net \in Networks
  PROVE  /\ row[net] # "absent" => row'[net] # "absent"
         /\ row[net] \in Later => row'[net] \in Later
<1>0. RowType
  BY DEF IInv, TypeOK
<1> QED
  BY <1>0, RowShape DEF RowType, Later

\* A connection that was made stays so, and its network stays in the table,
\* and accepted once it was.
LEMMA SeenStays ==
  ASSUME IInv, [Next]_vars, NEW n \in Conns
  PROVE  /\ Seen(n) => Seen(n)'
         /\ Accepted(n) => Accepted(n)'
<1>1. ASSUME Made(n) PROVE Made(n)' /\ NetOf(n)' = NetOf(n) /\ NetOf(n) \in Networks
  BY <1>1, ConnStays, NetOfType
<1> QED
  BY <1>1, RowStays DEF Seen, Accepted

\* Rows and requests keep their types.
LEMMA RowTypeStep ==
  ASSUME IInv, [Next]_vars
  PROVE  RowType'
<1>0. RowType
  BY DEF IInv, TypeOK
<1> QED
  BY <1>0, RowShape DEF RowType, Statuses

\* A lone administrator's network is still pending when the decision is saved.
LEMMA AdminStep ==
  ASSUME IInv, [Next]_vars
  PROVE  AdminType' /\ DecidesPending'
<1>0. AdminType /\ RowType /\ DecidesPending
  BY DEF IInv, TypeOK
<1>1. AdminType'
  <2>1. ASSUME NEW a \in Admins, Request(a) PROVE AdminType'
    BY <1>0, <2>1 DEF Request, Decide, AcceptSave, RejectSave, RejectRemove, AdminType
  <2>2. CASE Restart
    BY <1>0, <2>2 DEF Restart, AdminType
  <2> QED
    BY <1>0, <2>1, <2>2, AdminSteps DEF AdminType
<1>2. DecidesPending'
  <2> SUFFICES ASSUME OneAdmin, NEW a \in Admins, admin'[a].at \in {"accept", "reject"}
               PROVE  row'[admin'[a].net] = "pending"
    BY DEF DecidesPending
  <2>1. CASE Request(a)
    <3>1. \E net \in Networks, what \in {"accept", "reject"} : Decide(a, net, what)
      BY <1>0, <2>1 DEF Request, AcceptSave, RejectSave, RejectRemove, AdminType
    <3> QED
      BY <1>0, <3>1 DEF Decide, AdminType
  <2>2. CASE Restart
    BY <1>0, <2>2 DEF Restart, AdminType
  <2>3. CASE UNCHANGED admin
    <3>1. row[admin[a].net] = "pending" /\ admin[a].net \in Networks
      BY <1>0, <2>3 DEF DecidesPending, AdminType
    <3>2. CASE row' = row
      BY <2>3, <3>1, <3>2
    <3>3. ASSUME NEW n \in Conns, CreatePending(n) \/ MarkOfflineSave(n) PROVE row'[admin[a].net] = "pending"
      <4>1. row' = row \/ \E net \in Networks : row[net] # "pending"
              /\ \E to : row' = [row EXCEPT ![net] = to]
        <5>1. ASSUME CreatePending(n)
              PROVE  row' = row \/ \E net \in Networks : row[net] # "pending" /\ \E to : row' = [row EXCEPT ![net] = to]
          <6>1. NetOf(n) \in Networks
            BY <5>1, NetOfType DEF CreatePending, IInv, HandlersMade
          <6> QED
            BY <5>1, <6>1 DEF CreatePending
        <5>2. ASSUME MarkOfflineSave(n)
              PROVE  \E net \in Networks : row[net] # "pending" /\ \E to : row' = [row EXCEPT ![net] = to]
          <6>1. Accepted(n)
            BY <5>2 DEF MarkOfflineSave, IInv, ConnectedWasAccepted, RememberedConnected
          <6>2. NetOf(n) \in Networks /\ row[NetOf(n)] # "pending"
            BY <6>1, NetOfType DEF Accepted, Later
          <6> QED
            BY <5>2, <6>2 DEF MarkOfflineSave
        <5> QED
          BY <3>3, <5>1, <5>2
      <4> QED
        BY <1>0, <3>1, <4>1 DEF RowType
    <3>4. ASSUME NEW b \in Admins, AcceptSave(b) \/ RejectSave(b) PROVE FALSE
      <4>1. admin[b].at \in {"accept", "reject"} /\ admin'[b].at \notin {"accept", "reject"}
        BY <1>0, <3>4 DEF AcceptSave, RejectSave, AdminType
      <4> QED
        BY <2>3, <4>1
    <3> QED
      BY <2>3, <3>2, <3>3, <3>4, RowSteps
  <2>4. ASSUME NEW b \in Admins, Request(b) PROVE Request(a)
    BY <2>4 DEF OneAdmin
  <2> QED
    BY <2>1, <2>2, <2>3, <2>4, AdminSteps
<1> QED
  BY <1>1, <1>2

-----------------------------------------------------------------------------
(***************************************************************************)
(* Handlers, entries and the poll loop.                                    *)
(***************************************************************************)

\* A handler runs for a connection that was made, and enters one whose
\* network it has read or inserted.
LEMMA HandlersStep ==
  ASSUME IInv, [Next]_vars
  PROVE  /\ handler' \in [Conns -> {"none", "mac", "read", "insert", "activate", "done"}]
         /\ \A n \in Conns : handler'[n] # "none" => Made(n)'
         /\ \A n \in Conns : handler'[n] = "activate" => Seen(n)'
<1>0. /\ ConnType /\ RowType /\ HandlersMade
      /\ \A n \in Conns : handler[n] = "activate" => Seen(n)
  BY DEF IInv, TypeOK, EntriesSeen, Remembered
<1> DEFINE States == {"none", "mac", "read", "insert", "activate", "done"}
<1> SUFFICES /\ handler' \in [Conns -> States]
             /\ \A n \in Conns : /\ handler'[n] # "none" => Made(n)'
                                 /\ handler'[n] = "activate" => Seen(n)'
  OBVIOUS
<1>1. ASSUME NEW n \in Conns, handler'[n] = handler[n]
      PROVE  /\ handler'[n] # "none" => Made(n)'
             /\ handler'[n] = "activate" => Seen(n)'
  BY <1>0, <1>1, ConnStays, SeenStays DEF HandlersMade
<1>2. ASSUME NEW n \in Conns, NEW s \in States, handler' = [handler EXCEPT ![n] = s],
             s # "none" => Made(n)', s = "activate" => Seen(n)'
      PROVE  /\ handler' \in [Conns -> States]
             /\ \A m \in Conns : /\ handler'[m] # "none" => Made(m)'
                                 /\ handler'[m] = "activate" => Seen(m)'
  <2>1. handler' \in [Conns -> States] /\ handler'[n] = s
        /\ \A m \in Conns \ {n} : handler'[m] = handler[m]
    BY <1>0, <1>2 DEF ConnType
  <2> QED
    BY <1>1, <1>2, <2>1
<1>3. ASSUME NEW c \in Clients, NEW n \in Conns, Connect(c, n)
      PROVE  \E s \in States \ {"activate"} : handler' = [handler EXCEPT ![n] = s] /\ Made(n)'
  <2>1. owner'[n] = c /\ c # 0
    BY <1>0, <1>3 DEF Connect, ConnType, Clients
  <2>2. PICK s \in {"mac", "done"} : s = IF clientOf[instOf[c]] = c THEN "mac" ELSE "done"
    OBVIOUS
  <2>3. handler' = [handler EXCEPT ![n] = s]
    BY <1>3, <2>2 DEF Connect
  <2> QED
    BY <2>1, <2>3 DEF Made
<1>4. ASSUME NEW n \in Conns, MacAnswered(n) \/ HandshakeFails(n)
      PROVE  \E s \in States \ {"activate"} : handler' = [handler EXCEPT ![n] = s] /\ Made(n)'
  <2>1. Made(n)
    BY <1>0, <1>4 DEF MacAnswered, HandshakeFails, HandlersMade
  <2> QED
    BY <1>4, <2>1, ConnStays DEF MacAnswered, HandshakeFails
<1>5. ASSUME NEW n \in Conns, GetNetwork(n) \/ CreatePending(n) \/ Activate(n)
      PROVE  \E s \in States : /\ handler' = [handler EXCEPT ![n] = s] /\ Made(n)'
                               /\ s = "activate" => Seen(n)'
  <2>1. Made(n)
    BY <1>0, <1>5 DEF GetNetwork, CreatePending, Activate, HandlersMade
  <2>2. Made(n)' /\ NetOf(n)' = NetOf(n) /\ NetOf(n) \in Networks
    BY <2>1, ConnStays, NetOfType
  <2>3. CASE GetNetwork(n)
    BY <2>2, <2>3 DEF GetNetwork, Seen
  <2>4. CASE CreatePending(n)
    BY <1>0, <2>2, <2>4 DEF CreatePending, Seen, RowType
  <2>5. CASE Activate(n)
    BY <2>2, <2>5 DEF Activate
  <2> QED
    BY <1>5, <2>3, <2>4, <2>5
<1>6. CASE Restart
  <2>1. handler' = [n \in Conns |-> IF handler[n] = "none" THEN "none" ELSE "done"]
    BY <1>6 DEF Restart
  <2> QED
    BY <1>0, <2>1, ConnStays DEF HandlersMade
<1>7. CASE UNCHANGED handler
  BY <1>0, <1>1, <1>7 DEF ConnType
<1> QED
  BY <1>2, <1>3, <1>4, <1>5, <1>6, <1>7, HandlerSteps

\* The sockets keep their type.
LEMMA LinkStep ==
  ASSUME IInv, [Next]_vars
  PROVE  link' \in [Clients -> {"off", "up", "closed"}]
<1>0. link \in [Clients -> {"off", "up", "closed"}]
  BY DEF IInv, TypeOK, ConnType
<1>1. CASE Browser \/ PollLoop \/ Restart
  BY <1>0, <1>1 DEF Browser, Discovered, Withdrawn, PollLoop, PollTick, PollPick, PollRead,
     PollAssign, PollAlive, PollJoined, PollEnd, Restart, connVars
<1>2. ASSUME NEW e \in raised, OnBrFound(e) \/ OnBrLost(e) PROVE UNCHANGED link
  BY <1>2 DEF OnBrFound, OnBrLost, connVars
<1>3. ASSUME NEW c \in Clients, StartClient(c) \/ Socket(c)
      PROVE  link' \in [Clients -> {"off", "up", "closed"}]
  BY <1>0, <1>3 DEF StartClient, Socket, Connect, LinkLost, Cancelled, OnClientDisconnected,
     NotifyFrame, connVars
<1>4. ASSUME NEW n \in Conns, Handler(n) PROVE UNCHANGED link
  BY <1>4 DEF Handler, MacAnswered, HandshakeFails, GetNetwork, CreatePending, Activate,
     MarkOfflineRead, MarkOfflineSave, HandleNotify, connVars
<1>5. ASSUME NEW a \in Admins, Request(a) PROVE UNCHANGED link
  BY <1>5 DEF Request, Decide, AcceptSave, RejectSave, RejectRemove, connVars
<1>6. CASE UNCHANGED vars
  BY <1>0, <1>6 DEF vars, connVars
<1> QED
  BY <1>0, <1>1, <1>2, <1>3, <1>4, <1>5, <1>6 DEF Next, Table

\* An entry that goes and was known as Connected is reported and marked.
LEMMA LeaveShape ==
  ASSUME IInv, NEW i \in Instances, Leave(i)
  PROVE  /\ active' = [active EXCEPT ![i] = 0]
         /\ \/ UNCHANGED <<shown, leaving>>
            \/ \E n \in Conns : /\ Accepted(n)
                                /\ shown' = [shown EXCEPT ![NetOf(n)] = "offline"]
                                /\ leaving' = [leaving EXCEPT ![n] = "read"]
<1>0. active \in [Instances -> {0} \cup Conns] /\ ConnectedWasAccepted
  BY DEF IInv, TypeOK, EntryType
<1>1. CASE active[i] # 0 /\ status[active[i]] = "connected"
  <2>1. PICK n \in Conns : n = active[i]
    BY <1>0, <1>1
  <2>2. Accepted(n)
    BY <1>0, <1>1, <2>1 DEF ConnectedWasAccepted, RememberedConnected
  <2> QED
    BY <1>1, <2>1, <2>2 DEF Leave
<1> QED
  BY <1>1 DEF Leave

\* The entries are connections of networks in the table.
LEMMA ActiveStep ==
  ASSUME IInv, [Next]_vars
  PROVE  /\ active' \in [Instances -> {0} \cup Conns]
         /\ \A i \in Instances, n \in Conns : active'[i] = n => Seen(n)'
<1>0. /\ active \in [Instances -> {0} \cup Conns] /\ MdnsType /\ ClientType
      /\ HandlersMade /\ EntriesSeen
  BY DEF IInv, TypeOK, EntryType
<1>1. ASSUME NEW i \in Instances, NEW n \in Conns, active[i] = n PROVE Seen(n)'
  BY <1>0, <1>1, SeenStays DEF EntriesSeen, Remembered
<1>2. ASSUME NEW i \in Instances, active' = [active EXCEPT ![i] = 0]
      PROVE  /\ active' \in [Instances -> {0} \cup Conns]
             /\ \A j \in Instances, n \in Conns : active'[j] = n => Seen(n)'
  <2>1. active' \in [Instances -> {0} \cup Conns] /\ active'[i] = 0
        /\ \A j \in Instances \ {i} : active'[j] = active[j]
    BY <1>0, <1>2
  <2> QED
    BY <1>1, <2>1 DEF Conns
<1>3. ASSUME NEW e \in raised, OnBrLost(e)
      PROVE  UNCHANGED active \/ \E i \in Instances : active' = [active EXCEPT ![i] = 0]
  <2>1. e.inst \in Instances
    BY <1>0 DEF MdnsType, Events
  <2> QED
    BY <1>3, <2>1 DEF OnBrLost, Leave
<1>4. ASSUME NEW c \in Clients, OnClientDisconnected(c)
      PROVE  \E i \in Instances : active' = [active EXCEPT ![i] = 0]
  <2>1. instOf[c] \in Instances
    BY <1>0 DEF ClientType
  <2> QED
    BY <1>4, <2>1 DEF OnClientDisconnected, Leave
<1>5. ASSUME NEW m \in Conns, Activate(m)
      PROVE  /\ active' \in [Instances -> {0} \cup Conns]
             /\ \A j \in Instances, n \in Conns : active'[j] = n => Seen(n)'
  <2>1. Seen(m)'
    BY <1>0, <1>5, SeenStays DEF Activate, EntriesSeen, Remembered
  <2>2. PICK i \in Instances : active' = [active EXCEPT ![i] = m]
    BY <1>0, <1>5, NetOfType DEF Activate, HandlersMade
  <2>3. active' \in [Instances -> {0} \cup Conns] /\ active'[i] = m
        /\ \A j \in Instances \ {i} : active'[j] = active[j]
    BY <1>0, <2>2
  <2> QED
    BY <1>1, <2>1, <2>3
<1>6. ASSUME NEW a \in Admins, RejectRemove(a)
      PROVE  UNCHANGED active \/ \E i \in Instances : active' = [active EXCEPT ![i] = 0]
  BY <1>6 DEF RejectRemove
<1>7. CASE Restart
  <2>1. active' = [i \in Instances |-> 0]
    BY <1>7 DEF Restart
  <2> QED
    BY <2>1 DEF Conns
<1>8. ASSUME NEW n \in Conns, MarkOfflineRead(n) \/ MarkOfflineSave(n) PROVE UNCHANGED active
  BY <1>8 DEF MarkOfflineRead, MarkOfflineSave, activeVars
<1> QED
  BY <1>0, <1>1, <1>2, <1>3, <1>4, <1>5, <1>6, <1>7, <1>8, EntrySteps

\* An entry that is marked offline was accepted.
LEMMA LeavingStep ==
  ASSUME IInv, [Next]_vars
  PROVE  /\ leaving' \in [Conns -> {"none", "read", "save", "done"}]
         /\ \A n \in Conns : leaving'[n] \in {"read", "save"} => Accepted(n)'
<1> DEFINE States == {"none", "read", "save", "done"}
<1>0. /\ leaving \in [Conns -> States] /\ MdnsType /\ ClientType
      /\ \A n \in Conns : leaving[n] \in {"read", "save"} => Accepted(n)
  BY DEF IInv, TypeOK, EntryType, ConnectedWasAccepted, RememberedConnected
<1>1. ASSUME NEW n \in Conns, leaving[n] \in {"read", "save"} PROVE Accepted(n)'
  BY <1>0, <1>1, SeenStays
<1>2. ASSUME NEW m \in Conns, NEW s \in States, leaving' = [leaving EXCEPT ![m] = s],
             s \in {"read", "save"} => Accepted(m)
      PROVE  /\ leaving' \in [Conns -> States]
             /\ \A n \in Conns : leaving'[n] \in {"read", "save"} => Accepted(n)'
  <2>1. leaving' \in [Conns -> States] /\ leaving'[m] = s
        /\ \A n \in Conns \ {m} : leaving'[n] = leaving[n]
    BY <1>0, <1>2
  <2> QED
    BY <1>1, <1>2, <2>1, SeenStays
<1>3. CASE UNCHANGED leaving
  BY <1>0, <1>1, <1>3
<1>4. ASSUME NEW i \in Instances, Leave(i)
      PROVE  UNCHANGED leaving \/ \E n \in Conns : Accepted(n) /\ leaving' = [leaving EXCEPT ![n] = "read"]
  BY <1>4, LeaveShape
<1>5. ASSUME NEW e \in raised, OnBrLost(e)
      PROVE  UNCHANGED leaving \/ \E n \in Conns : Accepted(n) /\ leaving' = [leaving EXCEPT ![n] = "read"]
  <2>1. e.inst \in Instances
    BY <1>0 DEF MdnsType, Events
  <2> QED
    BY <1>4, <1>5, <2>1 DEF OnBrLost
<1>6. ASSUME NEW c \in Clients, OnClientDisconnected(c)
      PROVE  UNCHANGED leaving \/ \E n \in Conns : Accepted(n) /\ leaving' = [leaving EXCEPT ![n] = "read"]
  <2>1. instOf[c] \in Instances
    BY <1>0 DEF ClientType
  <2> QED
    BY <1>4, <1>6, <2>1 DEF OnClientDisconnected
<1>7. ASSUME NEW n \in Conns, MarkOfflineRead(n) \/ MarkOfflineSave(n)
      PROVE  \E s \in {"save", "done"} : Accepted(n) /\ leaving' = [leaving EXCEPT ![n] = s]
  <2>1. Accepted(n)
    BY <1>0, <1>7 DEF MarkOfflineRead, MarkOfflineSave
  <2> QED
    BY <1>7, <2>1 DEF MarkOfflineRead, MarkOfflineSave
<1>8. CASE Restart
  <2>1. leaving' = [n \in Conns |-> IF leaving[n] = "none" THEN "none" ELSE "done"]
    BY <1>8 DEF Restart
  <2> QED
    BY <1>0, <2>1
<1>9. (\E n \in Conns : Activate(n)) \/ (\E a \in Admins : RejectRemove(a)) => UNCHANGED leaving
  BY DEF Activate, RejectRemove
<1> QED
  BY <1>2, <1>3, <1>5, <1>6, <1>7, <1>8, <1>9, EntrySteps

\* A status that was read or assigned as Connected is that of an accepted
\* network.
LEMMA StatusStep ==
  ASSUME IInv, [Next]_vars
  PROVE  /\ status' \in [Conns -> Statuses]
         /\ \A n \in Conns : status'[n] = "connected" => Accepted(n)'
<1>0. /\ status \in [Conns -> Statuses] /\ RowType /\ PollType
      /\ HandlersMade /\ EntriesSeen /\ ConnectedWasAccepted
      /\ \A n \in Conns : status[n] = "connected" => Accepted(n)
  BY DEF IInv, TypeOK, EntryType, ConnectedWasAccepted, RememberedConnected
<1>1. ASSUME NEW m \in Conns, NEW s \in Statuses, status' = [status EXCEPT ![m] = s],
             s = "connected" => Accepted(m)
      PROVE  /\ status' \in [Conns -> Statuses]
             /\ \A n \in Conns : status'[n] = "connected" => Accepted(n)'
  <2>1. status' \in [Conns -> Statuses] /\ status'[m] = s
        /\ \A n \in Conns \ {m} : status'[n] = status[n]
    BY <1>0, <1>1
  <2> QED
    BY <1>0, <1>1, <2>1, SeenStays
<1>2. CASE UNCHANGED status
  BY <1>0, <1>2, SeenStays
<1>3. ASSUME NEW n \in Conns, GetNetwork(n) \/ CreatePending(n)
      PROVE  UNCHANGED status \/ \E s \in Statuses : /\ status' = [status EXCEPT ![n] = s]
                                                     /\ s = "connected" => Accepted(n)
  <2>1. Made(n) /\ NetOf(n) \in Networks
    BY <1>0, <1>3, NetOfType DEF GetNetwork, CreatePending, HandlersMade
  <2>2. row[NetOf(n)] # "absent" => row[NetOf(n)] \in Statuses
    BY <1>0, <2>1 DEF RowType
  <2>3. CASE GetNetwork(n)
    BY <2>1, <2>2, <2>3 DEF GetNetwork, Accepted, Later
  <2>4. CASE CreatePending(n)
    BY <2>4 DEF CreatePending, Statuses
  <2> QED
    BY <1>3, <2>3, <2>4
<1>4. CASE PollAssign
  <2>1. PICK n \in Conns : n = poll.on
    BY <1>0, <1>4 DEF PollAssign, EntriesSeen
  <2>2. poll.read = "connected" => Accepted(n)
    BY <1>0, <1>4, <2>1 DEF PollAssign, ConnectedWasAccepted, RememberedConnected
  <2>3. poll.read \in Statuses
    BY <1>0 DEF PollType
  <2> QED
    BY <1>1, <1>4, <2>1, <2>2, <2>3 DEF PollAssign
<1> QED
  BY <1>1, <1>2, <1>3, <1>4, StatusSteps

\* What the poll loop took from the table stays seen, and what it read as
\* Connected accepted.
LEMMA PollStep ==
  ASSUME IInv, [Next]_vars
  PROVE  /\ PollType'
         /\ \A n \in todo' : Seen(n)'
         /\ poll'.at \notin {"idle", "pick"} => \E n \in Conns : poll'.on = n /\ Seen(n)'
         /\ poll'.at \in {"assign", "alive", "joined"} /\ poll'.read = "connected" =>
              \E n \in Conns : poll'.on = n /\ Accepted(n)'
         /\ poll'.at = "joined" => poll'.read = "connected"
<1> DEFINE Ok == /\ PollType'
                 /\ \A n \in todo' : Seen(n)'
                 /\ poll'.at \notin {"idle", "pick"} => \E n \in Conns : poll'.on = n /\ Seen(n)'
                 /\ poll'.at \in {"assign", "alive", "joined"} /\ poll'.read = "connected" =>
                      \E n \in Conns : poll'.on = n /\ Accepted(n)'
                 /\ poll'.at = "joined" => poll'.read = "connected"
<1>0. PollType /\ EntryType /\ RowType /\ EntriesSeen /\ ConnectedWasAccepted
  BY DEF IInv, TypeOK
<1>1. todo \subseteq Conns /\ \A n \in todo : Seen(n)'
  BY <1>0, SeenStays DEF PollType, EntriesSeen, Remembered
<1>2. poll.at \notin {"idle", "pick"} =>
        \E n \in Conns : poll.on = n /\ Seen(n) /\ Seen(n)'
  BY <1>0, SeenStays DEF EntriesSeen, Remembered
<1>3. poll.at \in {"assign", "alive", "joined"} /\ poll.read = "connected" =>
        \E n \in Conns : poll.on = n /\ Accepted(n)'
  <2> SUFFICES ASSUME poll.at \in {"assign", "alive", "joined"}, poll.read = "connected"
               PROVE  \E n \in Conns : poll.on = n /\ Accepted(n)'
    OBVIOUS
  <2>1. PICK n \in Conns : poll.on = n
    BY <1>2
  <2>2. Accepted(n)
    BY <1>0, <2>1 DEF ConnectedWasAccepted, RememberedConnected
  <2> QED
    BY <2>1, <2>2, SeenStays
<1>4. poll.at = "joined" => poll.read = "connected"
  BY <1>0 DEF ConnectedWasAccepted
<1>5. CASE PollTick
  <2>1. todo' = {active[i] : i \in Instances} \ {0} /\ poll' = [poll EXCEPT !.at = "pick"]
    BY <1>5 DEF PollTick
  <2>2. todo' \subseteq Conns
    BY <1>0, <2>1 DEF EntryType
  <2>3. \A n \in todo' : Seen(n)'
    BY <1>0, <2>1, <2>2, SeenStays DEF EntriesSeen, Remembered
  <2>4. poll'.at = "pick" /\ PollType'
    BY <1>0, <2>1, <2>2 DEF PollType
  <2> QED
    BY <2>3, <2>4
<1>6. ASSUME NEW n \in Conns, PollPick(n) PROVE Ok
  <2>1. PollType'
    BY <1>0, <1>6 DEF PollPick, PollType
  <2>2. Seen(n)' /\ n \in todo /\ todo' = todo \ {n}
    BY <1>1, <1>6 DEF PollPick
  <2>3. poll'.at \in {"pick", "read"} /\ (poll'.at = "read" => poll'.on = n)
    BY <1>0, <1>6 DEF PollPick, PollType
  <2> QED
    BY <1>1, <2>1, <2>2, <2>3
<1>7. CASE PollRead
  <2>1. PICK n \in Conns : poll.on = n /\ Seen(n) /\ Seen(n)'
    BY <1>2, <1>7 DEF PollRead
  <2>2. row[NetOf(n)] \in Statuses
    BY <1>0, <2>1, NetOfType DEF Seen, RowType
  <2>3. poll'.at = "assign" /\ poll'.on = n /\ poll'.read = row[NetOf(n)] /\ todo' = todo
    BY <1>0, <1>7, <2>1 DEF PollRead, PollType
  <2>4. PollType'
    BY <1>0, <1>7, <2>1, <2>2 DEF PollRead, PollType
  <2>5. poll'.read = "connected" => Accepted(n)'
    BY <2>1, <2>3, SeenStays DEF Seen, Accepted, Later
  <2> QED
    BY <1>1, <2>1, <2>3, <2>4, <2>5
<1>8. CASE PollAssign
  <2>1. /\ poll'.at \in {"alive", "joined"} /\ poll'.on = poll.on /\ poll'.read = poll.read
        /\ poll'.at = "joined" => poll.read = "connected"
        /\ todo' = todo /\ poll.at = "assign"
    BY <1>0, <1>8 DEF PollAssign, PollType
  <2>2. PollType'
    BY <1>0, <1>8 DEF PollAssign, PollType
  <2> QED
    BY <1>1, <1>2, <1>3, <2>1, <2>2
<1>9. CASE PollAlive \/ PollJoined
  <2>1. poll' = [poll EXCEPT !.at = "pick"] /\ todo' = todo
    BY <1>9 DEF PollAlive, PollJoined
  <2>2. PollType' /\ poll'.at = "pick"
    BY <1>0, <2>1 DEF PollType
  <2> QED
    BY <1>1, <2>1, <2>2
<1>10. CASE PollEnd
  <2>1. poll' = NoPoll /\ todo' = todo
    BY <1>10 DEF PollEnd
  <2>2. PollType' /\ poll'.at = "idle"
    BY <1>0, <2>1 DEF PollType, NoPoll, Statuses
  <2> QED
    BY <1>1, <2>1, <2>2
<1>11. CASE Restart
  <2>1. poll' = NoPoll /\ todo' = {}
    BY <1>11 DEF Restart
  <2>2. PollType' /\ poll'.at = "idle"
    BY <2>1 DEF PollType, NoPoll, Statuses
  <2> QED
    BY <2>1, <2>2
<1>12. CASE UNCHANGED pollVars
  <2>1. poll' = poll /\ todo' = todo
    BY <1>12 DEF pollVars
  <2>2. PollType'
    BY <1>0, <2>1 DEF PollType
  <2> QED
    BY <1>1, <1>2, <1>3, <1>4, <2>1, <2>2
<1> QED
  BY <1>5, <1>6, <1>7, <1>8, <1>9, <1>10, <1>11, <1>12, PollSteps DEF PollLoop

\* What is pushed, and what waits at the gate to be, is of accepted networks.
LEMMA PushStep ==
  ASSUME IInv, [Next]_vars
  PROVE  /\ shown' \in [Networks -> {"never", "online", "offline"}] /\ told' \subseteq Networks
         /\ PushedWasAccepted'
         /\ notifying' \subseteq Conns /\ \A n \in notifying' : Accepted(n)'
<1> DEFINE Shows == /\ shown' \in [Networks -> {"never", "online", "offline"}] /\ told' \subseteq Networks
                    /\ PushedWasAccepted'
           Waits == notifying' \subseteq Conns /\ \A n \in notifying' : Accepted(n)'
<1>0. /\ shown \in [Networks -> {"never", "online", "offline"}] /\ told \subseteq Networks
      /\ PushedWasAccepted /\ MdnsType /\ ClientType /\ EntryType
      /\ notifying \subseteq Conns /\ ConnectedWasAccepted /\ EntriesSeen
  BY DEF IInv, TypeOK, PushType
<1>1. \A n \in notifying : Accepted(n) /\ Accepted(n)'
  BY <1>0, SeenStays DEF ConnectedWasAccepted, RememberedConnected
<1>2. ASSUME UNCHANGED notifying PROVE Waits
  BY <1>0, <1>1, <1>2
<1>3. ASSUME NEW n \in Conns, Accepted(n), NEW s \in {"online", "offline"},
             shown' = shown \/ shown' = [shown EXCEPT ![NetOf(n)] = s],
             told' = told \/ told' = told \cup {NetOf(n)}
      PROVE  Shows
  <2>1. NetOf(n) \in Networks /\ row[NetOf(n)] \in Later
    BY <1>3, NetOfType DEF Accepted
  <2>2. shown' \in [Networks -> {"never", "online", "offline"}] /\ told' \subseteq Networks
    BY <1>0, <1>3, <2>1
  <2>3. \A net \in Networks : shown'[net] # "never" \/ net \in told' => row[net] \in Later
    BY <1>0, <1>3, <2>1 DEF PushedWasAccepted
  <2> QED
    BY <2>2, <2>3, RowStays DEF PushedWasAccepted
<1>4. ASSUME UNCHANGED <<shown, told>> PROVE Shows
  BY <1>0, <1>4, RowStays DEF PushedWasAccepted
<1>5. ASSUME NEW i \in Instances, Leave(i), UNCHANGED told PROVE Shows
  BY <1>3, <1>4, <1>5, LeaveShape
<1>6. ASSUME NEW e \in raised, OnBrLost(e) PROVE Shows /\ Waits
  <2>1. e.inst \in Instances
    BY <1>0 DEF MdnsType, Events
  <2>2. CASE clientOf[e.inst] = 0
    BY <1>2, <1>4, <1>6, <2>2 DEF OnBrLost
  <2>3. CASE clientOf[e.inst] # 0
    BY <1>2, <1>5, <1>6, <2>1, <2>3 DEF OnBrLost
  <2> QED
    BY <2>2, <2>3
<1>7. ASSUME NEW c \in Clients, OnClientDisconnected(c) PROVE Shows /\ Waits
  <2>1. instOf[c] \in Instances
    BY <1>0 DEF ClientType
  <2> QED
    BY <1>2, <1>5, <1>7, <2>1 DEF OnClientDisconnected
<1>8. ASSUME NEW c \in Clients, NotifyFrame(c) PROVE Shows /\ Waits
  <2>1. instOf[c] \in Instances
    BY <1>0 DEF ClientType
  <2>2. PICK n \in Conns : n = active[instOf[c]]
    BY <1>0, <1>8, <2>1 DEF NotifyFrame, EntryType
  <2>3. Accepted(n) /\ notifying' = notifying \cup {n} /\ UNCHANGED <<shown, told>>
    BY <1>0, <1>8, <2>2 DEF NotifyFrame, ConnectedWasAccepted, RememberedConnected, pushVars
  <2> QED
    BY <1>0, <1>1, <1>4, <2>3, SeenStays
<1>9. ASSUME NEW n \in Conns, HandleNotify(n) PROVE Shows /\ Waits
  <2>1. /\ Accepted(n) /\ notifying' = notifying \ {n}
        /\ shown' = shown /\ told' = told \cup {NetOf(n)}
    BY <1>1, <1>9 DEF HandleNotify
  <2>2. Shows
    BY <1>3, <2>1
  <2> QED
    BY <1>0, <1>1, <2>1, <2>2
<1>10. CASE PollAlive \/ PollJoined
  <2>0. UNCHANGED notifying
    BY <1>10 DEF PollAlive, PollJoined
  <2>1. CASE UNCHANGED <<shown, told>>
    BY <1>2, <1>4, <2>0, <2>1
  <2>2. CASE /\ poll.at \in {"alive", "joined"} /\ poll.read = "connected"
             /\ told' = told \cup {NetOf(poll.on)}
             /\ shown' = shown \/ shown' = [shown EXCEPT ![NetOf(poll.on)] = "online"]
    <3>1. PICK n \in Conns : n = poll.on
      BY <1>0, <2>2 DEF EntriesSeen
    <3>2. Accepted(n)
      BY <1>0, <2>2, <3>1 DEF ConnectedWasAccepted, RememberedConnected
    <3> QED
      BY <1>2, <1>3, <2>0, <2>2, <3>1, <3>2
  <2> QED
    BY <1>0, <1>10, <2>1, <2>2 DEF PollAlive, PollJoined, ConnectedWasAccepted
<1>11. CASE Restart
  BY <1>4, <1>11 DEF Restart, pushVars
<1>12. CASE UNCHANGED <<shown, told, notifying>>
  BY <1>2, <1>4, <1>12
<1> QED
  BY <1>6, <1>7, <1>8, <1>9, <1>10, <1>11, <1>12, PushSteps

\* What mDNS announced, the events on their way and the restarts keep their
\* types.
LEMMA BrowserStep ==
  ASSUME IInv, [Next]_vars
  PROVE  MdnsType' /\ AnnouncedFirst' /\ restarts' \in 0 .. MaxRestarts
<1> DEFINE Mdns == MdnsType /\ AnnouncedFirst
<1>0. /\ MdnsType /\ AnnouncedFirst /\ restarts \in 0 .. MaxRestarts
      /\ MaxAnnouncements \in Nat /\ MaxRestarts \in Nat
  BY Bounds DEF IInv, TypeOK, PushType
<1>1. ASSUME UNCHANGED <<known, announced>>, raised' \subseteq raised PROVE Mdns'
  BY <1>0, <1>1 DEF MdnsType, AnnouncedFirst
<1>2. ASSUME NEW i \in Instances, Discovered(i) PROVE Mdns' /\ restarts' = restarts
  <2>1. announced + 1 \in Rounds /\ announced' = announced + 1
    BY <1>0, <1>2 DEF Discovered, MdnsType, Rounds
  <2>2. [kind |-> "found", inst |-> i, round |-> announced + 1] \in Events
    BY <2>1 DEF Events
  <2> QED
    BY <1>0, <1>2, <2>1, <2>2 DEF Discovered, MdnsType, AnnouncedFirst, Rounds
<1>3. ASSUME NEW gone \in SUBSET known, Withdrawn(gone) PROVE Mdns' /\ restarts' = restarts
  <2>1. gone \subseteq Instances /\ announced \in Rounds
    BY <1>0, <1>3 DEF Withdrawn, MdnsType, AnnouncedFirst
  <2>2. [kind : {"lost"}, inst : gone, round : {announced}] \subseteq Events
    BY <2>1 DEF Events
  <2> QED
    BY <1>0, <1>3, <2>1, <2>2 DEF Withdrawn, MdnsType, AnnouncedFirst
<1>4. ASSUME NEW e \in raised, OnBrFound(e) \/ OnBrLost(e) PROVE Mdns' /\ restarts' = restarts
  BY <1>1, <1>4 DEF OnBrFound, OnBrLost
<1>5. ASSUME NEW c \in Clients, StartClient(c) \/ Socket(c) PROVE Mdns' /\ restarts' = restarts
  BY <1>1, <1>5 DEF StartClient, Socket, Connect, LinkLost, Cancelled, OnClientDisconnected,
     NotifyFrame, mdnsVars
<1>6. ASSUME NEW n \in Conns, Handler(n) PROVE Mdns' /\ restarts' = restarts
  BY <1>1, <1>6 DEF Handler, MacAnswered, HandshakeFails, GetNetwork, CreatePending, Activate,
     MarkOfflineRead, MarkOfflineSave, HandleNotify, mdnsVars
<1>7. CASE PollLoop
  BY <1>0, <1>1, <1>7 DEF PollLoop, PollTick, PollPick, PollRead, PollAssign, PollAlive,
     PollJoined, PollEnd, mdnsVars
<1>8. ASSUME NEW a \in Admins, Request(a) PROVE Mdns' /\ restarts' = restarts
  BY <1>1, <1>8 DEF Request, Decide, AcceptSave, RejectSave, RejectRemove, mdnsVars
<1>9. CASE Restart
  BY <1>0, <1>9 DEF Restart, MdnsType, AnnouncedFirst
<1>10. CASE UNCHANGED vars
  BY <1>0, <1>1, <1>10 DEF vars, mdnsVars
<1> QED
  BY <1>0, <1>2, <1>3, <1>4, <1>5, <1>6, <1>7, <1>8, <1>9, <1>10 DEF Next, Table, Browser

-----------------------------------------------------------------------------
(***************************************************************************)
(* The invariant.                                                          *)
(***************************************************************************)

\* The initial state satisfies the inductive invariant.
LEMMA InitIInv == Init => IInv
<1> SUFFICES ASSUME Init PROVE IInv
  OBVIOUS
<1>1. MdnsType /\ AnnouncedFirst /\ ClientType
  BY Bounds DEF Init, MdnsType, AnnouncedFirst, ClientType
<1>2. ConnType /\ EntryType /\ RowType
  BY DEF Init, ConnType, EntryType, RowType, Statuses
<1>3. PollType
  BY DEF Init, PollType, NoPoll, Statuses
<1>4. AdminType
  BY Bounds DEF Init, AdminType, NoAdmin
<1>5. PushType
  BY Bounds DEF Init, PushType
<1>6. FreshClients /\ OneClientPerInstance /\ HandlersMade
  BY Bounds DEF Init, FreshClients, OneClientPerInstance, HandlersMade
<1>7. EntriesSeen /\ ConnectedWasAccepted
  BY DEF Init, EntriesSeen, Remembered, ConnectedWasAccepted, RememberedConnected, NoPoll, Conns
<1>8. PushedWasAccepted /\ DecidesPending
  BY DEF Init, PushedWasAccepted, DecidesPending, NoAdmin
<1> QED
  BY <1>1, <1>2, <1>3, <1>4, <1>5, <1>6, <1>7, <1>8 DEF IInv, TypeOK

\* Every step preserves it.
LEMMA NextIInv == IInv /\ [Next]_vars => IInv'
<1> SUFFICES ASSUME IInv, [Next]_vars PROVE IInv'
  OBVIOUS
<1>1. TypeOK'
  <2>1. ConnType' /\ EntryType'
    BY ConnsStep, LinkStep, HandlersStep, ActiveStep, StatusStep, LeavingStep DEF ConnType, EntryType
  <2>2. PushType'
    BY PushStep, BrowserStep DEF PushType
  <2> QED
    BY <2>1, <2>2, BrowserStep, ClientsStep, RowTypeStep, PollStep, AdminStep DEF TypeOK
<1>2. (AnnouncedFirst /\ FreshClients /\ OneClientPerInstance /\ HandlersMade)'
  BY BrowserStep, ClientsStep, ConnsStep, HandlersStep DEF FreshClients, HandlersMade
<1>3. EntriesSeen'
  <2>1. ASSUME NEW n \in Conns, Remembered(n)' PROVE Seen(n)'
    BY <2>1, HandlersStep, ActiveStep, PollStep DEF Remembered
  <2> QED
    BY <2>1, PollStep DEF EntriesSeen
<1>4. ConnectedWasAccepted'
  <2>1. ASSUME NEW n \in Conns, RememberedConnected(n)' PROVE Accepted(n)'
    BY <2>1, StatusStep, LeavingStep, PushStep, PollStep DEF RememberedConnected
  <2> QED
    BY <2>1, PollStep DEF ConnectedWasAccepted
<1>5. PushedWasAccepted' /\ DecidesPending'
  BY PushStep, AdminStep
<1> QED
  BY <1>1, <1>2, <1>3, <1>4, <1>5 DEF IInv

\* IInv is an invariant of the connection management.
THEOREM Invariance == Spec => []IInv
BY InitIInv, NextIInv, PTL DEF Spec

\* Every variable keeps its type: in particular a poll never reads the status
\* of a network that is not in the table.
THEOREM TypeCorrect == Spec => []TypeOK
<1>1. IInv => TypeOK
  BY DEF IInv
<1> QED
  BY Invariance, <1>1, PTL

\* An instance has one client, the one in the table, however found and lost
\* events and rejects overtake each other (OneClientPerInstance).
THEOREM OneClient == Spec => []OneClientPerInstance
<1>1. IInv => OneClientPerInstance
  BY DEF IInv
<1> QED
  BY Invariance, <1>1, PTL

\* Nothing is pushed about a network nobody decided about, for any number of
\* administrators (OnlyDecidedPushed).
THEOREM DecidedFirst == Spec => []OnlyDecidedPushed
<1>1. IInv => OnlyDecidedPushed
  BY DEF IInv, PushedWasAccepted, OnlyDecidedPushed, Later
<1> QED
  BY Invariance, <1>1, PTL

-----------------------------------------------------------------------------
(***************************************************************************)
(* The refinement.                                                         *)
(***************************************************************************)

\* One network is reported at a time, in a step that leaves the rows alone.
LEMMA ShownShape ==
  ASSUME IInv, [Next]_vars
  PROVE  \/ shown' = shown
         \/ /\ row' = row
            /\ \E net \in Networks, s \in {"online", "offline"} :
                 row[net] \in Later /\ shown' = [shown EXCEPT ![net] = s]
<1>0. MdnsType /\ ClientType /\ ConnectedWasAccepted /\ EntriesSeen
  BY DEF IInv, TypeOK
<1>1. ASSUME NEW i \in Instances, Leave(i)
      PROVE  \/ shown' = shown
             \/ \E net \in Networks : row[net] \in Later /\ shown' = [shown EXCEPT ![net] = "offline"]
  BY <1>1, LeaveShape, NetOfType DEF Accepted
<1>2. ASSUME NEW e \in raised, OnBrLost(e)
      PROVE  row' = row /\ (shown' = shown \/ \E i \in Instances : Leave(i))
  <2>1. e.inst \in Instances
    BY <1>0 DEF MdnsType, Events
  <2> QED
    BY <1>2, <2>1 DEF OnBrLost
<1>3. ASSUME NEW c \in Clients, OnClientDisconnected(c)
      PROVE  row' = row /\ \E i \in Instances : Leave(i)
  <2>1. instOf[c] \in Instances
    BY <1>0 DEF ClientType
  <2> QED
    BY <1>3, <2>1 DEF OnClientDisconnected
<1>4. CASE PollJoined
  <2>1. PICK n \in Conns : n = poll.on
    BY <1>0, <1>4 DEF PollJoined, EntriesSeen
  <2>2. Accepted(n)
    BY <1>0, <1>4, <2>1 DEF PollJoined, ConnectedWasAccepted, RememberedConnected
  <2> QED
    BY <1>4, <2>1, <2>2, NetOfType DEF PollJoined, Accepted
<1>5. ASSUME \/ \E c \in Clients : NotifyFrame(c)
             \/ \E n \in Conns : HandleNotify(n)
             \/ PollAlive \/ Restart
      PROVE  shown' = shown
  BY <1>5 DEF NotifyFrame, HandleNotify, PollAlive, Restart, pushVars
<1> QED
  BY <1>1, <1>2, <1>3, <1>4, <1>5, PushSteps

\* A step that changes a row reports nothing.
LEMMA RowOrShown ==
  ASSUME IInv, [Next]_vars, row' # row
  PROVE  shown' = shown
BY ShownShape

\* As long as one administrator decides, every network keeps to the lifecycle
\* of NetworkLifecycle, and is reported only after it was accepted
\* (KeepsLifecycle).
THEOREM LifecycleKept == ASSUME OneAdmin PROVE Spec => KeepsLifecycle
<1>1. Init => Lifecycle!Init
  BY DEF Init, Lifecycle!Init
<1>2. IInv /\ [Next]_vars => [Lifecycle!Next]_(Lifecycle!vars)
  <2> SUFFICES ASSUME IInv, [Next]_vars
               PROVE  Lifecycle!Next \/ UNCHANGED <<row, shown>>
    BY DEF Lifecycle!vars
  <2>0. RowType /\ Later = {"connected", "offline"}
    BY DEF IInv, TypeOK, Later
  <2>1. CASE row' # row
    <3>1. shown' = shown
      BY <2>1, RowOrShown
    <3>2. PICK net \in Networks :
            \/ row[net] = "absent" /\ row' = [row EXCEPT ![net] = "pending"]
            \/ row[net] \in Later /\ row' = [row EXCEPT ![net] = "offline"]
            \/ /\ row[net] = "pending"
               /\ \E what \in {"connected", "rejected"} : row' = [row EXCEPT ![net] = what]
      BY <2>1, RowShape
    <3>3. row[net] = "offline" => row' # [row EXCEPT ![net] = "offline"]
      BY <2>0, <2>1 DEF RowType
    <3> QED
      BY <2>0, <3>1, <3>2, <3>3
      DEF Lifecycle!Next, Lifecycle!Discover, Lifecycle!Accept, Lifecycle!Reject,
          Lifecycle!GoOffline, Lifecycle!Move
  <2>2. CASE row' = row /\ shown' # shown
    BY <2>0, <2>2, ShownShape DEF Lifecycle!Next, Lifecycle!Show
  <2> QED
    BY <2>1, <2>2
<1> QED
  BY <1>1, <1>2, Invariance, PTL DEF Spec, KeepsLifecycle, Lifecycle!Spec
=============================================================================
