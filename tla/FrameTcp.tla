------------------------------ MODULE FrameTcp ------------------------------
(***************************************************************************)
(* The border router's TCP transport (frame_tcp.c): accept_task hands each *)
(* new connection over as the one client, tcp_rx_task reads commands and   *)
(* answers them, and three tasks -- RX, the change detector and the timer  *)
(* task -- send frames through one buffer under s_tx_mutex.                *)
(*                                                                         *)
(* A frame leaves in Parts pieces, since send() on the non-blocking socket *)
(* may take less than it is given.  Descriptors are numbers that lwIP      *)
(* gives out again once closed; a task may hold one it read before.        *)
(***************************************************************************)
EXTENDS Naturals, Sequences, FiniteSets

CONSTANTS
  Tasks,        \* the tasks that send: "rx", and those that send on their own
  NumFds,       \* socket descriptors
  MaxConns,     \* bound: connections the backend makes
  MaxCommands,  \* bound: commands the backend sends
  MaxFrames,    \* bound: frames each of the other tasks sends on its own
  Parts         \* pieces a frame leaves in

ASSUME ConstantsAssumption ==
  /\ "rx" \in Tasks /\ "none" \notin Tasks
  /\ NumFds \in Nat /\ NumFds >= 2
  /\ MaxConns \in Nat /\ MaxCommands \in Nat /\ MaxFrames \in Nat
  /\ Parts \in Nat \ {0}

Fds   == 1 .. NumFds
Conns == 1 .. MaxConns

VARIABLES
  made,      \* connections made by the backend
  gone,      \* those whose backend end is closed
  stuck,     \* those that take no more bytes: the peer vanished or stopped reading
  queued,    \* the connection in the listen backlog, 0 for none
  commands,  \* commands sent by the backend in all
  asked,     \* asked[n]: commands of connection n not read yet
  sock,      \* open descriptors: fd -> connection, 0 for a closed one
  client,    \* s_client_fd, 0 for none
  acc,       \* the descriptor accept_task is about to set, 0 for none
  rx,        \* tcp_rx_task: the step and the descriptor it read
  tx,        \* frame_send of each task: step, descriptor, pieces sent
  mutex,     \* s_tx_mutex: the task that holds it
  frames,    \* frames each task has begun
  out        \* out[n]: the pieces written to connection n

peerVars == <<made, gone, stuck, commands>>
sockVars == <<sock, client, acc, queued>>
sendVars == <<tx, mutex, frames, out>>

vars == <<peerVars, asked, sockVars, rx, sendVars>>

NoTask == "none"
Idle == [at |-> "idle", fd |-> 0, part |-> 0]
Top  == [at |-> "top", fd |-> 0]

Piece == [task : Tasks, no : Nat, part : 1 .. Parts]

SocketType ==
  /\ made \in 0 .. MaxConns
  /\ gone \subseteq Conns /\ stuck \subseteq Conns
  /\ commands \in Nat
  /\ queued \in {0} \cup Conns
  /\ asked \in [Conns -> Nat]
  /\ sock \in [Fds -> {0} \cup Conns]
  /\ client \in {0} \cup Fds
  /\ acc \in {0} \cup Fds
  /\ rx \in [at : {"top", "recv", "serve", "drop"}, fd : {0} \cup Fds]

SendType ==
  /\ tx \in [Tasks -> [at : {"idle", "lock", "fd", "write"}, fd : {0} \cup Fds, part : 0 .. Parts - 1]]
  /\ mutex \in Tasks \cup {NoTask}
  /\ frames \in [Tasks -> Nat]
  /\ out \in [Conns -> Seq(Piece)]

TypeOK == SocketType /\ SendType

Init ==
  /\ made = 0 /\ gone = {} /\ stuck = {} /\ commands = 0
  /\ asked = [n \in Conns |-> 0]
  /\ queued = 0
  /\ sock = [f \in Fds |-> 0]
  /\ client = 0 /\ acc = 0
  /\ rx = Top
  /\ tx = [t \in Tasks |-> Idle]
  /\ mutex = NoTask
  /\ frames = [t \in Tasks |-> 0]
  /\ out = [n \in Conns |-> <<>>]

-----------------------------------------------------------------------------
(***************************************************************************)
(* The backend's end.                                                      *)
(***************************************************************************)

PeerConnects ==
  /\ made < MaxConns
  /\ queued = 0
  /\ made' = made + 1
  /\ queued' = made + 1
  /\ UNCHANGED <<gone, stuck, commands, asked, sock, client, acc, rx, sendVars>>

PeerCommands(n) ==
  /\ n <= made
  /\ n \notin gone
  /\ commands < MaxCommands
  /\ commands' = commands + 1
  /\ asked' = [asked EXCEPT ![n] = @ + 1]
  /\ UNCHANGED <<made, gone, stuck, sockVars, rx, sendVars>>

PeerCloses(n) ==
  /\ n <= made
  /\ n \notin gone
  /\ gone' = gone \cup {n}
  /\ UNCHANGED <<made, stuck, commands, asked, sockVars, rx, sendVars>>

\* The send buffer of a connection that is still open fills up for good.
PeerSticks(n) ==
  /\ n <= made
  /\ n \notin stuck \cup gone
  /\ stuck' = stuck \cup {n}
  /\ UNCHANGED <<made, gone, commands, asked, sockVars, rx, sendVars>>

-----------------------------------------------------------------------------
(***************************************************************************)
(* accept_task.                                                            *)
(***************************************************************************)

Free == {f \in Fds : sock[f] = 0}

Accept ==
  /\ acc = 0
  /\ queued # 0
  /\ \E f \in Free :
       /\ \A g \in Free : f <= g
       /\ sock' = [sock EXCEPT ![f] = queued]
       /\ acc' = f
  /\ queued' = 0
  /\ UNCHANGED <<peerVars, asked, client, rx, sendVars>>

\* Mutant: a client that is there already keeps its place.
SetClientKeepsFirst ==
  /\ acc # 0
  /\ IF client = 0
     THEN client' = acc /\ UNCHANGED sock
     ELSE sock' = [sock EXCEPT ![acc] = 0] /\ UNCHANGED client
  /\ acc' = 0
  /\ UNCHANGED <<peerVars, asked, queued, rx, sendVars>>

SetClient ==
  /\ acc # 0
  /\ sock' = [f \in Fds |-> IF f = client THEN 0 ELSE sock[f]]
  /\ client' = acc
  /\ acc' = 0
  /\ UNCHANGED <<peerVars, asked, queued, rx, sendVars>>

-----------------------------------------------------------------------------
(***************************************************************************)
(* tcp_rx_task.                                                            *)
(***************************************************************************)

RxTop ==
  /\ rx.at = "top"
  /\ client # 0
  /\ rx' = [at |-> "recv", fd |-> client]
  /\ UNCHANGED <<peerVars, asked, sockVars, sendVars>>

\* A command: its handler runs in this task and answers it.
RxCommand ==
  /\ rx.at = "recv"
  /\ LET n == sock[rx.fd] IN
     /\ n # 0
     /\ asked[n] > 0
     /\ asked' = [asked EXCEPT ![n] = @ - 1]
  /\ rx' = [rx EXCEPT !.at = "serve"]
  /\ UNCHANGED <<peerVars, sockVars, sendVars>>

\* EAGAIN when there is nothing to read; otherwise the connection ended, or
\* the descriptor was closed under this task.
RxNothing ==
  /\ rx.at = "recv"
  /\ LET n == sock[rx.fd] IN
     IF n # 0 /\ n \notin gone
     THEN asked[n] = 0 /\ rx' = Top
     ELSE (n # 0 => asked[n] = 0) /\ rx' = [rx EXCEPT !.at = "drop"]
  /\ UNCHANGED <<peerVars, asked, sockVars, sendVars>>

\* Mutant: the descriptor this task read is closed, and s_client_fd cleared.
RxDropItsOwn ==
  /\ rx.at = "drop"
  /\ sock' = [sock EXCEPT ![rx.fd] = 0]
  /\ client' = 0
  /\ rx' = Top
  /\ UNCHANGED <<peerVars, asked, queued, acc, sendVars>>

\* close_client closes whatever client there is now.
RxDrop ==
  /\ rx.at = "drop"
  /\ sock' = [f \in Fds |-> IF f = client THEN 0 ELSE sock[f]]
  /\ client' = 0
  /\ rx' = Top
  /\ UNCHANGED <<peerVars, asked, queued, acc, sendVars>>

-----------------------------------------------------------------------------
(***************************************************************************)
(* frame_send.                                                             *)
(***************************************************************************)

\* A task's frame_send returns; the RX task then reads on.
Return(t) ==
  /\ tx' = [tx EXCEPT ![t] = Idle]
  /\ rx' = IF t = "rx" THEN Top ELSE rx

Release(t) == mutex' = NoTask /\ Return(t)

SendBegins(t) ==
  /\ tx[t].at = "idle"
  /\ IF t = "rx" THEN rx.at = "serve" ELSE frames[t] < MaxFrames
  /\ frames' = [frames EXCEPT ![t] = @ + 1]
  /\ tx' = [tx EXCEPT ![t].at = "lock"]
  /\ UNCHANGED <<peerVars, asked, sockVars, rx, mutex, out>>

\* Mutant: the buffer is used without the mutex.
SendLocksNothing(t) ==
  /\ tx[t].at = "lock"
  /\ tx' = [tx EXCEPT ![t].at = "fd"]
  /\ UNCHANGED <<peerVars, asked, sockVars, rx, mutex, frames, out>>

SendLocks(t) ==
  /\ tx[t].at = "lock"
  /\ mutex = NoTask
  /\ mutex' = t
  /\ tx' = [tx EXCEPT ![t].at = "fd"]
  /\ UNCHANGED <<peerVars, asked, sockVars, rx, frames, out>>

\* SEND_MUTEX_TIMEOUT_MS passed.
SendTimesOut(t) ==
  /\ tx[t].at = "lock"
  /\ mutex # NoTask
  /\ Return(t)
  /\ UNCHANGED <<peerVars, asked, sockVars, mutex, frames, out>>

SendReadsFd(t) ==
  /\ tx[t].at = "fd"
  /\ IF client = 0
     THEN Release(t)
     ELSE /\ tx' = [tx EXCEPT ![t] = [at |-> "write", fd |-> client, part |-> 0]]
          /\ UNCHANGED <<rx, mutex>>
  /\ UNCHANGED <<peerVars, asked, sockVars, frames, out>>

\* The descriptor may belong to another connection by now.
SendPiece(t) ==
  /\ tx[t].at = "write"
  /\ LET n == sock[tx[t].fd] IN
     /\ n \notin stuck \cup {0}
     /\ out' = [out EXCEPT ![n] =
                  Append(@, [task |-> t, no |-> frames[t], part |-> tx[t].part + 1])]
  /\ IF tx[t].part + 1 = Parts
     THEN Release(t)
     ELSE tx' = [tx EXCEPT ![t].part = @ + 1] /\ UNCHANGED <<rx, mutex>>
  /\ UNCHANGED <<peerVars, asked, sockVars, frames>>

\* Mutant: only an error ends the loop, EAGAIN never does.
SendGivesUpOnError(t) ==
  /\ tx[t].at = "write"
  /\ sock[tx[t].fd] \in gone \cup {0}
  /\ Release(t)
  /\ UNCHANGED <<peerVars, asked, sockVars, frames, out>>

\* An error, or EAGAIN for SEND_EAGAIN_MAX_MS: the rest of the frame is
\* never sent.
SendGivesUp(t) ==
  /\ tx[t].at = "write"
  /\ Release(t)
  /\ UNCHANGED <<peerVars, asked, sockVars, frames, out>>

-----------------------------------------------------------------------------

Peer == PeerConnects \/ (\E n \in Conns : PeerCommands(n) \/ PeerCloses(n) \/ PeerSticks(n))

Receive == RxTop \/ RxCommand \/ RxNothing \/ RxDrop

Send(t) ==
  \/ SendBegins(t) \/ SendLocks(t) \/ SendTimesOut(t)
  \/ SendReadsFd(t) \/ SendPiece(t) \/ SendGivesUp(t)

Next == Peer \/ Accept \/ SetClient \/ Receive \/ (\E t \in Tasks : Send(t))

Spec == Init /\ [][Next]_vars

\* Every FreeRTOS task runs; no client has to come, ask or close.
Fairness ==
  /\ WF_vars(Accept) /\ WF_vars(SetClient) /\ WF_vars(Receive)
  /\ WF_vars(SendBegins("rx"))
  /\ \A t \in Tasks :
       WF_vars(SendLocks(t) \/ SendTimesOut(t) \/ SendReadsFd(t) \/ SendPiece(t) \/ SendGivesUp(t))

FairSpec == Spec /\ Fairness

-----------------------------------------------------------------------------
(***************************************************************************)
(* Properties.                                                             *)
(***************************************************************************)

\* Every open socket is the client or on its way to become it: no hand-over
\* or drop, in whatever order the two tasks run, leaks a descriptor or
\* leaves s_client_fd pointing at a closed one.
NoSocketLeak ==
  /\ \A f \in Fds : sock[f] # 0 <=> f \in {client, acc}
  /\ client # 0 => client # acc

\* On every connection a piece follows the piece before it of the same
\* frame: frames of different tasks never mix, and a frame without its
\* head -- the tail of one begun on an older connection -- can only be the
\* first thing a connection carries.
FramesWhole ==
  \A n \in Conns : \A k \in 2 .. Len(out[n]) :
    out[n][k].part > 1 => out[n][k - 1] = [out[n][k] EXCEPT !.part = @ - 1]

\* A connection in the backlog becomes the client, even if the client before
\* it is silent and never closes.  Nothing is said of how long it stays.
ConnectionTakesOver ==
  \A n \in Conns : queued = n ~> (\E f \in Fds : client = f /\ sock[f] = n)

\* A command that was read never blocks the RX task for good: neither a full
\* socket nor another task's send does.
RxComesBack == rx.at = "serve" ~> rx.at = "top"
=============================================================================
