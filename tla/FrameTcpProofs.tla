-------------------------- MODULE FrameTcpProofs --------------------------
(***************************************************************************)
(* Sockets and frames of the border router's transport, for any number of  *)
(* descriptors, connections, sending tasks and pieces of a frame.          *)
(***************************************************************************)
EXTENDS FrameTcp, TLAPS

\* A task that reads, serves or writes has a descriptor, open or not.
HoldsFd ==
  /\ rx.at # "top" => rx.fd \in Fds
  /\ \A t \in Tasks : tx[t].at = "write" => tx[t].fd \in Fds

\* The buffer and the socket are used by the task that has the mutex.
MutexIsHeld == \A t \in Tasks : tx[t].at \in {"fd", "write"} <=> mutex = t

\* Nothing was written to a connection that is not accepted yet.
NewIsEmpty ==
  /\ queued <= made
  /\ \A f \in Fds : sock[f] <= made /\ (queued # 0 => sock[f] # queued)
  /\ \A n \in Conns : n > made \/ n = queued => out[n] = <<>>

\* What a task is about to write continues what it wrote, or is the first
\* thing on a connection that got the descriptor meanwhile.
Continues ==
  \A t \in Tasks : tx[t].at = "write" /\ tx[t].part > 0 =>
    \A n \in Conns : n = sock[tx[t].fd] /\ out[n] # <<>> =>
      out[n][Len(out[n])] = [task |-> t, no |-> frames[t], part |-> tx[t].part]

IInv == TypeOK /\ NoSocketLeak /\ HoldsFd /\ MutexIsHeld /\ NewIsEmpty /\ Continues /\ FramesWhole

\* The initial state satisfies the inductive invariant.
LEMMA InitIInv == Init => IInv
<1> SUFFICES ASSUME Init PROVE IInv
  OBVIOUS
<1> USE ConstantsAssumption DEF Init
<1>1. SocketType
  BY DEF SocketType, Conns, Fds, Top
<1>2. SendType
  BY DEF SendType, Conns, Fds, Idle, NoTask
<1>3. NoSocketLeak /\ HoldsFd
  BY DEF NoSocketLeak, HoldsFd, Fds, Top, Idle
<1>4. MutexIsHeld
  BY DEF MutexIsHeld, Idle, NoTask
<1>5. NewIsEmpty /\ Continues /\ FramesWhole
  BY DEF NewIsEmpty, Continues, FramesWhole, Conns, Fds, Idle
<1> QED
  BY <1>1, <1>2, <1>3, <1>4, <1>5 DEF IInv, TypeOK

-----------------------------------------------------------------------------
(***************************************************************************)
(* Types.                                                                  *)
(***************************************************************************)

\* The task that returns from frame_send, and the piece it sent before.
LEMMA ReturnTypes ==
  ASSUME TypeOK, NEW t \in Tasks, Return(t)
  PROVE  /\ tx' \in [Tasks -> [at : {"idle", "lock", "fd", "write"}, fd : {0} \cup Fds,
                               part : 0 .. Parts - 1]]
         /\ rx' \in [at : {"top", "recv", "serve", "drop"}, fd : {0} \cup Fds]
BY ConstantsAssumption DEF Return, TypeOK, SendType, SocketType, Idle, Top

\* The peer and the two tasks that handle sockets keep the types.
LEMMA SocketTypes ==
  TypeOK /\ HoldsFd /\ (Peer \/ Accept \/ SetClient \/ Receive) => TypeOK'
<1> SUFFICES ASSUME TypeOK, HoldsFd, Peer \/ Accept \/ SetClient \/ Receive PROVE TypeOK'
  OBVIOUS
<1> USE ConstantsAssumption DEF TypeOK, SocketType
<1>1. SendType'
  BY DEF SendType, Peer, PeerConnects, PeerCommands, PeerCloses, PeerSticks, Accept, SetClient,
         Receive, RxTop, RxCommand, RxNothing, RxDrop, sendVars
<1>2. CASE PeerConnects
  BY <1>1, <1>2 DEF PeerConnects, Conns
<1>3. ASSUME NEW n \in Conns, PeerCommands(n) PROVE SocketType'
  BY <1>3 DEF PeerCommands, sockVars
<1>4. ASSUME NEW n \in Conns, PeerCloses(n) \/ PeerSticks(n) PROVE SocketType'
  BY <1>4 DEF PeerCloses, PeerSticks, sockVars
<1>5. CASE Accept
  BY <1>1, <1>5 DEF Accept, Free, peerVars
<1>6. CASE SetClient
  BY <1>1, <1>6 DEF SetClient, peerVars
<1>7. CASE RxTop
  BY <1>1, <1>7 DEF RxTop, peerVars, sockVars
<1>8. CASE RxCommand
  <2>1. sock[rx.fd] \in Conns
    BY <1>8 DEF RxCommand, HoldsFd
  <2> QED
    BY <1>1, <1>8, <2>1 DEF RxCommand, peerVars, sockVars
<1>9. CASE RxNothing
  BY <1>1, <1>9 DEF RxNothing, Top, peerVars, sockVars
<1>10. CASE RxDrop
  BY <1>1, <1>10 DEF RxDrop, Top, peerVars
<1> QED
  BY <1>1, <1>2, <1>3, <1>4, <1>5, <1>6, <1>7, <1>8, <1>9, <1>10 DEF Peer, Receive

\* What a step makes of the task that takes it.
LEMMA StepOfSender ==
  ASSUME TypeOK, NEW t \in Tasks
  PROVE  /\ SendBegins(t) => tx'[t] = [tx[t] EXCEPT !.at = "lock"] /\ tx'[t].at = "lock"
         /\ SendLocks(t) => tx'[t].at = "fd"
         /\ Return(t) => tx'[t] = Idle
         /\ SendReadsFd(t) /\ client # 0 => tx'[t] = [at |-> "write", fd |-> client, part |-> 0]
         /\ SendPiece(t) /\ tx[t].part + 1 # Parts =>
              /\ tx'[t].at = "write"
              /\ tx'[t].fd = tx[t].fd
              /\ tx'[t].part = tx[t].part + 1
<1>1. /\ tx \in [Tasks -> [at : {"idle", "lock", "fd", "write"}, fd : {0} \cup Fds, part : 0 .. Parts - 1]]
      /\ tx[t] \in [at : {"idle", "lock", "fd", "write"}, fd : {0} \cup Fds, part : 0 .. Parts - 1]
  BY DEF TypeOK, SendType
<1>3. SendBegins(t) => tx'[t] = [tx[t] EXCEPT !.at = "lock"] /\ tx'[t].at = "lock"
  BY <1>1 DEF SendBegins
<1>4. SendLocks(t) => tx'[t].at = "fd"
  BY <1>1 DEF SendLocks
<1>5. Return(t) => tx'[t] = Idle
  BY <1>1 DEF Return
<1>6. SendReadsFd(t) /\ client # 0 => tx'[t] = [at |-> "write", fd |-> client, part |-> 0]
  BY <1>1 DEF SendReadsFd
<1>7. SendPiece(t) /\ tx[t].part + 1 # Parts =>
        /\ tx'[t].at = "write"
        /\ tx'[t].fd = tx[t].fd
        /\ tx'[t].part = tx[t].part + 1
  BY <1>1 DEF SendPiece
<1> QED
  BY <1>3, <1>4, <1>5, <1>6, <1>7

\* A step of one task leaves the others where they are.
LEMMA OnlyOwnStep ==
  ASSUME TypeOK, NEW t \in Tasks, Send(t)
  PROVE  \A u \in Tasks : u # t => tx'[u] = tx[u] /\ frames'[u] = frames[u]
<1>1. \E e : tx' = [tx EXCEPT ![t] = e]
  BY DEF Send, SendBegins, SendLocks, SendTimesOut, SendReadsFd, SendPiece, SendGivesUp, Release, Return
<1>2. \A u \in Tasks : u # t => tx'[u] = tx[u]
  BY <1>1 DEF TypeOK, SendType
<1>3. \A u \in Tasks : u # t => frames'[u] = frames[u]
  BY DEF Send, SendBegins, SendLocks, SendTimesOut, SendReadsFd, SendPiece, SendGivesUp, TypeOK, SendType
<1> QED
  BY <1>2, <1>3

\* A task that sends keeps the types.
LEMMA SendTypes ==
  ASSUME TypeOK, HoldsFd, NEW t \in Tasks, Send(t)
  PROVE  TypeOK'
<1> DEFINE Sender == [at : {"idle", "lock", "fd", "write"}, fd : {0} \cup Fds, part : 0 .. Parts - 1]
<1> USE ConstantsAssumption
<1>1. tx \in [Tasks -> Sender] /\ tx[t] \in Sender
  BY DEF TypeOK, SendType
<1>2. \A s \in Sender : [tx EXCEPT ![t] = s] \in [Tasks -> Sender]
  BY <1>1
<1>3. tx' \in [Tasks -> Sender]
  <2>1. CASE SendBegins(t) \/ SendLocks(t)
    <3>1. \A a \in {"lock", "fd"} : [tx[t] EXCEPT !.at = a] \in Sender
      BY <1>1
    <3> HIDE DEF Sender
    <3>2. \E a \in {"lock", "fd"} : tx' = [tx EXCEPT ![t] = [tx[t] EXCEPT !.at = a]]
      BY <2>1 DEF SendBegins, SendLocks
    <3> QED
      BY <1>2, <3>1, <3>2
  <2>2. CASE SendReadsFd(t) /\ client # 0
    <3>1. [at |-> "write", fd |-> client, part |-> 0] \in Sender
      BY DEF TypeOK, SocketType
    <3> QED
      BY <2>2, <1>2, <3>1 DEF SendReadsFd
  <2>3. CASE SendPiece(t) /\ tx[t].part + 1 # Parts
    <3>1. [tx[t] EXCEPT !.part = @ + 1] \in Sender
      BY <1>1, <2>3
    <3> HIDE DEF Sender
    <3>2. tx' = [tx EXCEPT ![t] = [tx[t] EXCEPT !.part = @ + 1]]
      BY <2>3 DEF SendPiece
    <3> QED
      BY <1>2, <3>1, <3>2
  <2>4. CASE Return(t)
    BY <2>4, ReturnTypes
  <2> QED
    BY <2>1, <2>2, <2>3, <2>4 DEF Send, SendTimesOut, SendReadsFd, SendPiece, SendGivesUp, Release
<1>4. out' \in [Conns -> Seq(Piece)]
  <2>1. CASE SendPiece(t)
    <3>1. [task |-> t, no |-> frames[t], part |-> tx[t].part + 1] \in Piece
      BY <1>1 DEF Piece, TypeOK, SendType
    <3>2. sock[tx[t].fd] \in Conns
      BY <2>1 DEF SendPiece, HoldsFd, TypeOK, SocketType
    <3>3. Append(out[sock[tx[t].fd]], [task |-> t, no |-> frames[t], part |-> tx[t].part + 1]) \in Seq(Piece)
      BY <3>1, <3>2 DEF TypeOK, SendType
    <3> QED
      BY <2>1, <3>2, <3>3 DEF SendPiece, TypeOK, SendType
  <2>2. CASE UNCHANGED out
    BY <2>2 DEF TypeOK, SendType
  <2> QED
    BY <2>1, <2>2 DEF Send, SendBegins, SendLocks, SendTimesOut, SendReadsFd, SendGivesUp
<1>5. mutex' \in Tasks \cup {NoTask} /\ frames' \in [Tasks -> Nat]
  BY DEF Send, SendBegins, SendLocks, SendTimesOut, SendReadsFd, SendPiece, SendGivesUp, Release,
         TypeOK, SendType
<1>6. SocketType'
  <2>1. rx' \in [at : {"top", "recv", "serve", "drop"}, fd : {0} \cup Fds]
    <3>1. rx' = rx \/ rx' = Top
      BY DEF Send, SendBegins, SendLocks, SendTimesOut, SendReadsFd, SendPiece, SendGivesUp, Release,
             Return
    <3> QED
      BY <3>1 DEF Top, TypeOK, SocketType
  <2>2. UNCHANGED <<peerVars, asked, sockVars>>
    BY DEF Send, SendBegins, SendLocks, SendTimesOut, SendReadsFd, SendPiece, SendGivesUp
  <2> QED
    BY <2>1, <2>2 DEF peerVars, sockVars, TypeOK, SocketType
<1> QED
  BY <1>3, <1>4, <1>5, <1>6 DEF TypeOK, SendType

-----------------------------------------------------------------------------
(***************************************************************************)
(* Sockets.                                                                *)
(***************************************************************************)

\* Every hand-over and drop keeps the open sockets accounted for.
LEMMA StepKeepsSockets == TypeOK /\ NoSocketLeak /\ [Next]_vars => NoSocketLeak'
<1> SUFFICES ASSUME TypeOK, NoSocketLeak, [Next]_vars PROVE NoSocketLeak'
  OBVIOUS
<1> USE DEF NoSocketLeak
<1>1. CASE Accept
  BY <1>1 DEF Accept, Free, TypeOK, SocketType, Fds
<1>2. CASE SetClient
  BY <1>2 DEF SetClient, TypeOK, SocketType, Fds
<1>3. CASE RxDrop
  BY <1>3 DEF RxDrop, TypeOK, SocketType, Fds
<1>4. CASE UNCHANGED <<sock, client, acc>>
  BY <1>4
<1>5. Peer \/ RxTop \/ RxCommand \/ RxNothing \/ UNCHANGED vars => UNCHANGED <<sock, client, acc>>
  BY DEF Peer, PeerConnects, PeerCommands, PeerCloses, PeerSticks, RxTop, RxCommand, RxNothing,
         sockVars, vars
<1>6. ASSUME NEW t \in Tasks, Send(t) PROVE UNCHANGED <<sock, client, acc>>
  BY <1>6 DEF Send, SendBegins, SendLocks, SendTimesOut, SendReadsFd, SendPiece, SendGivesUp, sockVars
<1> QED
  BY <1>1, <1>2, <1>3, <1>4, <1>5, <1>6 DEF Next, Receive

\* A task that reads, serves or writes keeps a descriptor.
LEMMA StepKeepsFds == TypeOK /\ HoldsFd /\ [Next]_vars => HoldsFd'
<1> SUFFICES ASSUME TypeOK, HoldsFd, [Next]_vars PROVE HoldsFd'
  OBVIOUS
<1>1. CASE Receive
  <2>1. tx' = tx
    BY <1>1 DEF Receive, RxTop, RxCommand, RxNothing, RxDrop, sendVars
  <2>2. rx'.at # "top" => rx'.fd \in Fds
    BY <1>1 DEF Receive, RxTop, RxCommand, RxNothing, RxDrop, Top, HoldsFd, TypeOK, SocketType
  <2> QED
    BY <2>1, <2>2 DEF HoldsFd
<1>2. ASSUME NEW t \in Tasks, Send(t) PROVE HoldsFd'
  <2>1. rx' = rx \/ rx' = Top
    BY <1>2 DEF Send, SendBegins, SendLocks, SendTimesOut, SendReadsFd, SendPiece, SendGivesUp,
                Release, Return
  <2>2. rx'.at # "top" => rx'.fd \in Fds
    BY <2>1 DEF HoldsFd, Top
  <2>3. \A u \in Tasks : u # t => tx'[u] = tx[u]
    BY <1>2, OnlyOwnStep
  <2>4. tx'[t].at = "write" => tx'[t].fd \in Fds
    <3>1. CASE SendBegins(t) \/ SendLocks(t)
      BY <3>1, StepOfSender
    <3>2. CASE Return(t)
      <4>1. tx'[t] = Idle
        BY <3>2, StepOfSender
      <4> QED
        BY <4>1 DEF Idle
    <3>3. CASE SendReadsFd(t) /\ client # 0
      <4>1. tx'[t] = [at |-> "write", fd |-> client, part |-> 0]
        BY <3>3, StepOfSender
      <4> QED
        BY <3>3, <4>1 DEF TypeOK, SocketType
    <3>4. CASE SendPiece(t) /\ tx[t].part + 1 # Parts
      BY <3>4, StepOfSender DEF SendPiece, HoldsFd
    <3> QED
      BY <1>2, <3>1, <3>2, <3>3, <3>4
         DEF Send, SendTimesOut, SendReadsFd, SendPiece, SendGivesUp, Release
  <2> QED
    BY <2>2, <2>3, <2>4 DEF HoldsFd
<1>3. CASE UNCHANGED <<rx, tx>>
  BY <1>3 DEF HoldsFd
<1>4. Peer \/ Accept \/ SetClient \/ UNCHANGED vars => UNCHANGED <<rx, tx>>
  BY DEF Peer, PeerConnects, PeerCommands, PeerCloses, PeerSticks, Accept, SetClient, sendVars, vars
<1> QED
  BY <1>1, <1>2, <1>3, <1>4 DEF Next

-----------------------------------------------------------------------------
(***************************************************************************)
(* Frames.                                                                 *)
(***************************************************************************)

\* Only the task that has the mutex is past it.
LEMMA StepKeepsMutex == TypeOK /\ MutexIsHeld /\ [Next]_vars => MutexIsHeld'
<1> SUFFICES ASSUME TypeOK, MutexIsHeld, [Next]_vars PROVE MutexIsHeld'
  OBVIOUS
<1>1. ASSUME NEW t \in Tasks, Send(t) PROVE MutexIsHeld'
  <2> DEFINE Past(a) == a \in {"fd", "write"}
  <2>1. \A u \in Tasks : u # t => tx'[u] = tx[u]
    BY <1>1, OnlyOwnStep
  <2>2. NoTask \notin Tasks
    BY ConstantsAssumption DEF NoTask
  <2>3. /\ Past(tx'[t].at) <=> mutex' = t
        /\ mutex' = mutex \/ (t \in {mutex, mutex'} /\ NoTask \in {mutex, mutex'})
    <3>1. CASE SendBegins(t)
      <4>1. tx[t].at = "idle" /\ tx'[t].at = "lock" /\ mutex' = mutex
        BY <3>1, StepOfSender DEF SendBegins
      <4> QED
        BY <4>1 DEF MutexIsHeld
    <3>2. CASE SendLocks(t)
      <4>1. tx'[t].at = "fd" /\ mutex = NoTask /\ mutex' = t
        BY <3>2, StepOfSender DEF SendLocks
      <4> QED
        BY <4>1
    <3>3. CASE SendTimesOut(t)
      <4>1. tx[t].at = "lock" /\ tx'[t] = Idle /\ mutex' = mutex
        BY <3>3, StepOfSender DEF SendTimesOut
      <4> QED
        BY <4>1 DEF MutexIsHeld, Idle
    <3>4. CASE Release(t) /\ tx[t].at \in {"fd", "write"}
      <4>1. tx'[t] = Idle /\ mutex' = NoTask
        BY <3>4, StepOfSender DEF Release
      <4>2. mutex = t
        BY <3>4 DEF MutexIsHeld
      <4>3. ~ Past(tx'[t].at)
        BY <4>1 DEF Idle
      <4>4. mutex' # t
        BY <4>1, <2>2
      <4> QED
        BY <4>1, <4>2, <4>3, <4>4
    <3>5. CASE SendReadsFd(t) /\ client # 0
      <4>1. tx[t].at = "fd" /\ tx'[t].at = "write" /\ mutex' = mutex
        <5>1. tx'[t] = [at |-> "write", fd |-> client, part |-> 0]
          BY <3>5, StepOfSender
        <5>2. tx[t].at = "fd" /\ mutex' = mutex
          BY <3>5 DEF SendReadsFd
        <5> QED
          BY <5>1, <5>2
      <4> QED
        BY <4>1 DEF MutexIsHeld
    <3>6. CASE SendPiece(t) /\ tx[t].part + 1 # Parts
      <4>1. tx[t].at = "write" /\ tx'[t].at = "write" /\ mutex' = mutex
        BY <3>6, StepOfSender DEF SendPiece
      <4> QED
        BY <4>1 DEF MutexIsHeld
    <3> QED
      BY <1>1, <3>1, <3>2, <3>3, <3>4, <3>5, <3>6 DEF Send, SendReadsFd, SendPiece, SendGivesUp
  <2>4. ASSUME NEW u \in Tasks, u # t PROVE Past(tx'[u].at) <=> mutex' = u
    BY <2>1, <2>2, <2>3, <2>4 DEF MutexIsHeld
  <2> QED
    BY <2>3, <2>4 DEF MutexIsHeld
<1>2. CASE UNCHANGED <<mutex, tx>>
  BY <1>2 DEF MutexIsHeld
<1>3. Peer \/ Accept \/ SetClient \/ Receive \/ UNCHANGED vars => UNCHANGED <<mutex, tx>>
  BY DEF Peer, PeerConnects, PeerCommands, PeerCloses, PeerSticks, Accept, SetClient, Receive,
         RxTop, RxCommand, RxNothing, RxDrop, sendVars, vars
<1> QED
  BY <1>1, <1>2, <1>3 DEF Next

\* What changes the connections, the sockets or what was written.
LEMMA WireChanges ==
  [Next]_vars =>
    \/ UNCHANGED <<made, queued, sock, out>>
    \/ PeerConnects \/ Accept \/ SetClient \/ RxDrop
    \/ \E t \in Tasks : SendPiece(t)
<1>1. ASSUME NEW n \in Conns, PeerCommands(n) \/ PeerCloses(n) \/ PeerSticks(n)
      PROVE  UNCHANGED <<made, queued, sock, out>>
  BY <1>1 DEF PeerCommands, PeerCloses, PeerSticks, sockVars, sendVars
<1>2. RxTop \/ RxCommand \/ RxNothing \/ UNCHANGED vars => UNCHANGED <<made, queued, sock, out>>
  BY DEF RxTop, RxCommand, RxNothing, peerVars, sockVars, sendVars, vars
<1>3. ASSUME NEW t \in Tasks, Send(t), ~ SendPiece(t) PROVE UNCHANGED <<made, queued, sock, out>>
  BY <1>3 DEF Send, SendBegins, SendLocks, SendTimesOut, SendReadsFd, SendGivesUp, peerVars, sockVars
<1> QED
  BY <1>1, <1>2, <1>3 DEF Next, Peer, Receive

\* What Append does to the places of a sequence.
LEMMA Appended ==
  ASSUME NEW S, NEW s \in Seq(S), NEW e \in S
  PROVE  /\ Len(s) \in Nat
         /\ Len(Append(s, e)) = Len(s) + 1
         /\ Append(s, e)[Len(s) + 1] = e
         /\ \A i \in 1 .. Len(s) : Append(s, e)[i] = s[i]
OBVIOUS

\* The empty sequence has no last place.
LEMMA EmptyHasNone == \A s : Len(s) \in 1 .. Len(s) => s # <<>>
OBVIOUS

\* A piece is appended to the connection its task's descriptor stands for.
LEMMA PieceAppended ==
  ASSUME TypeOK, HoldsFd, NEW t \in Tasks, SendPiece(t)
  PROVE  LET c == sock[tx[t].fd]
             p == [task |-> t, no |-> frames[t], part |-> tx[t].part + 1]
         IN  /\ c \in Conns /\ tx[t].fd \in Fds
             /\ p \in Piece
             /\ out[c] \in Seq(Piece)
             /\ out'[c] = Append(out[c], p)
             /\ \A n \in Conns : n # c => out'[n] = out[n]
             /\ UNCHANGED <<made, queued, sock, frames>>
<1>1. tx[t].fd \in Fds /\ sock[tx[t].fd] \in Conns
  BY DEF SendPiece, HoldsFd, TypeOK, SocketType
<1>2. [task |-> t, no |-> frames[t], part |-> tx[t].part + 1] \in Piece
  BY ConstantsAssumption DEF Piece, TypeOK, SendType
<1>3. UNCHANGED <<made, queued, sock, frames>>
  BY DEF SendPiece, peerVars, sockVars
<1> QED
  BY <1>1, <1>2, <1>3 DEF SendPiece, TypeOK, SendType

\* A connection gets its first byte after it was accepted.
LEMMA StepKeepsNew == TypeOK /\ HoldsFd /\ NewIsEmpty /\ [Next]_vars => NewIsEmpty'
<1> SUFFICES ASSUME TypeOK, HoldsFd, NewIsEmpty, [Next]_vars PROVE NewIsEmpty'
  OBVIOUS
<1>1. /\ made \in Nat /\ queued \in Nat
      /\ \A f \in Fds : sock[f] \in Nat
      /\ \A n \in Conns : n \in Nat /\ n # 0
  BY ConstantsAssumption DEF TypeOK, SocketType, Conns
<1>2. CASE PeerConnects
  <2>1. made' = made + 1 /\ queued = 0 /\ queued' = made + 1 /\ sock' = sock /\ out' = out
    BY <1>2 DEF PeerConnects, sendVars
  <2> QED
    BY <1>1, <2>1 DEF NewIsEmpty
<1>3. CASE Accept
  <2>1. made' = made /\ queued # 0 /\ queued' = 0 /\ out' = out
    BY <1>3 DEF Accept, peerVars, sendVars
  <2>2. \A f \in Fds : sock'[f] = sock[f] \/ sock'[f] = queued
    BY <1>3 DEF Accept, Free, TypeOK, SocketType
  <2> QED
    BY <1>1, <2>1, <2>2 DEF NewIsEmpty
<1>4. CASE SetClient \/ RxDrop
  <2>1. made' = made /\ queued' = queued /\ out' = out
    BY <1>4 DEF SetClient, RxDrop, peerVars, sendVars
  <2>2. \A f \in Fds : sock'[f] = sock[f] \/ sock'[f] = 0
    BY <1>4 DEF SetClient, RxDrop
  <2> QED
    BY <1>1, <2>1, <2>2 DEF NewIsEmpty
<1>5. ASSUME NEW t \in Tasks, SendPiece(t) PROVE NewIsEmpty'
  <2> DEFINE c == sock[tx[t].fd]
  <2>1. /\ tx[t].fd \in Fds /\ c \in Conns
        /\ \A n \in Conns : n # c => out'[n] = out[n]
        /\ UNCHANGED <<made, queued, sock>>
    BY <1>5, PieceAppended
  <2>2. ~ (c > made) /\ c # queued
    BY <1>1, <2>1 DEF NewIsEmpty
  <2> QED
    BY <2>1, <2>2 DEF NewIsEmpty
<1>6. CASE UNCHANGED <<made, queued, sock, out>>
  BY <1>6 DEF NewIsEmpty
<1> QED
  BY <1>2, <1>3, <1>4, <1>5, <1>6, WireChanges

\* A task that is in the middle of a frame wrote the last piece of the
\* connection its descriptor stands for, or nothing was written to it yet.
LEMMA StepContinues == IInv /\ [Next]_vars => Continues'
<1> SUFFICES ASSUME IInv, [Next]_vars, NEW t \in Tasks, tx'[t].at = "write", tx'[t].part > 0,
                    NEW n \in Conns, n = sock'[tx'[t].fd], out'[n] # <<>>
             PROVE  out'[n][Len(out'[n])] = [task |-> t, no |-> frames'[t], part |-> tx'[t].part]
  BY DEF Continues
<1>1. TypeOK /\ HoldsFd /\ MutexIsHeld /\ NewIsEmpty /\ Continues
  BY DEF IInv
<1>2. tx'[t].fd \in Fds
  BY <1>1, StepKeepsFds DEF HoldsFd
<1>3. \A s \in Nat : s = n => n # 0
  BY DEF Conns
<1>4. CASE \E u \in Tasks : Send(u)
  <2> PICK u \in Tasks : Send(u)
    BY <1>4
  <2>1. CASE SendPiece(u)
    <3>1. u = t
      <4>1. tx[u].at = "write" /\ mutex = u
        BY <2>1, <1>1 DEF SendPiece, MutexIsHeld
      <4>2. u # t => tx'[t] = tx[t]
        BY <1>1, OnlyOwnStep
      <4> QED
        BY <1>1, <4>1, <4>2 DEF MutexIsHeld
    <3>2. tx[t].part + 1 # Parts
      <4>1. ASSUME tx[t].part + 1 = Parts PROVE FALSE
        <5>1. tx'[t] = Idle
          BY <1>1, <2>1, <3>1, <4>1, StepOfSender DEF SendPiece, Release
        <5> QED
          BY <5>1 DEF Idle
      <4> QED
        BY <4>1
    <3>3. tx'[t].fd = tx[t].fd /\ tx'[t].part = tx[t].part + 1
      BY <1>1, <2>1, <3>1, <3>2, StepOfSender
    <3> DEFINE p == [task |-> t, no |-> frames[t], part |-> tx[t].part + 1]
    <3>4. /\ n = sock[tx[t].fd] /\ frames' = frames
          /\ out[n] \in Seq(Piece) /\ p \in Piece /\ out'[n] = Append(out[n], p)
      BY <1>1, <2>1, <3>1, <3>3, PieceAppended
    <3>5. out'[n][Len(out'[n])] = p
      <4> HIDE DEF p
      <4> QED
        BY <3>4
    <3> QED
      BY <3>3, <3>4, <3>5
  <2>2. CASE ~ SendPiece(u)
    <3>1. UNCHANGED <<sock, out>>
      BY <2>2 DEF Send, SendBegins, SendLocks, SendTimesOut, SendReadsFd, SendGivesUp, sockVars
    <3>2. u # t
      <4>1. ASSUME u = t PROVE FALSE
        <5>1. CASE SendBegins(t) \/ SendLocks(t)
          BY <1>1, <5>1, StepOfSender
        <5>2. CASE Return(t)
          <6>1. tx'[t] = Idle
            BY <1>1, <5>2, StepOfSender
          <6> QED
            BY <6>1 DEF Idle
        <5>3. CASE SendReadsFd(t) /\ client # 0
          <6>1. tx'[t] = [at |-> "write", fd |-> client, part |-> 0]
            BY <1>1, <5>3, StepOfSender
          <6> QED
            BY <6>1
        <5> QED
          BY <2>2, <4>1, <5>1, <5>2, <5>3 DEF Send, SendTimesOut, SendReadsFd, SendGivesUp, Release
      <4> QED
        BY <4>1
    <3>3. tx'[t] = tx[t] /\ frames'[t] = frames[t]
      BY <1>1, <3>2, OnlyOwnStep
    <3> QED
      BY <1>1, <3>1, <3>3 DEF Continues
  <2> QED
    BY <2>1, <2>2
<1>5. CASE ~ \E u \in Tasks : Send(u)
  <2>1. UNCHANGED <<tx, frames, out>>
    BY <1>5 DEF Next, Peer, PeerConnects, PeerCommands, PeerCloses, PeerSticks, Accept, SetClient,
                Receive, RxTop, RxCommand, RxNothing, RxDrop, sendVars, vars
  <2>2. sock'[tx[t].fd] = sock[tx[t].fd] \/ n = queued
    <3>1. CASE Accept
      BY <1>2, <2>1, <3>1 DEF Accept, Free, IInv, TypeOK, SocketType
    <3>2. CASE SetClient \/ RxDrop
      <4>1. sock'[tx[t].fd] = sock[tx[t].fd] \/ sock'[tx[t].fd] = 0
        BY <1>2, <2>1, <3>2 DEF SetClient, RxDrop
      <4> QED
        BY <2>1, <4>1, <1>3
    <3>3. CASE UNCHANGED sock
      BY <3>3
    <3> QED
      BY <1>5, <3>1, <3>2, <3>3, WireChanges DEF PeerConnects, Send
  <2>3. n # queued
    BY <1>1, <2>1 DEF NewIsEmpty
  <2> QED
    BY <1>1, <2>1, <2>2, <2>3 DEF Continues
<1> QED
  BY <1>4, <1>5

\* A piece that is written keeps every frame in one stretch.
LEMMA StepKeepsFrames == IInv /\ [Next]_vars => FramesWhole'
<1> SUFFICES ASSUME IInv, [Next]_vars PROVE FramesWhole'
  OBVIOUS
<1>1. TypeOK /\ HoldsFd /\ Continues /\ FramesWhole
  BY DEF IInv
<1>2. CASE UNCHANGED out
  BY <1>1, <1>2 DEF FramesWhole
<1>3. ASSUME NEW t \in Tasks, SendPiece(t),
             NEW n \in Conns, NEW k \in 2 .. Len(out'[n]), out'[n][k].part > 1
      PROVE  out'[n][k - 1] = [out'[n][k] EXCEPT !.part = @ - 1]
  <2> DEFINE c == sock[tx[t].fd]
             p == [task |-> t, no |-> frames[t], part |-> tx[t].part + 1]
  <2>1. /\ c \in Conns
        /\ p \in Piece
        /\ out[c] \in Seq(Piece)
        /\ out'[c] = Append(out[c], p)
        /\ \A m \in Conns : m # c => out'[m] = out[m]
    BY <1>1, <1>3, PieceAppended
  <2>2. CASE n # c
    BY <1>1, <1>3, <2>1, <2>2 DEF FramesWhole
  <2>3. CASE n = c /\ k # Len(out'[n])
    <3>1. k \in 2 .. Len(out[n]) /\ out'[n][k] = out[n][k] /\ out'[n][k - 1] = out[n][k - 1]
      <4> HIDE DEF p, c
      <4>1. Len(out'[n]) = Len(out[n]) + 1 /\ Len(out[n]) \in Nat
        BY <2>1, <2>3, Appended
      <4>2. k \in 2 .. Len(out[n])
        BY <4>1, <2>3, <1>3
      <4> QED
        BY <2>1, <2>3, <4>2, Appended
    <3> QED
      BY <1>1, <1>3, <3>1 DEF FramesWhole
  <2>4. CASE n = c /\ k = Len(out'[n])
    <3>1. /\ out'[n][k] = p /\ out'[n][k - 1] = out[n][Len(out[n])]
          /\ out[n] # <<>>
      <4> HIDE DEF p, c
      <4>1. Len(out'[n]) = Len(out[n]) + 1 /\ Len(out[n]) \in Nat
        BY <2>1, <2>4, Appended
      <4>2. k - 1 = Len(out[n]) /\ Len(out[n]) \in 1 .. Len(out[n])
        BY <4>1, <2>4, <1>3
      <4>3. out'[n][k] = p /\ out'[n][k - 1] = out[n][Len(out[n])]
        BY <2>1, <2>4, <4>1, <4>2, Appended
      <4> QED
        BY <4>2, <4>3, EmptyHasNone
    <3>2. tx[t].part \in Nat /\ tx[t].part > 0
      <4>1. p.part = tx[t].part + 1 /\ p.part > 1
        BY <1>3, <3>1
      <4>2. tx[t].part \in 0 .. Parts - 1
        BY <1>1 DEF TypeOK, SendType
      <4> QED
        BY <4>1, <4>2, ConstantsAssumption
    <3>3. out[n][Len(out[n])] = [task |-> t, no |-> frames[t], part |-> tx[t].part]
      <4>1. tx[t].at = "write"
        BY <1>3 DEF SendPiece
      <4> QED
        BY <1>1, <2>4, <3>1, <3>2, <4>1 DEF Continues
    <3>4. [p EXCEPT !.part = @ - 1] = [task |-> t, no |-> frames[t], part |-> tx[t].part]
      BY <3>2
    <3> QED
      BY <3>1, <3>3, <3>4
  <2> QED
    BY <2>2, <2>3, <2>4
<1>4. PeerConnects \/ Accept \/ SetClient \/ RxDrop => UNCHANGED out
  BY DEF PeerConnects, Accept, SetClient, RxDrop, sendVars
<1> QED
  BY <1>2, <1>3, <1>4, WireChanges DEF FramesWhole

-----------------------------------------------------------------------------
(***************************************************************************)
(* Theorems.                                                               *)
(***************************************************************************)

\* The transport keeps its inductive invariant.
THEOREM Invariance == Spec => []IInv
<1>1. IInv /\ [Next]_vars => IInv'
  <2> SUFFICES ASSUME IInv, [Next]_vars PROVE IInv'
    OBVIOUS
  <2>1. TypeOK /\ NoSocketLeak /\ HoldsFd /\ MutexIsHeld /\ NewIsEmpty
    BY DEF IInv
  <2>2. TypeOK'
    <3>1. UNCHANGED vars => TypeOK'
      BY <2>1 DEF vars, peerVars, sockVars, sendVars, TypeOK, SocketType, SendType
    <3> QED
      BY <2>1, <3>1, SocketTypes, SendTypes DEF Next
  <2> QED
    BY <2>1, <2>2, StepKeepsSockets, StepKeepsFds, StepKeepsMutex, StepKeepsNew, StepContinues,
       StepKeepsFrames DEF IInv
<1> QED
  BY InitIInv, <1>1, PTL DEF Spec

\* The transport's variables keep their types.
THEOREM TypeCorrect == Spec => []TypeOK
<1>1. IInv => TypeOK
  BY DEF IInv
<1> QED
  BY Invariance, <1>1, PTL

\* However accepting and receiving interleave, every open socket is the
\* client's or on its way to become it: close_client and the hand-over in
\* accept_task leak none.
THEOREM SocketsAccountedFor == Spec => []NoSocketLeak
<1>1. IInv => NoSocketLeak
  BY DEF IInv
<1> QED
  BY Invariance, <1>1, PTL

\* However frame_send's callers, accepts and closes interleave, frames never
\* mix on a connection, and only its first bytes can be a frame's tail.
THEOREM FramesStayWhole == Spec => []FramesWhole
<1>1. IInv => FramesWhole
  BY DEF IInv
<1> QED
  BY Invariance, <1>1, PTL
=============================================================================
