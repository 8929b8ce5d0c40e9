----------------------------- MODULE PartsProofs -----------------------------
(***************************************************************************)
(* The small components, one after the other: the start of a border        *)
(* router, its keepalive and its change detector.                          *)
(***************************************************************************)
EXTENDS Boot, Keepalive, ChangeDetector, TLAPS

-----------------------------------------------------------------------------
(***************************************************************************)
(* The start: eth_w5500_init undoes what it did, whichever step fails.     *)
(***************************************************************************)

\* What is held before step k.
Held(k) == {EthSteps[i] : i \in 1 .. k - 1} \ {"attach", "lease"}

\* A list that releases each of S once, and before what it needs.
Releases(S, q) ==
  /\ q \in Seq(S)
  /\ \A r \in S : \E i \in 1 .. Len(q) : q[i] = r
  /\ \A i, j \in 1 .. Len(q) : q[i] = q[j] => i = j
  /\ \A i \in 1 .. Len(q) : \A r \in Needs[q[i]] : \E j \in i + 1 .. Len(q) : q[j] = r

BootIInv ==
  /\ at = "eth" => step \in 1 .. 13 /\ held = Held(step)
  /\ at = "undo" => step \in 1 .. 13 /\ Releases(held, undo)
  /\ at \notin {"eth", "undo"} => held \in {{}, Held(13)}

\* A list stays one of releases when something nothing in it needs comes
\* first.
LEMMA Pushed ==
  ASSUME NEW S, NEW q, Releases(S, q),
         NEW r, r \notin S, Needs[r] \subseteq S
  PROVE  Releases(S \cup {r}, <<r>> \o q)
<1> DEFINE p == <<r>> \o q
           T == S \cup {r}
<1>1. /\ q \in Seq(S)
      /\ \A s \in S : \E i \in 1 .. Len(q) : q[i] = s
      /\ \A i, j \in 1 .. Len(q) : q[i] = q[j] => i = j
      /\ \A i \in 1 .. Len(q) : \A s \in Needs[q[i]] : \E j \in i + 1 .. Len(q) : q[j] = s
  BY DEF Releases
<1>2. q \in Seq(T) /\ <<r>> \in Seq(T)
  BY <1>1
<1>3. /\ p \in Seq(T) /\ Len(p) = Len(q) + 1 /\ Len(q) \in Nat
      /\ p[1] = r /\ \A i \in 1 .. Len(q) : p[i + 1] = q[i] /\ q[i] \in S /\ i + 1 \in 1 .. Len(p)
  BY <1>1, <1>2
<1> HIDE DEF p
<1>4. \A i \in 1 .. Len(p) : i # 1 => i - 1 \in 1 .. Len(q) /\ p[i] = q[i - 1] /\ p[i] \in S
  <2> SUFFICES ASSUME NEW i \in 1 .. Len(p), i # 1
               PROVE  i - 1 \in 1 .. Len(q) /\ p[i] = q[i - 1] /\ p[i] \in S
    OBVIOUS
  <2>1. i - 1 \in 1 .. Len(q) /\ (i - 1) + 1 = i
    BY <1>3
  <2> QED
    BY <1>3, <2>1
<1>5. ASSUME NEW s \in T PROVE \E i \in 1 .. Len(p) : p[i] = s
  <2>1. CASE s = r
    BY <1>3, <2>1
  <2>2. CASE s # r
    <3>1. PICK i \in 1 .. Len(q) : q[i] = s
      BY <1>1, <2>2
    <3> QED
      BY <1>3, <3>1
  <2> QED
    BY <2>1, <2>2
<1>6. ASSUME NEW i \in 1 .. Len(p), NEW j \in 1 .. Len(p), p[i] = p[j] PROVE i = j
  <2>1. CASE i = 1 \/ j = 1
    BY <1>3, <1>4, <1>6, <2>1
  <2>2. CASE i # 1 /\ j # 1
    <3>1. i - 1 \in 1 .. Len(q) /\ j - 1 \in 1 .. Len(q) /\ q[i - 1] = q[j - 1]
      BY <1>4, <1>6, <2>2
    <3>2. i - 1 = j - 1
      BY <1>1, <3>1
    <3> QED
      BY <3>2
  <2> QED
    BY <2>1, <2>2
<1>7. ASSUME NEW i \in 1 .. Len(p), NEW s \in Needs[p[i]]
      PROVE  \E j \in i + 1 .. Len(p) : p[j] = s
  <2>1. CASE i = 1
    <3>1. PICK j \in 1 .. Len(q) : q[j] = s
      BY <1>1, <1>3, <1>7, <2>1
    <3> QED
      BY <1>3, <2>1, <3>1
  <2>2. CASE i # 1
    <3>1. i - 1 \in 1 .. Len(q) /\ p[i] = q[i - 1]
      BY <1>4, <2>2
    <3>2. PICK j \in (i - 1) + 1 .. Len(q) : q[j] = s
      BY <1>1, <1>7, <3>1
    <3>3. j \in 1 .. Len(q) /\ j + 1 \in i + 1 .. Len(p)
      BY <1>3, <3>1, <3>2
    <3> QED
      BY <1>3, <3>2, <3>3
  <2> QED
    BY <2>1, <2>2
<1> QED
  BY <1>3, <1>5, <1>6, <1>7 DEF Releases, p

\* A release takes the head off the list and out of what is held.
LEMMA Popped ==
  ASSUME NEW S, NEW q, Releases(S, q), q # <<>>
  PROVE  /\ Releases(S \ {Head(q)}, Tail(q))
         /\ Head(q) \in S
<1> DEFINE p == Tail(q)
           T == S \ {Head(q)}
<1>1. /\ q \in Seq(S)
      /\ \A s \in S : \E i \in 1 .. Len(q) : q[i] = s
      /\ \A i, j \in 1 .. Len(q) : q[i] = q[j] => i = j
      /\ \A i \in 1 .. Len(q) : \A s \in Needs[q[i]] : \E j \in i + 1 .. Len(q) : q[j] = s
  BY DEF Releases
<1>2. /\ p \in Seq(S) /\ Len(p) = Len(q) - 1 /\ Len(q) \in Nat \ {0}
      /\ Head(q) = q[1] /\ q[1] \in S /\ \A i \in 1 .. Len(p) : p[i] = q[i + 1] /\ i + 1 \in 1 .. Len(q)
  BY <1>1
<1> HIDE DEF p
<1>a. ASSUME NEW i \in 1 .. Len(p)
      PROVE  p[i] = q[i + 1] /\ i + 1 \in 1 .. Len(q) /\ i + 1 # 1 /\ 1 \in 1 .. Len(q)
  BY <1>2
<1>3. ASSUME NEW i \in 1 .. Len(p) PROVE p[i] \in T
  <2>1. q[i + 1] # q[1]
    BY <1>1, <1>a
  <2>2. q[i + 1] \in S
    BY <1>1, <1>a
  <2> QED
    BY <1>2, <1>a, <2>1, <2>2
<1>4. p \in Seq(T)
  BY <1>2, <1>3
<1>5. ASSUME NEW j \in 2 .. Len(q) PROVE j - 1 \in 1 .. Len(p) /\ p[j - 1] = q[j]
  <2>1. j - 1 \in 1 .. Len(p) /\ (j - 1) + 1 = j
    BY <1>2
  <2> QED
    BY <1>2, <2>1
<1>6. ASSUME NEW s \in T PROVE \E i \in 1 .. Len(p) : p[i] = s
  <2>1. PICK j \in 1 .. Len(q) : q[j] = s
    BY <1>1
  <2>2. j \in 2 .. Len(q)
    BY <1>2, <2>1
  <2> QED
    BY <1>5, <2>1, <2>2
<1>7. ASSUME NEW i \in 1 .. Len(p), NEW j \in 1 .. Len(p), p[i] = p[j] PROVE i = j
  <2>1. q[i + 1] = q[j + 1]
    BY <1>7, <1>a
  <2>2. i + 1 = j + 1
    BY <1>1, <1>a, <2>1
  <2> QED
    BY <2>2
<1>8. ASSUME NEW i \in 1 .. Len(p), NEW s \in Needs[p[i]]
      PROVE  \E j \in i + 1 .. Len(p) : p[j] = s
  <2>0. s \in Needs[q[i + 1]] /\ i + 1 \in 1 .. Len(q)
    BY <1>8, <1>a
  <2>1. PICK j \in (i + 1) + 1 .. Len(q) : q[j] = s
    BY <1>1, <2>0
  <2>2. j \in 2 .. Len(q) /\ j - 1 \in i + 1 .. Len(p)
    BY <1>2, <2>1
  <2> QED
    BY <1>5, <2>1, <2>2
<1> QED
  BY <1>2, <1>4, <1>6, <1>7, <1>8 DEF Releases, p

\* Each step but "attach" and "lease" adds what it acquires.
LEMMA HeldGrows ==
  /\ Held(1) = {}
  /\ \A k \in 1 .. 13 : Held(k + 1) = Held(k) \cup ({EthSteps[k]} \ {"attach", "lease"})
<1>1. Held(1) = {}
  BY DEF Held
<1>2. ASSUME NEW k \in 1 .. 13
      PROVE  Held(k + 1) = Held(k) \cup ({EthSteps[k]} \ {"attach", "lease"})
  <2>1. 1 .. (k + 1) - 1 = (1 .. k - 1) \cup {k}
    OBVIOUS
  <2> QED
    BY <2>1 DEF Held
<1> QED
  BY <1>1, <1>2

\* The steps and what they need, and the lists: each is the one before, with
\* the release of what was just acquired in front.
LEMMA StepNames ==
  /\ EthSteps[1] = "group"
  /\ EthSteps[2] = "spi"
  /\ EthSteps[3] = "mac"
  /\ EthSteps[4] = "phy"
  /\ EthSteps[5] = "driver"
  /\ EthSteps[6] = "netif"
  /\ EthSteps[7] = "glue"
  /\ EthSteps[8] = "attach"
  /\ EthSteps[9] = "onEth"
  /\ EthSteps[10] = "onIp"
  /\ EthSteps[11] = "onIp6"
  /\ EthSteps[12] = "start"
  /\ EthSteps[13] = "lease"
BY DEF EthSteps

\* Likewise.
LEMMA UndoLists ==
  /\ Undo.group = <<>>
  /\ Undo.spi = <<"group">> \o Undo.group
  /\ Undo.mac = <<"spi">> \o Undo.spi
  /\ Undo.phy = <<"mac">> \o Undo.mac
  /\ Undo.driver = <<"phy">> \o Undo.phy
  /\ Undo.netif = <<"driver">> \o Undo.driver
  /\ Undo.glue = <<"netif">> \o Undo.netif
  /\ Undo.attach = <<"glue">> \o Undo.glue
  /\ Undo.onEth = Undo.attach
  /\ Undo.onIp = <<"onEth">> \o Undo.onEth
  /\ Undo.onIp6 = <<"onIp">> \o Undo.onIp
  /\ Undo.start = <<"onIp6">> \o Undo.onIp6
  /\ Undo.lease = <<"start">> \o Undo.start
BY DEF Undo, Attached

\* The list of each failed step releases what was acquired before it.
LEMMA UndoReleases ==
  ASSUME NEW k \in 1 .. 13
  PROVE  Releases(Held(k), Undo[EthSteps[k]])
<1>1. Releases(Held(1), Undo.group) /\ Held(1) = {}
  <2>1. Len(<<>>) = 0 /\ <<>> \in Seq({})
    OBVIOUS
  <2>2. Releases({}, <<>>)
    BY <2>1 DEF Releases
  <2> QED
    BY <2>2, HeldGrows, UndoLists
<1>2. Releases(Held(2), Undo.spi) /\ Held(2) = {"group"}
  <2>1. Held(2) = Held(1) \cup {"group"}
    BY StepNames, HeldGrows
  <2>2. "group" \notin Held(1) /\ Needs["group"] \subseteq Held(1)
    BY <1>1 DEF Needs
  <2>3. Releases(Held(2), Undo.spi)
    <3>1. Undo.spi = <<"group">> \o Undo.group /\ Releases(Held(1), Undo.group)
      BY <1>1, UndoLists
    <3> QED
      BY <2>1, <2>2, <3>1, Pushed
  <2> QED
    BY <1>1, <2>1, <2>3
<1>3. Releases(Held(3), Undo.mac) /\ Held(3) = {"group", "spi"}
  <2>1. Held(3) = Held(2) \cup {"spi"}
    BY StepNames, HeldGrows
  <2>2. "spi" \notin Held(2) /\ Needs["spi"] \subseteq Held(2)
    BY <1>2 DEF Needs
  <2>3. Releases(Held(3), Undo.mac)
    BY <1>2, <2>1, <2>2, UndoLists, Pushed
  <2> QED
    BY <1>2, <2>1, <2>3
<1>4. Releases(Held(4), Undo.phy) /\ Held(4) = {"group", "spi", "mac"}
  <2>1. Held(4) = Held(3) \cup {"mac"}
    BY StepNames, HeldGrows
  <2>2. "mac" \notin Held(3) /\ Needs["mac"] \subseteq Held(3)
    BY <1>3 DEF Needs
  <2>3. Releases(Held(4), Undo.phy)
    BY <1>3, <2>1, <2>2, UndoLists, Pushed
  <2> QED
    BY <1>3, <2>1, <2>3
<1>5. Releases(Held(5), Undo.driver) /\ Held(5) = {"group", "spi", "mac", "phy"}
  <2>1. Held(5) = Held(4) \cup {"phy"}
    BY StepNames, HeldGrows
  <2>2. "phy" \notin Held(4) /\ Needs["phy"] \subseteq Held(4)
    BY <1>4 DEF Needs
  <2>3. Releases(Held(5), Undo.driver)
    BY <1>4, <2>1, <2>2, UndoLists, Pushed
  <2> QED
    BY <1>4, <2>1, <2>3
<1>6. Releases(Held(6), Undo.netif) /\ Held(6) = {"group", "spi", "mac", "phy", "driver"}
  <2>1. Held(6) = Held(5) \cup {"driver"}
    BY StepNames, HeldGrows
  <2>2. "driver" \notin Held(5) /\ Needs["driver"] \subseteq Held(5)
    BY <1>5 DEF Needs
  <2>3. Releases(Held(6), Undo.netif)
    BY <1>5, <2>1, <2>2, UndoLists, Pushed
  <2> QED
    BY <1>5, <2>1, <2>3
<1>7. Releases(Held(7), Undo.glue) /\ Held(7) = {"group", "spi", "mac", "phy", "driver", "netif"}
  <2>1. Held(7) = Held(6) \cup {"netif"}
    BY StepNames, HeldGrows
  <2>2. "netif" \notin Held(6) /\ Needs["netif"] \subseteq Held(6)
    BY <1>6 DEF Needs
  <2>3. Releases(Held(7), Undo.glue)
    BY <1>6, <2>1, <2>2, UndoLists, Pushed
  <2> QED
    BY <1>6, <2>1, <2>3
<1>8. Releases(Held(8), Undo.attach) /\ Held(8) = {"group", "spi", "mac", "phy", "driver", "netif", "glue"}
  <2>1. Held(8) = Held(7) \cup {"glue"}
    BY StepNames, HeldGrows
  <2>2. "glue" \notin Held(7) /\ Needs["glue"] \subseteq Held(7)
    BY <1>7 DEF Needs
  <2>3. Releases(Held(8), Undo.attach)
    BY <1>7, <2>1, <2>2, UndoLists, Pushed
  <2> QED
    BY <1>7, <2>1, <2>3
<1>9. Releases(Held(9), Undo.onEth) /\ Held(9) = {"group", "spi", "mac", "phy", "driver", "netif", "glue"}
  <2>1. Held(9) = Held(8)
    BY StepNames, HeldGrows
  <2> QED
    BY <1>8, <2>1, UndoLists
<1>10. Releases(Held(10), Undo.onIp) /\ Held(10) = {"group", "spi", "mac", "phy", "driver", "netif", "glue", "onEth"}
  <2>1. Held(10) = Held(9) \cup {"onEth"}
    BY StepNames, HeldGrows
  <2>2. "onEth" \notin Held(9) /\ Needs["onEth"] \subseteq Held(9)
    BY <1>9 DEF Needs
  <2>3. Releases(Held(10), Undo.onIp)
    BY <1>9, <2>1, <2>2, UndoLists, Pushed
  <2> QED
    BY <1>9, <2>1, <2>3
<1>11. Releases(Held(11), Undo.onIp6) /\ Held(11) = {"group", "spi", "mac", "phy", "driver", "netif", "glue", "onEth", "onIp"}
  <2>1. Held(11) = Held(10) \cup {"onIp"}
    BY StepNames, HeldGrows
  <2>2. "onIp" \notin Held(10) /\ Needs["onIp"] \subseteq Held(10)
    BY <1>10 DEF Needs
  <2>3. Releases(Held(11), Undo.onIp6)
    BY <1>10, <2>1, <2>2, UndoLists, Pushed
  <2> QED
    BY <1>10, <2>1, <2>3
<1>12. Releases(Held(12), Undo.start) /\ Held(12) = {"group", "spi", "mac", "phy", "driver", "netif", "glue", "onEth", "onIp", "onIp6"}
  <2>1. Held(12) = Held(11) \cup {"onIp6"}
    BY StepNames, HeldGrows
  <2>2. "onIp6" \notin Held(11) /\ Needs["onIp6"] \subseteq Held(11)
    BY <1>11 DEF Needs
  <2>3. Releases(Held(12), Undo.start)
    BY <1>11, <2>1, <2>2, UndoLists, Pushed
  <2> QED
    BY <1>11, <2>1, <2>3
<1>13. Releases(Held(13), Undo.lease) /\ Held(13) = {"group", "spi", "mac", "phy", "driver", "netif", "glue", "onEth", "onIp", "onIp6", "start"}
  <2>1. Held(13) = Held(12) \cup {"start"}
    BY StepNames, HeldGrows
  <2>2. "start" \notin Held(12) /\ Needs["start"] \subseteq Held(12)
    BY <1>12 DEF Needs
  <2>3. Releases(Held(13), Undo.lease)
    BY <1>12, <2>1, <2>2, UndoLists, Pushed
  <2> QED
    BY <1>12, <2>1, <2>3
<1> QED
  BY <1>1, <1>2, <1>3, <1>4, <1>5, <1>6, <1>7, <1>8, <1>9, <1>10, <1>11, <1>12, <1>13, StepNames

\* The initial state satisfies the inductive invariant.
LEMMA InitBootIInv == BootInit => BootIInv
BY HeldGrows DEF BootInit, BootIInv

\* Every step preserves it: a step that is done adds what it acquired, one
\* that fails starts its list, and a release takes the head of the list.
LEMMA NextBootIInv == BootIInv /\ [BootNext]_bootVars => BootIInv'
<1> SUFFICES ASSUME BootIInv, [BootNext]_bootVars PROVE BootIInv'
  OBVIOUS
<1> USE DEF BootIInv
<1>1. CASE EthDone
  <2>1. step \in 1 .. 13 /\ held' = Held(step + 1)
    BY <1>1, HeldGrows DEF EthDone
  <2>2. CASE EthSteps[step] = "lease"
    <3>1. step = 13 /\ held = Held(step)
      <4>1. step \in 1 .. 13 /\ held = Held(step)
        BY <1>1 DEF EthDone
      <4>2. \A i \in 1 .. 12 : EthSteps[i] # "lease"
        BY StepNames
      <4> QED
        BY <2>2, <4>1, <4>2
    <3>2. held' = held
      BY <1>1, <2>2 DEF EthDone
    <3> QED
      BY <1>1, <2>2, <3>1, <3>2 DEF EthDone
  <2>3. CASE EthSteps[step] # "lease"
    <3>1. step # 13
      BY <2>3, StepNames
    <3> QED
      BY <1>1, <2>1, <2>3, <3>1 DEF EthDone
  <2> QED
    BY <2>2, <2>3
<1>2. CASE EthFails
  BY <1>2, UndoReleases DEF EthFails
<1>3. CASE Release
  BY <1>3, Popped DEF Release
<1>4. CASE EthReturns
  <2>1. held = {}
    <3>1. Releases(held, <<>>)
      BY <1>4 DEF EthReturns
    <3>2. Len(<<>>) = 0
      OBVIOUS
    <3> QED
      BY <3>1, <3>2 DEF Releases
  <2> QED
    BY <1>4, <2>1 DEF EthReturns
<1>5. CASE MainDone \/ MainFails \/ WatchdogRestarts
  <2>1. at \in {"main", "up"} /\ at' \in {"main", "up", "dead", "off"} /\ held' = held
    BY <1>5 DEF MainDone, MainFails, MainGoesOn, WatchdogRestarts
  <2> QED
    BY <2>1
<1>6. CASE Restart
  BY <1>6, HeldGrows DEF Restart
<1>7. CASE UNCHANGED bootVars
  BY <1>7 DEF bootVars
<1> QED
  BY <1>1, <1>2, <1>3, <1>4, <1>5, <1>6, <1>7 DEF BootNext

\* What a list releases needs nothing that is not on it.
LEMMA ListIsClosed ==
  ASSUME NEW S, NEW q, Releases(S, q)
  PROVE  \A r \in S : Needs[r] \subseteq S
<1> SUFFICES ASSUME NEW r \in S, NEW s \in Needs[r] PROVE s \in S
  OBVIOUS
<1>1. PICK i \in 1 .. Len(q) : q[i] = r
  BY DEF Releases
<1>2. PICK j \in i + 1 .. Len(q) : q[j] = s
  BY <1>1 DEF Releases
<1>3. q \in Seq(S) /\ j \in 1 .. Len(q)
  BY <1>1, <1>2 DEF Releases
<1> QED
  BY <1>2, <1>3

\* Whichever step of eth_w5500_init fails, what was acquired is released
\* once, in an order in which nothing goes before what still uses it, and
\* all of it (UnwoundInOrder).
THEOREM UnwindingIsOrderly == BootSpec => []UnwoundInOrder
<1>1. BootIInv => UnwoundInOrder
  <2> SUFFICES ASSUME BootIInv PROVE UnwoundInOrder
    OBVIOUS
  <2>1. \A r \in held : Needs[r] \subseteq held
    <3>1. CASE at = "eth" \/ (at \notin {"eth", "undo"} /\ held = Held(13))
      <4>1. PICK k \in 1 .. 13 : held = Held(k)
        BY <3>1 DEF BootIInv
      <4> QED
        BY <4>1, UndoReleases, ListIsClosed
    <3>2. CASE at = "undo"
      BY <3>2, ListIsClosed DEF BootIInv
    <3>3. CASE held = {}
      BY <3>3
    <3> QED
      BY <3>1, <3>2, <3>3 DEF BootIInv
  <2>2. ASSUME at = "undo", undo # <<>> PROVE Head(undo) \in held
    BY <2>2, Popped DEF BootIInv
  <2>3. ASSUME at = "undo", undo = <<>> PROVE held = {}
    <3>1. Releases(held, <<>>) /\ Len(<<>>) = 0
      BY <2>3 DEF BootIInv
    <3> QED
      BY <3>1 DEF Releases
  <2> QED
    BY <2>1, <2>2, <2>3 DEF UnwoundInOrder
<1> QED
  BY InitBootIInv, NextBootIInv, <1>1, PTL DEF BootSpec

-----------------------------------------------------------------------------
(***************************************************************************)
(* The keepalive: a border router that answers is not restarted, for any   *)
(* timeouts and any number of silent border routers that FewSilent allows. *)
(***************************************************************************)

PollIInv == FewSilent => PollTypeOK /\ GapIsBounded /\ miss < MaxMiss

\* A product of numbers is a number, and one more factor adds one more term.
LEMMA OneMore ==
  ASSUME NEW n \in Nat, NEW k \in Nat
  PROVE  n * k \in Nat /\ (n + 1) * k = n * k + k
OBVIOUS

\* A sum of visits takes the sum of their times.
LEMMA SumOfVisits ==
  ASSUME NEW m \in Nat, NEW n \in Nat, NEW k \in Nat
  PROVE  (m + n) * k = m * k + n * k
OBVIOUS

\* A larger number of intervals takes no less time.
LEMMA Monotone ==
  ASSUME NEW m \in Nat, NEW n \in Nat, NEW k \in Nat, m <= n
  PROVE  m * k <= n * k
<1>1. PICK d \in Nat : n = m + d
  <2>1. n - m \in Nat /\ n = m + (n - m)
    OBVIOUS
  <2> QED
    BY <2>1
<1>2. n * k = m * k + d * k
  BY <1>1, SumOfVisits
<1>3. d * k \in Nat /\ m * k \in Nat
  BY OneMore
<1> QED
  BY <1>2, <1>3

\* The times of the gap are numbers.
LEMMA Times ==
  ASSUME FewSilent
  PROVE  /\ Visit \in Nat /\ Before * Visit \in Nat /\ After * Visit \in Nat
         /\ Poll \in Nat \ {0} /\ Interval \in Nat \ {0} /\ MaxMiss \in Nat \ {0}
         /\ LongestGap = Poll + Before * Visit + After * Visit
         /\ MaxMiss * Interval \in Nat
         /\ LongestGap < MaxMiss * Interval
<1>1. /\ Before \in Nat /\ After \in Nat /\ Timeout \in Nat
      /\ Poll \in Nat \ {0} /\ Interval \in Nat \ {0} /\ MaxMiss \in Nat \ {0}
      /\ LongestGap < MaxMiss * Interval
  BY DEF FewSilent
<1>2. Visit \in Nat
  BY <1>1 DEF Visit
<1>3. Before * Visit \in Nat /\ After * Visit \in Nat /\ MaxMiss * Interval \in Nat
  BY <1>1, <1>2, OneMore
<1>4. (Before + After) * Visit = Before * Visit + After * Visit
  BY <1>1, <1>2, SumOfVisits
<1>5. LongestGap = Poll + (Before + After) * Visit
  BY DEF LongestGap
<1> QED
  BY <1>1, <1>2, <1>3, <1>4, <1>5

\* The initial state satisfies the inductive invariant.
LEMMA InitPollIInv == PollInit => PollIInv
<1> SUFFICES ASSUME PollInit, FewSilent PROVE PollTypeOK /\ GapIsBounded /\ miss < MaxMiss
  BY DEF PollIInv
<1>c. Visit \in Nat /\ Poll \in Nat \ {0} /\ Interval \in Nat \ {0}
  BY Times
<1>b. ticked \in BOOLEAN /\ received \in BOOLEAN
  BY DEF PollInit
<1>1. PollTypeOK
  BY <1>b, <1>c DEF PollInit, PollTypeOK
<1>2. 0 * Visit = 0
  BY Times
<1>3. SinceVisit = 0 /\ ToVisit = Before * Visit + tickIn
  BY <1>2, Times DEF PollInit, SinceVisit, ToVisit
<1>4. GapIsBounded
  BY <1>1, <1>3, Times DEF GapIsBounded, PollTypeOK
<1> QED
  BY <1>1, <1>4, Times DEF PollInit

\* Every step preserves the inductive invariant.
LEMMA NextPollIInv == PollIInv /\ [PollNext]_pollVars => PollIInv'
<1> SUFFICES ASSUME FewSilent, PollTypeOK, GapIsBounded, miss < MaxMiss, [PollNext]_pollVars
             PROVE  PollTypeOK' /\ GapIsBounded' /\ (miss < MaxMiss)'
  BY DEF PollIInv, FewSilent, LongestGap
<1>t. /\ Visit \in Nat /\ Before * Visit \in Nat /\ After * Visit \in Nat
      /\ Poll \in Nat \ {0} /\ Interval \in Nat \ {0} /\ MaxMiss \in Nat \ {0}
      /\ LongestGap = Poll + Before * Visit + After * Visit
  BY Times
<1>c. Visit \in Nat /\ Poll \in Nat \ {0} /\ Interval \in Nat \ {0}
  BY <1>t
<1>v. /\ visits \in Nat /\ busy \in 0 .. Visit /\ tickIn \in 0 .. Poll
      /\ watchIn \in 0 .. Interval /\ miss \in Nat /\ ticked \in BOOLEAN /\ received \in BOOLEAN
      /\ loop \in {"wait", "before", "after"}
  BY DEF PollTypeOK
<1>p. visits * Visit \in Nat /\ miss * Interval \in Nat
  BY <1>t, <1>v, OneMore
<1>g. SinceVisit + ToVisit <= LongestGap
  BY DEF GapIsBounded
<1>n. SinceVisit \in Nat /\ ToVisit \in Nat
  BY <1>t, <1>v, <1>p DEF SinceVisit, ToVisit
<1>1. CASE Second
  <2>1. visits' * Visit = visits * Visit /\ miss' * Interval = miss * Interval
    BY <1>1 DEF Second
  <2>2. PollTypeOK'
    BY <1>1, <1>t, <1>v DEF Second, PollTypeOK
  <2>3. SinceVisit' <= SinceVisit + 1 /\ SinceVisit' \in Nat
    BY <1>1, <1>t, <1>v, <1>p, <2>1 DEF Second, SinceVisit
  <2>4. ToVisit' <= ToVisit - 1 /\ ToVisit' \in Nat
    BY <1>1, <1>t, <1>v, <1>p, <2>1 DEF Second, ToVisit
  <2> QED
    BY <1>1, <1>t, <1>g, <1>n, <2>2, <2>3, <2>4 DEF Second, GapIsBounded, LongestGap
<1>2. CASE Tick
  <2>1. visits' * Visit = visits * Visit /\ miss' * Interval = miss * Interval
    BY <1>2 DEF Tick, loopVars, watchVars
  <2>2. PollTypeOK'
    BY <1>2, <1>t, <1>v DEF Tick, PollTypeOK, loopVars, watchVars
  <2>3. SinceVisit' = SinceVisit
    BY <1>2, <2>1 DEF Tick, SinceVisit, watchVars
  <2>4. ToVisit' = ToVisit
    BY <1>2, <1>t, <1>v, <1>p, <2>1 DEF Tick, ToVisit, loopVars
  <2> QED
    BY <1>2, <1>g, <2>2, <2>3, <2>4 DEF Tick, GapIsBounded, LongestGap, watchVars
<1>3. CASE RoundStarts
  <2>1. miss' * Interval = miss * Interval
    BY <1>3 DEF RoundStarts, watchVars
  <2>2. PollTypeOK'
    BY <1>3, <1>t, <1>v DEF RoundStarts, PollTypeOK, watchVars, FewSilent
  <2>3. SinceVisit' = SinceVisit
    BY <1>3, <2>1 DEF RoundStarts, SinceVisit, watchVars
  <2>4. ToVisit' <= ToVisit /\ ToVisit' \in Nat
    BY <1>3, <1>t, <1>v, <1>p DEF RoundStarts, ToVisit
  <2> QED
    BY <1>3, <1>t, <1>g, <1>n, <2>2, <2>3, <2>4 DEF RoundStarts, GapIsBounded, LongestGap, watchVars
<1>4. CASE VisitSilent
  <2>1. /\ visits' \in Nat /\ visits = visits' + 1
        /\ busy = 0 /\ busy' \in 0 .. Visit
    BY <1>4, <1>v DEF VisitSilent
  <2>2. visits * Visit = visits' * Visit + Visit /\ visits' * Visit \in Nat
    BY <1>t, <2>1, OneMore
  <2>3. PollTypeOK'
    BY <1>4, <1>t, <1>v, <2>1 DEF VisitSilent, PollTypeOK, timerVars, watchVars
  <2>4. SinceVisit' = SinceVisit
    BY <1>4 DEF VisitSilent, SinceVisit, watchVars
  <2>5. ToVisit' <= ToVisit /\ ToVisit' \in Nat
    BY <1>4, <1>t, <1>v, <2>1, <2>2 DEF VisitSilent, ToVisit, timerVars
  <2> QED
    BY <1>4, <1>t, <1>g, <1>n, <2>3, <2>4, <2>5 DEF VisitSilent, GapIsBounded, LongestGap, watchVars
<1>5. CASE VisitThis
  <2>1. PollTypeOK'
    BY <1>5, <1>t, <1>v DEF VisitThis, PollTypeOK, timerVars, FewSilent
  <2>2. SinceVisit' = 0
    BY <1>5 DEF VisitThis, SinceVisit
  <2>3. ToVisit' <= Poll + Before * Visit + After * Visit /\ ToVisit' \in Nat
    BY <1>5, <1>t, <1>v DEF VisitThis, ToVisit, timerVars
  <2> QED
    BY <1>5, <1>t, <2>1, <2>2, <2>3 DEF VisitThis, GapIsBounded, LongestGap
<1>6. CASE RoundEnds
  <2>1. PollTypeOK'
    BY <1>6, <1>t, <1>v DEF RoundEnds, PollTypeOK, timerVars, watchVars
  <2>2. SinceVisit' = SinceVisit /\ ToVisit' = ToVisit
    BY <1>6 DEF RoundEnds, SinceVisit, ToVisit, timerVars, watchVars
  <2> QED
    BY <1>6, <1>g, <2>1, <2>2 DEF RoundEnds, GapIsBounded, LongestGap, watchVars
<1>7. CASE Watch
  <2>1. ToVisit' = ToVisit
    BY <1>7 DEF Watch, ToVisit, loopVars, timerVars
  <2>2. CASE received
    <3>1. miss' = 0 /\ received' = FALSE /\ watchIn' = Interval
      BY <1>7, <2>2 DEF Watch
    <3>2. SinceVisit' = 0
      BY <1>t, <3>1 DEF SinceVisit
    <3>3. PollTypeOK'
      <4>1. received' \in BOOLEAN
        BY <3>1
      <4> QED
        BY <1>7, <1>c, <1>v, <3>1, <4>1 DEF Watch, PollTypeOK, loopVars, timerVars
    <3> QED
      BY <1>t, <1>g, <1>n, <2>1, <3>1, <3>2, <3>3 DEF GapIsBounded, LongestGap, SinceVisit
  <2>3. CASE ~ received
    <3>1. /\ miss' = miss + 1 /\ received' = FALSE /\ watchIn' = Interval /\ watchIn = 0
      BY <1>7, <2>3 DEF Watch
    <3>2. (miss + 1) * Interval = miss * Interval + Interval /\ (miss + 1) * Interval \in Nat
      BY <1>t, <1>v, OneMore
    <3>3. SinceVisit = (miss + 1) * Interval /\ SinceVisit' = (miss + 1) * Interval
      BY <1>t, <1>v, <1>p, <2>3, <3>1, <3>2 DEF SinceVisit
    <3>4. miss + 1 < MaxMiss
      <4>1. (miss + 1) * Interval < MaxMiss * Interval
        BY <1>t, <1>g, <1>n, <3>2, <3>3, Times
      <4>2. CASE MaxMiss <= miss + 1
        <5>1. MaxMiss * Interval <= (miss + 1) * Interval
          BY <1>t, <1>v, <4>2, Monotone
        <5> QED
          BY <4>1, <5>1, <3>2, Times
      <4> QED
        BY <1>t, <1>v, <4>2
    <3>5. PollTypeOK'
      <4>1. received' \in BOOLEAN
        BY <3>1
      <4> QED
        BY <1>7, <1>c, <1>v, <3>1, <4>1 DEF Watch, PollTypeOK, loopVars, timerVars
    <3> QED
      BY <1>g, <2>1, <3>1, <3>3, <3>4, <3>5 DEF GapIsBounded, LongestGap
  <2> QED
    BY <1>v, <2>2, <2>3
<1>8. CASE UNCHANGED pollVars
  BY <1>8 DEF pollVars, loopVars, timerVars, watchVars, PollTypeOK, GapIsBounded, SinceVisit, ToVisit, LongestGap
<1> QED
  BY <1>1, <1>2, <1>3, <1>4, <1>5, <1>6, <1>7, <1>8 DEF PollNext

\* A border router that answers is not restarted for want of STATE, however
\* the round, the timer and the watchdog fall (KeptAlive).
THEOREM AnsweringIsKept == PollSpec => []KeptAlive
<1>1. PollIInv => KeptAlive
  BY DEF PollIInv, KeptAlive
<1> QED
  BY InitPollIInv, NextPollIInv, <1>1, PTL DEF PollSpec

-----------------------------------------------------------------------------
(***************************************************************************)
(* The change detector, for any aspects, values and number of changes.     *)
(***************************************************************************)

\* A debounce is not started while one runs.
OneDebounce == ~ (timer /\ otAt = "start")

DetectorIInv == TypeOK /\ ArmedMeansTimer /\ OneDebounce /\ PrevIsKnown

\* The initial state satisfies the inductive invariant.
LEMMA InitDetectorIInv == Init => DetectorIInv
<1> SUFFICES ASSUME Init PROVE DetectorIInv
  OBVIOUS
<1>1. Start \in State
  BY ConstantsAssumption DEF Start, State
<1>2. TypeOK
  <2>1. changes \in 0 .. MaxChanges
    BY ConstantsAssumption DEF Init
  <2>2. {signal, armed, timer, wake, prevValid, skipped} \subseteq BOOLEAN
    BY DEF Init
  <2> QED
    BY <1>1, <2>1, <2>2 DEF Init, TypeOK
<1>3. ArmedMeansTimer /\ OneDebounce /\ PrevIsKnown
  BY DEF Init, ArmedMeansTimer, OneDebounce, PrevIsKnown
<1> QED
  BY <1>2, <1>3 DEF DetectorIInv

\* Every step keeps the types.
LEMMA StepKeepsTypes == TypeOK /\ [Next]_vars => TypeOK'
<1> SUFFICES ASSUME TypeOK, [Next]_vars PROVE TypeOK'
  OBVIOUS
<1> USE DEF TypeOK
<1>1. ASSUME NEW a \in Aspects, NEW v \in Values, Change(a, v) PROVE TypeOK'
  <2>1. world' \in State
    BY <1>1 DEF Change, State
  <2>2. changes' \in 0 .. MaxChanges
    BY <1>1, ConstantsAssumption DEF Change
  <2> QED
    BY <1>1, <2>1, <2>2 DEF Change, waitVars, diffVars
<1>2. CASE OnStateChanged
  BY <1>2 DEF OnStateChanged, diffVars
<1>3. CASE StartDebounce
  BY <1>3 DEF StartDebounce, otVars, diffVars
<1>4. CASE DebounceFires
  BY <1>4 DEF DebounceFires, otVars, diffVars
<1>5. CASE GiveNotification
  BY <1>5 DEF GiveNotification, otVars, diffVars
<1>6. CASE Wake
  BY <1>6 DEF Wake, otVars, diffVars
<1>7. CASE Snapshot
  BY <1>7 DEF Snapshot, otVars, waitVars
<1>8. CASE LockTimesOut
  BY <1>8 DEF LockTimesOut, otVars, waitVars, diffVars
<1>9. CASE Push
  <2>1. known' \in State
    BY <1>9 DEF Push, State
  <2>2. owed' \subseteq Aspects
    BY <1>9 DEF Push
  <2> QED
    BY <1>9, <2>1, <2>2 DEF Push, Advance, otVars, waitVars
<1>10. CASE PushFails
  <2>1. owed' \subseteq Aspects
    BY <1>10 DEF PushFails, Mask
  <2> QED
    BY <1>10, <2>1 DEF PushFails, Advance, otVars, waitVars
<1>11. CASE UNCHANGED vars
  BY <1>11 DEF vars, otVars, waitVars, diffVars
<1> QED
  BY <1>1, <1>2, <1>3, <1>4, <1>5, <1>6, <1>7, <1>8, <1>9, <1>10, <1>11
     DEF Next, OpenThread, TimerTask, Detector

\* The flag, the timer and the task that is about to start it change together.
LEMMA StepKeepsArmed ==
  ArmedMeansTimer /\ OneDebounce /\ [Next]_vars => (ArmedMeansTimer /\ OneDebounce)'
<1> SUFFICES ASSUME ArmedMeansTimer, OneDebounce, [Next]_vars
             PROVE  (ArmedMeansTimer /\ OneDebounce)'
  OBVIOUS
<1> USE DEF ArmedMeansTimer, OneDebounce
<1>1. CASE OnStateChanged
  BY <1>1 DEF OnStateChanged
<1>2. CASE StartDebounce
  BY <1>2 DEF StartDebounce
<1>3. CASE DebounceFires
  BY <1>3 DEF DebounceFires
<1>4. CASE UNCHANGED <<armed, timer, otAt>>
  BY <1>4
<1>5. ASSUME NEW a \in Aspects, NEW v \in Values, Change(a, v)
      PROVE  UNCHANGED <<armed, timer, otAt>>
  BY <1>5 DEF Change, waitVars
<1>6. GiveNotification \/ Detector \/ UNCHANGED vars => UNCHANGED <<armed, timer, otAt>>
  BY DEF GiveNotification, Detector, Wake, Snapshot, LockTimesOut, Push, PushFails, vars, waitVars
<1> QED
  BY <1>1, <1>2, <1>3, <1>4, <1>5, <1>6 DEF Next, OpenThread, TimerTask

\* What a snapshot is compared with agrees with the backend, sent or not.
LEMMA StepKeepsPrev == TypeOK /\ PrevIsKnown /\ [Next]_vars => PrevIsKnown'
<1> SUFFICES ASSUME TypeOK, PrevIsKnown, [Next]_vars PROVE PrevIsKnown'
  OBVIOUS
<1>1. CASE Push
  <2> SUFFICES ASSUME NEW a \in Aspects \ owed' PROVE prev'[a] = known'[a]
    BY DEF PrevIsKnown
  <2>1. prev'[a] = cur[a] /\ known'[a] = IF a \in Mask THEN cur[a] ELSE known[a]
    BY <1>1 DEF Push, Advance
  <2>2. ASSUME a \notin Mask PROVE cur[a] = known[a]
    <3>1. a \notin owed
      BY <1>1, <2>2 DEF Push
    <3>2. prevValid /\ cur[a] = prev[a]
      BY <2>2 DEF Mask
    <3> QED
      BY <3>1, <3>2 DEF PrevIsKnown
  <2> QED
    BY <2>1, <2>2
<1>2. CASE PushFails
  <2> SUFFICES ASSUME NEW a \in Aspects \ owed' PROVE prev'[a] = known'[a]
    BY DEF PrevIsKnown
  <2>1. a \notin owed /\ a \notin Mask
    BY <1>2 DEF PushFails
  <2>2. prevValid /\ cur[a] = prev[a]
    BY <2>1 DEF Mask
  <2> QED
    BY <1>2, <2>1, <2>2 DEF PushFails, Advance, PrevIsKnown
<1>3. CASE UNCHANGED <<prev, prevValid, known, owed>>
  BY <1>3 DEF PrevIsKnown
<1>4. ASSUME NEW a \in Aspects, NEW v \in Values, Change(a, v)
      PROVE  UNCHANGED <<prev, prevValid, known, owed>>
  BY <1>4 DEF Change, diffVars
<1>5. OnStateChanged \/ StartDebounce \/ TimerTask \/ UNCHANGED vars
        => UNCHANGED <<prev, prevValid, known, owed>>
  BY DEF OnStateChanged, StartDebounce, TimerTask, DebounceFires, GiveNotification, vars, diffVars
<1>6. Wake \/ Snapshot \/ LockTimesOut => UNCHANGED <<prev, prevValid, known, owed>>
  BY DEF Wake, Snapshot, LockTimesOut, diffVars
<1> QED
  BY <1>1, <1>2, <1>3, <1>4, <1>5, <1>6 DEF Next, OpenThread, Detector

\* The inductive invariant holds in every reachable state of the detector.
THEOREM DetectorInvariance == Spec => []DetectorIInv
<1>1. DetectorIInv /\ [Next]_vars => DetectorIInv'
  BY StepKeepsTypes, StepKeepsArmed, StepKeepsPrev DEF DetectorIInv
<1> QED
  BY InitDetectorIInv, <1>1, PTL DEF Spec

\* Every variable of the detector keeps its type.
THEOREM DetectorTypes == Spec => []TypeOK
<1>1. DetectorIInv => TypeOK
  BY DEF DetectorIInv
<1> QED
  BY DetectorInvariance, <1>1, PTL

\* The debounce is armed exactly while its timer is running or about to be
\* started, however the OpenThread task and the timer task interleave.
THEOREM ArmedIsTimed == Spec => []ArmedMeansTimer
<1>1. DetectorIInv => ArmedMeansTimer
  BY DEF DetectorIInv
<1> QED
  BY DetectorInvariance, <1>1, PTL

\* s_prev is what the backend was told, but for the aspects whose NOTIFY
\* failed: the mask of the next snapshot leaves out nothing else.
THEOREM ComparedWithKnown == Spec => []PrevIsKnown
<1>1. DetectorIInv => PrevIsKnown
  BY DEF DetectorIInv
<1> QED
  BY DetectorInvariance, <1>1, PTL
=============================================================================
