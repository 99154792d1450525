------------------------ MODULE BridgeSessionProofs ------------------------
(***************************************************************************)
(* How many sockets the bridge can come to have, for every number of them  *)
(* that come and go and every order of opens, closes, refused upgrades,    *)
(* timers, builds, watchdog ticks, stops and restarts; and what the        *)
(* outbox's attempts over that connection and the cache of quoted messages *)
(* can count on.                                                           *)
(***************************************************************************)
EXTENDS BridgeSession, SequenceTheorems, FiniteSetTheorems, TLAPS

-----------------------------------------------------------------------------
(* The connection: its invariant *)

ConnectionType ==
    /\ sock \in [Sockets -> {"none", "handshake", "open"}]
    /\ current \in Sockets \cup {NoSocket}
    /\ connected \in BOOLEAN /\ loggedOut \in BOOLEAN
    /\ building \in Nat /\ rivals \in Nat
    /\ connecting \in BOOLEAN /\ timer \in BOOLEAN
    /\ watchdog \in BOOLEAN /\ stopped \in BOOLEAN

\* One source is the process's own, the others are a tick's each; a revoked session has
\* lost one.
Counted == Sources <= 1 + rivals /\ (loggedOut => Sources <= rivals)

\* When the watchdog would act and no handshake is on, a source has been lost: the one it
\* starts makes up for it.
OneIsLost ==
    ~connected /\ ~loggedOut /\ ~connecting /\ ~timer /\ ~stopped
        => InHandshake \/ Sources <= rivals

\* The flag is up for some socket.
FlagHasSocket == connected => \E s \in Sockets : sock[s] = "open"

\* Without a rival the only socket with a life is #sock: whichever socket an event comes
\* from, the handlers may take it for the current one.
OnlyCurrentLives ==
    rivals = 0 => \A s \in Sockets :
        sock[s] # "none" => s = current /\ (sock[s] = "open" => connected)

IInv == ConnectionType /\ Counted /\ OneIsLost /\ FlagHasSocket /\ OnlyCurrentLives

-----------------------------------------------------------------------------
(* Facts several actions need *)

\* The live sockets can be counted.
LEMMA AliveIsFinite == IsFiniteSet(Alive) /\ Cardinality(Alive) \in Nat
  <1>1. Alive \in SUBSET Sockets
    BY DEF Alive
  <1> QED
    BY <1>1, WaAssumption, FS_Subset, FS_CardinalityType

\* A finite set that loses an element has fewer.
LEMMA FewerWithout ==
    ASSUME NEW S, IsFiniteSet(S), NEW x \in S, NEW T \in SUBSET (S \ {x})
    PROVE  Cardinality(T) \in Nat /\ Cardinality(T) <= Cardinality(S) - 1
  <1>1. IsFiniteSet(S \ {x}) /\ Cardinality(S \ {x}) = Cardinality(S) - 1
    BY FS_RemoveElement
  <1>2. IsFiniteSet(T) /\ Cardinality(T) <= Cardinality(S \ {x})
    BY <1>1, FS_Subset
  <1> QED
    BY <1>1, <1>2, FS_CardinalityType

\* Sources is a count of three.
LEMMA SourcesIsNat ==
    ASSUME ConnectionType
    PROVE  Sources \in Nat /\ Cardinality(Alive) <= Sources /\ building <= Sources
  BY AliveIsFinite DEF Sources, ConnectionType

\* A process that starts, the first time or after an exit, has one build and no socket.
LEMMA FreshHolds == Init => IInv
  <1> SUFFICES ASSUME Init PROVE IInv
    OBVIOUS
  <1>1. ConnectionType /\ FlagHasSocket /\ OnlyCurrentLives
    BY WaAssumption DEF Init, Fresh, ConnectionType, FlagHasSocket, OnlyCurrentLives
  <1>2. Alive = {}
    BY DEF Init, Fresh, Alive
  <1>3. Sources = 1 /\ rivals = 0 /\ ~loggedOut /\ connecting
    BY <1>2, FS_EmptySet DEF Init, Fresh, Sources
  <1> QED
    BY <1>1, <1>3 DEF IInv, Counted, OneIsLost

\* So has the process that starts after an exit.
LEMMA RestartHolds == Restart => IInv'
  <1> SUFFICES ASSUME Restart PROVE IInv'
    OBVIOUS
  <1>1. ConnectionType' /\ FlagHasSocket' /\ OnlyCurrentLives'
    BY WaAssumption DEF Restart, Fresh, ConnectionType, FlagHasSocket, OnlyCurrentLives
  <1>2. Alive' = {}
    BY DEF Restart, Fresh, Alive
  <1>3. Sources' = 1 /\ rivals' = 0 /\ ~loggedOut' /\ connecting'
    BY <1>2, FS_EmptySet DEF Restart, Fresh, Sources
  <1> QED
    BY <1>1, <1>3 DEF IInv, Counted, OneIsLost

\* One socket at least dies and none comes to life: there is one source less, and with no
\* rival no socket.
LEMMA DeathCounts ==
    ASSUME IInv, NEW s \in Sockets, sock[s] # "none", sock'[s] = "none",
           \A t \in Sockets : sock'[t] = sock[t] \/ sock'[t] = "none"
    PROVE  /\ Cardinality(Alive') \in Nat /\ Cardinality(Alive) \in Nat
           /\ Cardinality(Alive') <= Cardinality(Alive) - 1
           /\ rivals = 0 => \A t \in Sockets : sock'[t] = "none"
  <1>1. s \in Alive /\ Alive' \in SUBSET (Alive \ {s})
    BY DEF Alive
  <1>2. /\ Cardinality(Alive') \in Nat /\ Cardinality(Alive) \in Nat
        /\ Cardinality(Alive') <= Cardinality(Alive) - 1
    BY <1>1, AliveIsFinite, FewerWithout
  <1>3. ASSUME rivals = 0, NEW t \in Sockets PROVE sock'[t] = "none"
    BY <1>3 DEF IInv, OnlyCurrentLives
  <1> QED
    BY <1>2, <1>3

\* A "close" of any socket turns it into a timer, or into nothing when it was revoked.
LEMMA CloseHolds ==
    ASSUME IInv, NEW s \in Sockets, sock[s] # "none",
           sock' \in [Sockets -> {"none", "handshake", "open"}], sock'[s] = "none",
           \A t \in Sockets : sock'[t] = sock[t] \/ sock'[t] = "none",
           NEW revoked \in BOOLEAN, OnClose(revoked),
           UNCHANGED <<current, building, connecting, watchdog, stopped, rivals>>
    PROVE  IInv'
  <1>1. ConnectionType'
    BY DEF IInv, ConnectionType, OnClose, ScheduleReconnect
  <1>2. Counted'
    <2>1. Cardinality(Alive') \in Nat /\ Cardinality(Alive) \in Nat
          /\ Cardinality(Alive') <= Cardinality(Alive) - 1
      BY DeathCounts
    <2>2. CASE revoked
      BY <2>1, <2>2 DEF IInv, ConnectionType, Counted, Sources, OnClose
    <2>3. CASE ~revoked
      BY <2>1, <2>3 DEF IInv, ConnectionType, Counted, Sources, OnClose
    <2> QED
      BY <2>2, <2>3
  <1>3. OneIsLost'
    BY DEF OneIsLost, OnClose, ScheduleReconnect
  <1>4. FlagHasSocket' /\ OnlyCurrentLives'
    BY DeathCounts DEF FlagHasSocket, OnlyCurrentLives, OnClose
  <1> QED
    BY <1>1, <1>2, <1>3, <1>4 DEF IInv

\* A handshake that ends in nothing is a source lost.
LEMMA SilenceHolds ==
    ASSUME IInv, NEW s \in Sockets, sock[s] = "handshake",
           sock' = [sock EXCEPT ![s] = "none"],
           UNCHANGED <<current, connected, loggedOut, building, connecting, timer, watchdog,
                       stopped, rivals>>
    PROVE  IInv'
  <1>1. sock'[s] = "none" /\ \A t \in Sockets : t # s => sock'[t] = sock[t]
    BY DEF IInv, ConnectionType
  <1>2. ConnectionType'
    BY DEF IInv, ConnectionType
  <1>3. /\ Cardinality(Alive') \in Nat /\ Cardinality(Alive) \in Nat
        /\ Cardinality(Alive') <= Cardinality(Alive) - 1
        /\ rivals = 0 => \A t \in Sockets : sock'[t] = "none"
    BY <1>1, DeathCounts
  <1>4. Sources' \in Int /\ Sources \in Int /\ Sources' <= Sources - 1
    BY <1>3 DEF IInv, ConnectionType, Sources
  <1>5. Sources <= 1 + rivals /\ (loggedOut => Sources <= rivals)
        /\ rivals \in Int /\ rivals' = rivals /\ loggedOut' = loggedOut
    BY <1>4 DEF IInv, ConnectionType, Counted
  <1>6. Counted'
    BY <1>4, <1>5 DEF Counted
  <1>7. OneIsLost'
    BY <1>4, <1>5 DEF OneIsLost
  <1>8. FlagHasSocket' /\ OnlyCurrentLives'
    BY <1>1, <1>3 DEF IInv, FlagHasSocket, OnlyCurrentLives
  <1> QED
    BY <1>2, <1>6, <1>7, <1>8 DEF IInv

-----------------------------------------------------------------------------
(* Each action keeps it *)

\* A build becomes a socket, the current one.
LEMMA SocketBuiltHolds == IInv /\ SocketBuilt => IInv'
  <1> SUFFICES ASSUME IInv, SocketBuilt PROVE IInv'
    OBVIOUS
  <1>1. PICK s \in Sockets :
            /\ sock[s] = "none" /\ sock' = [sock EXCEPT ![s] = "handshake"] /\ current' = s
    BY DEF SocketBuilt
  <1>2. /\ building > 0 /\ building' = building - 1
        /\ UNCHANGED <<connected, loggedOut, timer, stopped, rivals>>
    BY DEF SocketBuilt, flags
  <1>3. sock'[s] = "handshake" /\ \A t \in Sockets : t # s => sock'[t] = sock[t]
    BY <1>1 DEF IInv, ConnectionType
  <1>4. ConnectionType'
    <2>1. building' \in Nat
      BY <1>2 DEF IInv, ConnectionType
    <2> QED
      BY <1>1, <1>2, <2>1 DEF IInv, ConnectionType, SocketBuilt, flags
  <1>5. Cardinality(Alive) \in Nat /\ Cardinality(Alive') = Cardinality(Alive) + 1
    <2>1. Alive' = Alive \cup {s} /\ s \notin Alive
      BY <1>1, <1>3 DEF Alive
    <2> QED
      BY <2>1, AliveIsFinite, FS_AddElement
  <1>6. Counted'
    BY <1>2, <1>5 DEF IInv, ConnectionType, Counted, Sources
  <1>7. OneIsLost'
    BY <1>3 DEF OneIsLost, InHandshake
  <1>8. FlagHasSocket'
    BY <1>1, <1>2, <1>3 DEF IInv, FlagHasSocket
  <1>9. OnlyCurrentLives'
    <2>1. rivals = 0 => Cardinality(Alive) = 0
      BY <1>2, <1>5 DEF IInv, ConnectionType, Counted, Sources
    <2>2. rivals = 0 => Alive = {}
      BY <2>1, AliveIsFinite, FS_EmptySet
    <2> QED
      BY <1>1, <1>2, <1>3, <2>2 DEF OnlyCurrentLives, Alive
  <1> QED
    BY <1>4, <1>6, <1>7, <1>8, <1>9 DEF IInv

\* A socket that cannot be built leaves a timer in its place.
LEMMA BuildFailsHolds == IInv /\ BuildFails => IInv'
  <1> SUFFICES ASSUME IInv, BuildFails PROVE IInv'
    OBVIOUS
  <1>1. CASE watchdog \/ stopped
    <2>1. /\ building > 0 /\ building' = building - 1 /\ ScheduleReconnect /\ ~connecting'
          /\ UNCHANGED <<sock, current, connected, loggedOut, watchdog, stopped, rivals>>
      BY <1>1 DEF BuildFails, flags
    <2>2. ConnectionType'
      <3>1. building' \in Nat
        BY <2>1 DEF IInv, ConnectionType
      <3>2. timer' \in BOOLEAN /\ connecting' \in BOOLEAN
        BY <1>1 DEF BuildFails, ScheduleReconnect
      <3> QED
        BY <2>1, <3>1, <3>2 DEF IInv, ConnectionType
    <2>3. Alive' = Alive /\ Cardinality(Alive) \in Nat
      BY <2>1, AliveIsFinite DEF Alive
    <2>4. Counted'
      BY <2>1, <2>3 DEF IInv, ConnectionType, Counted, Sources
    <2>5. OneIsLost' /\ FlagHasSocket' /\ OnlyCurrentLives'
      BY <2>1 DEF IInv, ScheduleReconnect, OneIsLost, FlagHasSocket, OnlyCurrentLives
    <2> QED
      BY <2>2, <2>4, <2>5 DEF IInv
  <1>2. CASE ~(watchdog \/ stopped)
    BY <1>2, RestartHolds DEF BuildFails
  <1> QED
    BY <1>1, <1>2

\* A timer that fires becomes the one build it stood for.
LEMMA TimerFiresHolds == IInv /\ TimerFires => IInv'
  <1> SUFFICES ASSUME IInv, TimerFires PROVE IInv'
    OBVIOUS
  <1>1. /\ timer /\ ~timer' /\ building' = building + 1 /\ connecting'
        /\ UNCHANGED <<sock, current, connected, loggedOut, watchdog, stopped, rivals>>
    BY DEF TimerFires, flags
  <1>2. ConnectionType'
    <2>1. building' \in Nat
      BY <1>1 DEF IInv, ConnectionType
    <2> QED
      BY <1>1, <2>1 DEF TimerFires, IInv, ConnectionType
  <1>3. Alive' = Alive /\ Cardinality(Alive) \in Nat
    BY <1>1, AliveIsFinite DEF Alive
  <1>4. Counted'
    BY <1>1, <1>3 DEF IInv, ConnectionType, Counted, Sources
  <1>5. OneIsLost' /\ FlagHasSocket' /\ OnlyCurrentLives'
    BY <1>1 DEF IInv, OneIsLost, FlagHasSocket, OnlyCurrentLives
  <1> QED
    BY <1>2, <1>4, <1>5 DEF IInv

\* A socket that opens raises the flag, and is the current one when it is alone.
LEMMA OpensHolds == \A s \in Sockets : IInv /\ Opens(s) => IInv'
  <1> SUFFICES ASSUME NEW s \in Sockets, IInv, Opens(s) PROVE IInv'
    OBVIOUS
  <1>1. /\ sock[s] = "handshake" /\ sock' = [sock EXCEPT ![s] = "open"]
        /\ connected' /\ ~loggedOut'
        /\ UNCHANGED <<current, building, connecting, timer, watchdog, stopped, rivals>>
    BY DEF Opens
  <1>2. sock'[s] = "open" /\ \A t \in Sockets : t # s => sock'[t] = sock[t]
    BY <1>1 DEF IInv, ConnectionType
  <1>3. ConnectionType'
    BY <1>1 DEF Opens, IInv, ConnectionType
  <1>4. Alive' = Alive /\ Cardinality(Alive) \in Nat
    BY <1>1, <1>2, AliveIsFinite DEF Alive
  <1>5. Counted'
    BY <1>1, <1>4 DEF IInv, ConnectionType, Counted, Sources
  <1>6. OneIsLost' /\ FlagHasSocket' /\ OnlyCurrentLives'
    BY <1>1, <1>2 DEF IInv, OneIsLost, FlagHasSocket, OnlyCurrentLives
  <1> QED
    BY <1>3, <1>5, <1>6 DEF IInv

\* A socket that closes, current or not, is worth at most the timer it leaves.
LEMMA ClosesHolds == \A s \in Sockets : IInv /\ Closes(s) => IInv'
  <1> SUFFICES ASSUME NEW s \in Sockets, IInv, Closes(s) PROVE IInv'
    OBVIOUS
  <1>1. /\ sock[s] # "none" /\ sock' = [sock EXCEPT ![s] = "none"]
        /\ UNCHANGED <<current, building, connecting, watchdog, stopped, rivals>>
    BY DEF Closes
  <1>2. /\ sock'[s] = "none" /\ sock' \in [Sockets -> {"none", "handshake", "open"}]
        /\ \A t \in Sockets : sock'[t] = sock[t] \/ sock'[t] = "none"
    BY <1>1 DEF IInv, ConnectionType
  <1>3. PICK revoked \in BOOLEAN : OnClose(revoked)
    BY DEF Closes
  <1> QED
    BY <1>1, <1>2, <1>3, CloseHolds

\* A refused socket takes #sock with it: two sources fewer, or one, and one timer.
LEMMA UpgradeRefusedHolds == \A s \in Sockets : IInv /\ UpgradeRefused(s) => IInv'
  <1> SUFFICES ASSUME NEW s \in Sockets, IInv, UpgradeRefused(s) PROVE IInv'
    OBVIOUS
  <1>1. /\ sock[s] = "handshake"
        /\ sock' = [sock EXCEPT ![s] = "none", ![current] = "none"]
        /\ UNCHANGED <<current, building, connecting, watchdog, stopped, rivals>>
    BY DEF UpgradeRefused
  <1>2. /\ sock'[s] = "none" /\ sock' \in [Sockets -> {"none", "handshake", "open"}]
        /\ \A t \in Sockets : sock'[t] = IF t = s \/ t = current THEN "none" ELSE sock[t]
    BY <1>1 DEF IInv, ConnectionType
  <1>3. CASE OnClose(FALSE)
    BY <1>1, <1>2, <1>3, CloseHolds
  <1>4. CASE sock[current] = "none" /\ UNCHANGED <<connected, down, loggedOut, timer>>
    <2>1. sock' = [sock EXCEPT ![s] = "none"]
      BY <1>1, <1>2, <1>4 DEF IInv, ConnectionType
    <2> QED
      BY <1>1, <1>4, <2>1, SilenceHolds
  <1> QED
    BY <1>3, <1>4 DEF UpgradeRefused

\* A socket that goes silent is a source lost.
LEMMA GoesSilentHolds == \A s \in Sockets : IInv /\ GoesSilent(s) => IInv'
  BY SilenceHolds DEF GoesSilent, flags

\* A tick makes up for a source that was lost, or finds a handshake and adds a rival.
LEMMA WatchdogTickHolds == IInv /\ WatchdogTick => IInv'
  <1> SUFFICES ASSUME IInv, WatchdogTick PROVE IInv'
    OBVIOUS
  <1>1. CASE overdue
    BY <1>1, RestartHolds DEF WatchdogTick
  <1>2. CASE ~overdue
    <2>1. /\ ~connected /\ ~loggedOut /\ ~connecting /\ ~timer /\ ~stopped /\ timer' = TRUE
          /\ UNCHANGED <<sock, current, connected, loggedOut, building, connecting, watchdog,
                         stopped>>
          /\ rivals' = IF InHandshake THEN rivals + 1 ELSE rivals
      BY <1>2 DEF WatchdogTick, Supervise, ScheduleReconnect, flags
    <2>2. ConnectionType'
      BY <2>1 DEF IInv, ConnectionType
    <2>3. Alive' = Alive /\ Cardinality(Alive) \in Nat
      BY <2>1, AliveIsFinite DEF Alive
    <2>4. Sources \in Nat /\ Sources' = Sources + 1
      BY <2>1, <2>3 DEF IInv, ConnectionType, Sources
    <2>5. Counted'
      <3>1. CASE InHandshake
        BY <2>1, <2>4, <3>1 DEF IInv, ConnectionType, Counted
      <3>2. CASE ~InHandshake
        BY <2>1, <2>4, <3>2 DEF IInv, ConnectionType, Counted, OneIsLost
      <3> QED
        BY <3>1, <3>2
    <2>6. OneIsLost' /\ FlagHasSocket'
      BY <2>1 DEF IInv, OneIsLost, FlagHasSocket
    <2>7. rivals' = 0 => rivals = 0
      BY <2>1 DEF IInv, ConnectionType
    <2>8. OnlyCurrentLives'
      BY <2>1, <2>7 DEF IInv, OnlyCurrentLives
    <2> QED
      BY <2>2, <2>5, <2>6, <2>8 DEF IInv
  <1> QED
    BY <1>1, <1>2

\* A stop ends the timer and #sock.
LEMMA StopHolds == IInv /\ Stop => IInv'
  <1> SUFFICES ASSUME IInv, Stop PROVE IInv'
    OBVIOUS
  <1>1. /\ stopped' /\ ~timer' /\ ~watchdog'
        /\ UNCHANGED <<current, loggedOut, building, connecting, rivals>>
    BY DEF Stop
  <1>2. CASE current # NoSocket /\ sock[current] # "none"
    <2>1. current \in Sockets /\ sock' = [sock EXCEPT ![current] = "none"] /\ connected' = FALSE
      BY <1>2 DEF Stop, IInv, ConnectionType
    <2>2. /\ sock'[current] = "none"
          /\ \A t \in Sockets : sock'[t] = sock[t] \/ sock'[t] = "none"
      BY <2>1 DEF IInv, ConnectionType
    <2>3. /\ Cardinality(Alive') \in Nat /\ Cardinality(Alive) \in Nat
          /\ Cardinality(Alive') <= Cardinality(Alive) - 1
          /\ rivals = 0 => \A t \in Sockets : sock'[t] = "none"
      BY <1>2, <2>1, <2>2, DeathCounts
    <2>4. ConnectionType'
      BY <1>1, <2>1 DEF Stop, IInv, ConnectionType
    <2>5. Counted'
      BY <1>1, <2>3 DEF IInv, ConnectionType, Counted, Sources
    <2>6. OneIsLost' /\ FlagHasSocket' /\ OnlyCurrentLives'
      BY <1>1, <2>1, <2>3 DEF OneIsLost, FlagHasSocket, OnlyCurrentLives
    <2> QED
      BY <2>4, <2>5, <2>6 DEF IInv
  <1>3. CASE ~(current # NoSocket /\ sock[current] # "none")
    <2>1. /\ UNCHANGED sock
          /\ (current # NoSocket /\ connected' = FALSE) \/ connected' = connected
      BY <1>3 DEF Stop
    <2>2. Alive' = Alive /\ Cardinality(Alive) \in Nat
      BY <2>1, AliveIsFinite DEF Alive
    <2>3. ConnectionType'
      BY <1>1, <2>1 DEF Stop, IInv, ConnectionType
    <2>4. Counted'
      BY <1>1, <2>2 DEF IInv, ConnectionType, Counted, Sources
    <2>5. OneIsLost' /\ FlagHasSocket'
      BY <1>1, <2>1 DEF IInv, OneIsLost, FlagHasSocket
    <2>6. OnlyCurrentLives'
      BY <1>1, <1>3, <2>1, WaAssumption DEF IInv, OnlyCurrentLives
    <2> QED
      BY <2>3, <2>4, <2>5, <2>6 DEF IInv
  <1> QED
    BY <1>2, <1>3

\* Every step of the connection keeps the invariant.
LEMMA NextHolds == IInv /\ [Next]_vars => IInv'
  <1> SUFFICES ASSUME IInv, [Next]_vars PROVE IInv'
    OBVIOUS
  <1>1. CASE UNCHANGED vars \/ OutageGrows
    BY <1>1 DEF vars, flags, OutageGrows, IInv, ConnectionType, Counted, Sources, Alive,
                OneIsLost, InHandshake, FlagHasSocket, OnlyCurrentLives
  <1>2. CASE Exit
    BY <1>2, RestartHolds DEF Exit
  <1>3. CASE \E s \in Sockets : Opens(s) \/ Closes(s) \/ UpgradeRefused(s) \/ GoesSilent(s)
    BY <1>3, OpensHolds, ClosesHolds, UpgradeRefusedHolds, GoesSilentHolds
  <1> QED
    BY <1>1, <1>2, <1>3, SocketBuiltHolds, BuildFailsHolds, TimerFiresHolds,
       WatchdogTickHolds, StopHolds DEF Next

\* What the runs check follows from it.
LEMMA IInvImplies == IInv => OnlyATickAddsASocket /\ FlagIsAboutASocket /\ RevokedRests
  <1> SUFFICES ASSUME IInv PROVE OnlyATickAddsASocket /\ FlagIsAboutASocket /\ RevokedRests
    OBVIOUS
  <1>1. Sources \in Nat /\ rivals \in Nat
    BY SourcesIsNat DEF IInv, ConnectionType
  <1>2. OnlyATickAddsASocket /\ RevokedRests
    BY <1>1 DEF IInv, Counted, OnlyATickAddsASocket, RevokedRests
  <1>3. FlagIsAboutASocket
    BY WaAssumption DEF IInv, ConnectionType, FlagHasSocket, OnlyCurrentLives,
                        FlagIsAboutASocket
  <1> QED
    BY <1>2, <1>3
-----------------------------------------------------------------------------
(* The connection: theorems *)

\* The inductive invariant holds in every reachable state.
THEOREM InvariantHolds == Spec => []IInv
  <1>1. Init => IInv
    BY FreshHolds
  <1>2. IInv /\ [Next]_vars => IInv'
    BY NextHolds
  <1> QED
    BY <1>1, <1>2, PTL DEF Spec

\* There are never more sockets, builds and timers than one and one more for each tick of
\* the watchdog that found a handshake (wa.js, superviseAction, #connect and
\* #scheduleReconnect).
THEOREM OnlyATickAddsASocketHolds == Spec => []OnlyATickAddsASocket
  BY InvariantHolds, IInvImplies, PTL

\* The connected flag is up only while a socket is open, and is about #sock while no tick
\* has doubled a handshake (wa.js, #onConnectionUpdate).
THEOREM FlagHolds == Spec => []FlagIsAboutASocket
  BY InvariantHolds, IInvImplies, PTL

\* Nothing reconnects a session that was revoked but the rivals that were there when it
\* was (wa.js, #onConnectionUpdate and superviseAction).
THEOREM RevokedRestsHolds == Spec => []RevokedRests
  BY InvariantHolds, IInvImplies, PTL

-----------------------------------------------------------------------------
(* The session: its invariant *)

Causes == {"outage", "rejected", "missing", "rival"}

\* What is counted against the head, and that the loop stops at MaxAttempts.
HeadType ==
    /\ head \in [kind : {"text", "document"}, quotes : Messages \cup {NoMessage},
                 causes : Seq(Causes)]
    /\ phase \in {"pause", "reading", "sending", "backoff", "sent", "failed"}
    /\ phase = "failed" => Len(head.causes) = MaxAttempts
    /\ phase \notin {"sent", "failed"} => Len(head.causes) < MaxAttempts

\* A message is handed to a socket that is open, or while none is, or beside a rival.
HandedWell == phase = "sending" => handed \in {"open", "outage", "rival"}

SessionInv == IInv /\ HeadType /\ HandedWell

-----------------------------------------------------------------------------
(* The connection beside the loop *)

\* Every step of the session is one of the connection or leaves it alone.
LEMMA SessionStepIsConnectionStep == [SessionNext]_sessions => [Next]_vars
  <1> SUFFICES ASSUME [SessionNext]_sessions PROVE [Next]_vars
    OBVIOUS
  <1>1. CASE Connection
    BY <1>1 DEF Connection, Next
  <1>2. CASE Attempt \/ FileRead \/ FileMissing \/ SendResolves \/ SendRejects
             \/ BackoffOver \/ NextItem
    BY <1>2 DEF Attempt, FileRead, FileMissing, SendResolves, SendRejects, BackoffOver, NextItem
  <1>3. CASE \E m \in Messages : Receive(m)
    BY <1>3 DEF Receive
  <1>4. CASE UNCHANGED sessions
    BY <1>4 DEF sessions
  <1> QED
    BY <1>1, <1>2, <1>3, <1>4 DEF SessionNext

\* When the current socket is not open, or the flag says so, none is or there is a rival.
LEMMA NotOpenIsNotWasted ==
    ASSUME IInv
    PROVE  /\ ~IsOpen(current) => Unusable \in {"outage", "rival"}
           /\ ~IsConnected => Unusable \in {"outage", "rival"}
  <1>1. CASE rivals > 0
    BY <1>1 DEF Unusable
  <1>2. CASE ~(rivals > 0)
    <2>1. rivals = 0
      BY <1>2 DEF IInv, ConnectionType
    <2>2. ~IsConnected => ~IsOpen(current)
      BY <2>1 DEF IsConnected, IsOpen, IInv, ConnectionType, OnlyCurrentLives
    <2>3. ~IsOpen(current) => Outage
      BY <2>1, WaAssumption DEF IsOpen, Outage, IInv, OnlyCurrentLives
    <2> QED
      BY <2>2, <2>3 DEF Unusable
  <1> QED
    BY <1>1, <1>2

\* An item that comes to the head has no failed attempt yet.
LEMMA ItemsAreFresh ==
    \A i \in Items : /\ i \in [kind : {"text", "document"}, quotes : Messages \cup {NoMessage},
                               causes : Seq(Causes)]
                    /\ i.causes = <<>> /\ Len(i.causes) = 0
  <1> SUFFICES ASSUME NEW i \in Items
               PROVE  /\ i \in [kind : {"text", "document"}, quotes : Messages \cup {NoMessage},
                                causes : Seq(Causes)]
                      /\ i.causes = <<>> /\ Len(i.causes) = 0
    OBVIOUS
  <1>1. <<>> \in Seq(Causes) /\ Len(<<>>) = 0
    BY EmptySeq
  <1>2. CASE i = [kind |-> "document", quotes |-> NoMessage, causes |-> <<>>]
    BY <1>1, <1>2
  <1>3. CASE \E m \in Messages \cup {NoMessage} :
                i = [kind |-> "text", quotes |-> m, causes |-> <<>>]
    BY <1>1, <1>3
  <1> QED
    BY <1>2, <1>3 DEF Items

-----------------------------------------------------------------------------
(* The steps of the loop *)

\* A failed attempt adds its cause; with the last one the item is given up.
LEMMA FailsHolds ==
    ASSUME HeadType, phase \notin {"sent", "failed"}, NEW cause \in Causes, Fails(cause)
    PROVE  HeadType' /\ HandedWell'
  <1>1. Append(head.causes, cause) \in Seq(Causes)
        /\ Len(Append(head.causes, cause)) = Len(head.causes) + 1
        /\ Len(head.causes) \in Nat
    BY AppendProperties, LenProperties DEF HeadType
  <1>2. head' = [head EXCEPT !.causes = Append(head.causes, cause)]
    BY DEF Fails
  <1>3. head' \in [kind : {"text", "document"}, quotes : Messages \cup {NoMessage},
                   causes : Seq(Causes)]
        /\ head'.causes = Append(head.causes, cause)
    BY <1>1, <1>2 DEF HeadType
  <1>4. phase' = IF Len(head.causes) + 1 >= MaxAttempts THEN "failed" ELSE "backoff"
    BY DEF Fails
  <1>5. HeadType'
    BY <1>1, <1>3, <1>4, SessionAssumption DEF HeadType
  <1> QED
    BY <1>4, <1>5 DEF HandedWell

\* What is handed to the socket that is current at that moment is handed well.
LEMMA HandOverHolds ==
    ASSUME IInv, HeadType, phase \notin {"sent", "failed"}, HandOver
    PROVE  HeadType' /\ HandedWell'
  BY NotOpenIsNotWasted DEF HandOver, HeadType, HandedWell

\* A delivery attempt keeps the session invariant: it runs on the socket it looked up.
LEMMA AttemptHolds == SessionInv /\ Attempt => HeadType' /\ HandedWell'
  <1> SUFFICES ASSUME SessionInv, Attempt PROVE HeadType' /\ HandedWell'
    OBVIOUS
  <1> USE DEF SessionInv
  <1>1. CASE ~IsConnected
    <2>1. Fails(Unusable) /\ phase = "pause" /\ Unusable \in Causes
      BY <1>1, NotOpenIsNotWasted DEF Attempt, Causes
    <2> QED
      BY <2>1, FailsHolds
  <1>2. CASE IsConnected /\ head.kind = "text"
    BY <1>2, HandOverHolds DEF Attempt
  <1>3. CASE IsConnected /\ head.kind # "text"
    BY <1>3 DEF Attempt, HeadType, HandedWell
  <1> QED
    BY <1>1, <1>2, <1>3

\* An attempt that fails on a socket fails for what the socket was or became.
LEMMA SendRejectsHolds == SessionInv /\ SendRejects => HeadType' /\ HandedWell'
  <1> SUFFICES ASSUME SessionInv, SendRejects PROVE HeadType' /\ HandedWell'
    OBVIOUS
  <1> DEFINE cause == IF IsOpen(via) \/ handed = "open" THEN "rejected" ELSE handed
  <1>1. cause \in Causes
    BY DEF SendRejects, SessionInv, HandedWell, Causes
  <1>2. Fails(cause) /\ phase \notin {"sent", "failed"}
    BY DEF SendRejects
  <1> QED
    BY <1>1, <1>2, FailsHolds DEF SessionInv

\* Taking the next message from the outbox keeps the session invariant.
LEMMA NextItemHolds == SessionInv /\ NextItem => HeadType' /\ HandedWell'
  <1> SUFFICES ASSUME SessionInv, NextItem PROVE HeadType' /\ HandedWell'
    OBVIOUS
  <1>1. head' \in [kind : {"text", "document"}, quotes : Messages \cup {NoMessage},
                   causes : Seq(Causes)]
        /\ Len(head'.causes) = 0 /\ phase' = "pause"
    BY ItemsAreFresh DEF NextItem
  <1> QED
    BY <1>1, SessionAssumption DEF HeadType, HandedWell

\* A restart keeps the head and what was counted against it.
LEMMA ConnectionHolds == SessionInv /\ Connection => HeadType' /\ HandedWell'
  <1> SUFFICES ASSUME SessionInv, Connection PROVE HeadType' /\ HandedWell'
    OBVIOUS
  <1>1. CASE UNCHANGED session
    BY <1>1 DEF session, SessionInv, HeadType, HandedWell
  <1>2. CASE Reload
    BY <1>2 DEF Reload, AttemptOver, SessionInv, HeadType, HandedWell
  <1> QED
    BY <1>1, <1>2 DEF Connection

\* Every step of the session keeps its invariant.
LEMMA SessionNextHolds == SessionInv /\ [SessionNext]_sessions => SessionInv'
  <1> SUFFICES ASSUME SessionInv, [SessionNext]_sessions
               PROVE  HeadType' /\ HandedWell'
    BY SessionStepIsConnectionStep, NextHolds DEF SessionInv
  <1>1. CASE FileRead
    BY <1>1, HandOverHolds DEF FileRead, SessionInv
  <1>2. CASE FileMissing
    BY <1>2, FailsHolds DEF FileMissing, SessionInv, Causes
  <1>3. CASE SendResolves \/ BackoffOver
    BY <1>3 DEF SendResolves, AttemptOver, BackoffOver, SessionInv, HeadType, HandedWell
  <1>4. CASE \E m \in Messages : Receive(m)
    BY <1>4 DEF Receive, SessionInv, HeadType, HandedWell
  <1>5. CASE UNCHANGED sessions
    BY <1>5 DEF sessions, session, SessionInv, HeadType, HandedWell
  <1> QED
    BY <1>1, <1>2, <1>3, <1>4, <1>5, ConnectionHolds, AttemptHolds, SendRejectsHolds,
       NextItemHolds DEF SessionNext

\* The session starts in its invariant.
LEMMA SessionInitHolds == SessionInit => SessionInv
  <1> SUFFICES ASSUME SessionInit PROVE HeadType /\ HandedWell
    BY FreshHolds DEF SessionInit, SessionInv
  <1>1. head \in [kind : {"text", "document"}, quotes : Messages \cup {NoMessage},
                  causes : Seq(Causes)]
        /\ Len(head.causes) = 0 /\ phase = "pause"
    BY ItemsAreFresh DEF SessionInit
  <1> QED
    BY <1>1, SessionAssumption DEF HeadType, HandedWell
-----------------------------------------------------------------------------
(* The cache *)

\* A list of messages in which none comes twice.
Distinct(q) ==
    /\ q \in Seq(Messages)
    /\ \A j, k \in 1 .. Len(q) : q[j] = q[k] => j = k

\* The cache holds the end of the list of uses, as much of it as fits.
CacheInv ==
    /\ Distinct(used)
    /\ cache \in Seq(Messages)
    /\ Len(cache) = IF Len(used) > CacheSize THEN CacheSize ELSE Len(used)
    /\ \A j \in 1 .. Len(cache) : cache[j] = used[Len(used) - Len(cache) + j]

\* A message that is not in the list goes to its end.
LEMMA NewToTheEnd ==
    ASSUME NEW q, q \in Seq(Messages), NEW m \in Messages, m \notin ToSet(q),
           NEW n \in Nat, n = Len(q)
    PROVE  /\ ToTheEnd(q, m) \in Seq(Messages)
           /\ Len(ToTheEnd(q, m)) = n + 1
           /\ \A j \in 1 .. n : ToTheEnd(q, m)[j] = q[j]
           /\ ToTheEnd(q, m)[n + 1] = m
  BY AppendProperties DEF ToTheEnd

\* What is left of a list once place i is taken out of it.
LEMMA RemoveAtProperties ==
    ASSUME NEW q, q \in Seq(Messages), NEW n \in Nat, n = Len(q), NEW i \in 1 .. n
    PROVE  /\ RemoveAt(q, i) \in Seq(Messages)
           /\ Len(RemoveAt(q, i)) = n - 1
           /\ \A j \in 1 .. i - 1 : RemoveAt(q, i)[j] = q[j]
           /\ \A j \in i .. n - 1 : RemoveAt(q, i)[j] = q[j + 1]
  <1> DEFINE a == SubSeq(q, 1, i - 1)
             b == SubSeq(q, i + 1, n)
             r == RemoveAt(q, i)
  <1>1. \A j \in 1 .. n : q[j] \in Messages
    BY ElementOfSeq
  <1>2. a \in Seq(Messages) /\ Len(a) = i - 1 /\ \A j \in 1 .. i - 1 : a[j] = q[j]
    BY <1>1, SubSeqProperties
  <1>3. /\ b \in Seq(Messages)
        /\ Len(b) = IF i + 1 <= n THEN n - (i + 1) + 1 ELSE 0
        /\ \A j \in 1 .. n - (i + 1) + 1 : b[j] = q[(i + 1) + j - 1]
    BY <1>1, SubSeqProperties
  <1>4. /\ r \in Seq(Messages) /\ Len(r) = Len(a) + Len(b)
        /\ \A j \in 1 .. Len(a) + Len(b) : r[j] = IF j <= Len(a) THEN a[j] ELSE b[j - Len(a)]
    <2>1. r = a \o b
      BY DEF RemoveAt
    <2> HIDE DEF a, b, r
    <2> QED
      BY <1>2, <1>3, <2>1, ConcatProperties
  <1> HIDE DEF a, b, r
  <1>5. Len(a) = i - 1 /\ Len(b) = n - i /\ Len(a) + Len(b) = n - 1
    BY <1>2, <1>3
  <1>6. ASSUME NEW j \in 1 .. i - 1 PROVE r[j] = q[j]
    <2>1. j \in 1 .. Len(a) + Len(b) /\ j <= Len(a)
      BY <1>5
    <2> QED
      BY <1>2, <1>4, <2>1
  <1>7. ASSUME NEW j \in i .. n - 1 PROVE r[j] = q[j + 1]
    <2>1. j \in 1 .. Len(a) + Len(b) /\ ~(j <= Len(a))
      BY <1>5
    <2>2. r[j] = b[j - Len(a)]
      BY <1>4, <2>1
    <2>3. j - Len(a) \in 1 .. n - (i + 1) + 1 /\ (i + 1) + (j - Len(a)) - 1 = j + 1
      BY <1>5
    <2> QED
      BY <1>3, <2>2, <2>3
  <1>8. Len(r) = n - 1 /\ r \in Seq(Messages)
    BY <1>4, <1>5
  <1> QED
    BY <1>6, <1>7, <1>8 DEF r

\* A message that is at place i moves to the end, and those behind it one place forward.
LEMMA OldToTheEnd ==
    ASSUME NEW q, Distinct(q), NEW n \in Nat, n = Len(q), NEW i \in 1 .. n,
           NEW m, m = q[i]
    PROVE  /\ ToTheEnd(q, m) \in Seq(Messages)
           /\ Len(ToTheEnd(q, m)) = n
           /\ \A j \in 1 .. i - 1 : ToTheEnd(q, m)[j] = q[j]
           /\ \A j \in i .. n - 1 : ToTheEnd(q, m)[j] = q[j + 1]
           /\ ToTheEnd(q, m)[n] = m
  <1> DEFINE r == RemoveAt(q, i)
             e == Append(r, m)
  <1>1. q \in Seq(Messages) /\ DOMAIN q = 1 .. n /\ m \in Messages
    BY LenProperties, ElementOfSeq DEF Distinct
  <1>2. m \in ToSet(q) /\ Place(q, m) = i
    BY <1>1 DEF ToSet, Place, Distinct
  <1>3. ToTheEnd(q, m) = e
    BY <1>2 DEF ToTheEnd
  <1>4. /\ r \in Seq(Messages) /\ Len(r) = n - 1
        /\ \A j \in 1 .. i - 1 : r[j] = q[j]
        /\ \A j \in i .. n - 1 : r[j] = q[j + 1]
    BY <1>1, RemoveAtProperties
  <1>5. /\ e \in Seq(Messages) /\ Len(e) = Len(r) + 1
        /\ \A j \in 1 .. Len(r) : e[j] = r[j]
        /\ e[Len(r) + 1] = m
    <2> HIDE DEF r
    <2> QED
      BY <1>1, <1>4, AppendProperties
  <1> HIDE DEF r, e
  <1>6. e \in Seq(Messages) /\ Len(e) = n /\ e[n] = m /\ \A j \in 1 .. n - 1 : e[j] = r[j]
    <2>1. Len(r) + 1 = n /\ 1 .. Len(r) = 1 .. n - 1
      BY <1>4
    <2> QED
      BY <1>5, <2>1
  <1>7. \A j \in 1 .. i - 1 : e[j] = q[j]
    BY <1>4, <1>6
  <1>8. \A j \in i .. n - 1 : e[j] = q[j + 1]
    BY <1>4, <1>6
  <1> QED
    BY <1>3, <1>6, <1>7, <1>8

\* Moving to the end keeps a list free of doubles.
LEMMA ToTheEndDistinct ==
    ASSUME NEW q, Distinct(q), NEW m \in Messages
    PROVE  Distinct(ToTheEnd(q, m))
  <1> DEFINE e == ToTheEnd(q, m)
  <1>1. PICK n \in Nat : n = Len(q) /\ q \in Seq(Messages) /\ DOMAIN q = 1 .. n
    BY LenProperties DEF Distinct
  <1>2. \A j, k \in 1 .. n : q[j] = q[k] => j = k
    BY <1>1 DEF Distinct
  <1>3. CASE m \notin ToSet(q)
    <2>1. \A j \in 1 .. n : q[j] # m
      BY <1>1, <1>3 DEF ToSet
    <2>2. /\ e \in Seq(Messages) /\ Len(e) = n + 1
          /\ \A j \in 1 .. n : e[j] = q[j]
          /\ e[n + 1] = m
      BY <1>1, <1>3, NewToTheEnd
    <2> HIDE DEF e
    <2>3. \A j, k \in 1 .. n + 1 : e[j] = e[k] => j = k
      <3> SUFFICES ASSUME NEW j \in 1 .. n + 1, NEW k \in 1 .. n + 1, e[j] = e[k], j # k
                   PROVE  FALSE
        OBVIOUS
      <3>1. (j \in 1 .. n \/ j = n + 1) /\ (k \in 1 .. n \/ k = n + 1)
        OBVIOUS
      <3> QED
        BY <1>2, <2>1, <2>2, <3>1
    <2> QED
      BY <2>2, <2>3 DEF Distinct, e
  <1>4. CASE m \in ToSet(q)
    <2>1. PICK i \in 1 .. n : m = q[i]
      BY <1>1, <1>4 DEF ToSet
    <2>2. /\ e \in Seq(Messages) /\ Len(e) = n
          /\ \A j \in 1 .. i - 1 : e[j] = q[j]
          /\ \A j \in i .. n - 1 : e[j] = q[j + 1]
          /\ e[n] = m
      <3>1. n = Len(q)
        BY <1>1
      <3>2. /\ ToTheEnd(q, m) \in Seq(Messages)
            /\ Len(ToTheEnd(q, m)) = n
            /\ \A j \in 1 .. i - 1 : ToTheEnd(q, m)[j] = q[j]
            /\ \A j \in i .. n - 1 : ToTheEnd(q, m)[j] = q[j + 1]
            /\ ToTheEnd(q, m)[n] = m
        <4> HIDE DEF e
        <4> QED
          BY <2>1, <3>1, OldToTheEnd
      <3> QED
        BY <3>2 DEF e
    <2> HIDE DEF e
    <2> DEFINE from(j) == IF j < i THEN j ELSE IF j < n THEN j + 1 ELSE i
    <2>3. ASSUME NEW j \in 1 .. n PROVE e[j] = q[from(j)] /\ from(j) \in 1 .. n
      <3>1. CASE j < i
        BY <2>2, <3>1
      <3>2. CASE i <= j /\ j < n
        BY <2>2, <3>2
      <3>3. CASE j = n
        BY <2>1, <2>2, <3>3
      <3> QED
        BY <3>1, <3>2, <3>3
    <2>4. \A j, k \in 1 .. n : from(j) = from(k) => j = k
      OBVIOUS
    <2> HIDE DEF from
    <2>5. \A j, k \in 1 .. n : e[j] = e[k] => j = k
      BY <1>2, <2>3, <2>4
    <2> QED
      BY <2>2, <2>5 DEF Distinct, e
  <1> QED
    BY <1>3, <1>4

\* The lists by their lengths k and n: the cache is what comes after place n - k of used.
LEMMA CacheInvByPlaces ==
    ASSUME NEW u, NEW c, NEW n \in Nat, NEW k \in Nat, Distinct(u), Len(u) = n,
           c \in Seq(Messages), Len(c) = k, k = IF n > CacheSize THEN CacheSize ELSE n,
           \A j \in 1 .. k : c[j] = u[n - k + j],
           used' = u, cache' = c
    PROVE  CacheInv'
  BY DEF CacheInv, Distinct

\* A message of the cache that is used again moves to the end of both lists.
LEMMA UsedAgain ==
    ASSUME CacheInv, NEW m, m \in ToSet(cache),
           cache' = ToTheEnd(cache, m), used' = ToTheEnd(used, m)
    PROVE  CacheInv' /\ Len(ToTheEnd(cache, m)) <= CacheSize
  <1> DEFINE c == ToTheEnd(cache, m)
             u == ToTheEnd(used, m)
  <1>1. PICK k \in Nat, n \in Nat :
            /\ k = Len(cache) /\ DOMAIN cache = 1 .. k /\ cache \in Seq(Messages)
            /\ n = Len(used) /\ DOMAIN used = 1 .. n
    BY LenProperties DEF CacheInv, Distinct
  <1>2. /\ k = IF n > CacheSize THEN CacheSize ELSE n
        /\ \A j \in 1 .. k : cache[j] = used[n - k + j]
        /\ \A j, l \in 1 .. n : used[j] = used[l] => j = l
    BY <1>1 DEF CacheInv, Distinct
  <1>3. k <= n /\ k <= CacheSize /\ CacheSize \in Nat
    BY <1>2, SessionAssumption
  <1>4. PICK i \in 1 .. k : m = cache[i]
    BY <1>1 DEF ToSet
  <1>5. m \in Messages
    BY <1>1, <1>4, ElementOfSeq
  <1>6. Distinct(cache)
    <2>1. ASSUME NEW j \in 1 .. k, NEW l \in 1 .. k, cache[j] = cache[l] PROVE j = l
      <3>1. n - k + j \in 1 .. n /\ n - k + l \in 1 .. n
        BY <1>3
      <3>2. n - k + j = n - k + l
        BY <1>2, <2>1, <3>1
      <3> QED
        BY <3>2
    <2> QED
      BY <1>1, <2>1 DEF Distinct
  <1> DEFINE p == n - k + i
  <1>7. p \in 1 .. n /\ m = used[p]
    BY <1>2, <1>3, <1>4
  <1>8. /\ c \in Seq(Messages) /\ Len(c) = k
        /\ \A j \in 1 .. i - 1 : c[j] = cache[j]
        /\ \A j \in i .. k - 1 : c[j] = cache[j + 1]
        /\ c[k] = m
    BY <1>1, <1>4, <1>6, OldToTheEnd
  <1>9. /\ Distinct(u) /\ Len(u) = n
        /\ \A j \in 1 .. p - 1 : u[j] = used[j]
        /\ \A j \in p .. n - 1 : u[j] = used[j + 1]
        /\ u[n] = m
    <2> HIDE DEF p
    <2>1. n = Len(used) /\ Distinct(used)
      BY <1>1 DEF CacheInv
    <2>2. Distinct(u)
      BY <1>5, <2>1, ToTheEndDistinct
    <2> QED
      BY <1>7, <2>1, <2>2, OldToTheEnd
  <1> HIDE DEF c, u
  <1>10. ASSUME NEW j \in 1 .. k PROVE c[j] = u[n - k + j]
    <2>1. CASE j < i
      <3>1. n - k + j \in 1 .. p - 1 /\ j \in 1 .. i - 1
        BY <1>3, <2>1
      <3> QED
        BY <1>2, <1>8, <1>9, <3>1
    <2>2. CASE j >= i /\ j < k
      <3>1. n - k + j \in p .. n - 1 /\ j \in i .. k - 1 /\ j + 1 \in 1 .. k
        BY <1>3, <2>2
      <3>2. (n - k + j) + 1 = n - k + (j + 1)
        BY <1>3
      <3>3. c[j] = cache[j + 1] /\ cache[j + 1] = used[n - k + (j + 1)]
        BY <1>2, <1>8, <3>1
      <3>4. u[n - k + j] = used[(n - k + j) + 1]
        BY <1>9, <3>1
      <3> QED
        BY <3>2, <3>3, <3>4
    <2>3. CASE j = k
      <3>1. n - k + j = n
        BY <1>3, <2>3
      <3> QED
        BY <1>8, <1>9, <2>3, <3>1
    <2> QED
      BY <2>1, <2>2, <2>3
  <1>11. CacheInv'
    BY <1>2, <1>8, <1>9, <1>10, CacheInvByPlaces DEF c, u
  <1> QED
    BY <1>3, <1>8, <1>11 DEF c

\* A message that comes in joins the end of both lists; a full cache loses its oldest.
LEMMA RememberHolds ==
    ASSUME CacheInv, NEW m \in Messages, Remember(m), used' = ToTheEnd(used, m)
    PROVE  CacheInv'
  <1> DEFINE keys == ToTheEnd(cache, m)
             u == ToTheEnd(used, m)
  <1>1. PICK k \in Nat, n \in Nat :
            /\ k = Len(cache) /\ DOMAIN cache = 1 .. k /\ cache \in Seq(Messages)
            /\ n = Len(used) /\ DOMAIN used = 1 .. n /\ used \in Seq(Messages)
    BY LenProperties DEF CacheInv, Distinct
  <1>2. /\ k = IF n > CacheSize THEN CacheSize ELSE n
        /\ \A j \in 1 .. k : cache[j] = used[n - k + j]
        /\ CacheSize \in Nat \ {0}
    BY <1>1, SessionAssumption DEF CacheInv
  <1>3. Distinct(u)
    BY ToTheEndDistinct DEF CacheInv
  <1>4. CASE m \in ToSet(cache)
    <2>1. cache' = keys
      <3>1. Len(keys) <= CacheSize => cache' = keys
        BY <1>2 DEF Remember
      <3>2. PICK i \in 1 .. k : m = cache[i]
        BY <1>1, <1>4 DEF ToSet
      <3>3. Distinct(cache)
        <4>1. \A j, l \in 1 .. n : used[j] = used[l] => j = l
          BY <1>1 DEF CacheInv, Distinct
        <4>2. ASSUME NEW j \in 1 .. k, NEW l \in 1 .. k, cache[j] = cache[l] PROVE j = l
          <5>1. n - k + j \in 1 .. n /\ n - k + l \in 1 .. n
            BY <1>2
          <5>2. n - k + j = n - k + l
            BY <1>2, <4>1, <4>2, <5>1
          <5> QED
            BY <5>2
        <4> QED
          BY <1>1, <4>2 DEF Distinct
      <3>4. Len(keys) = k
        BY <1>1, <3>2, <3>3, OldToTheEnd
      <3> QED
        BY <1>2, <3>1, <3>4
    <2> QED
      BY <1>4, <2>1, UsedAgain
  <1>5. CASE m \notin ToSet(cache)
    <2>1. /\ keys \in Seq(Messages) /\ Len(keys) = k + 1
          /\ \A j \in 1 .. k : keys[j] = cache[j]
          /\ keys[k + 1] = m
      BY <1>1, <1>5, NewToTheEnd
    <2>2. cache' = IF Len(keys) > CacheSize THEN Tail(keys) ELSE keys
      BY DEF Remember
    <2> HIDE DEF keys
    <2> DEFINE t == Tail(keys)
    <2>3. t \in Seq(Messages) /\ Len(t) = k /\ \A j \in 1 .. k : t[j] = keys[j + 1]
      <3>1. keys # <<>>
        BY <2>1, EmptySeq
      <3>2. t \in Seq(Messages) /\ Len(t) = Len(keys) - 1
            /\ \A j \in 1 .. Len(t) : t[j] = keys[j + 1]
        BY <2>1, <3>1, HeadTailProperties
      <3>3. Len(keys) - 1 = k
        BY <2>1
      <3> QED
        BY <3>2, <3>3
    <2>4. cache' = IF k = CacheSize THEN t ELSE keys
      BY <1>2, <2>1, <2>2
    <2> HIDE DEF t
    <2>5. CASE m \notin ToSet(used)
      <3>1. /\ Len(u) = n + 1
            /\ \A j \in 1 .. n : u[j] = used[j]
            /\ u[n + 1] = m
        BY <1>1, <2>5, NewToTheEnd
      <3> HIDE DEF u
      <3>2. CASE k = CacheSize
        <4>1. ASSUME NEW j \in 1 .. k PROVE t[j] = u[(n + 1) - k + j]
          <5>1. t[j] = keys[j + 1]
            BY <2>3
          <5>2. CASE j < k
            <6>1. j + 1 \in 1 .. k /\ n - k + (j + 1) \in 1 .. n
                  /\ n - k + (j + 1) = (n + 1) - k + j
              BY <1>2, <5>2
            <6>2. keys[j + 1] = cache[j + 1] /\ cache[j + 1] = used[n - k + (j + 1)]
              BY <1>2, <2>1, <6>1
            <6>3. u[n - k + (j + 1)] = used[n - k + (j + 1)]
              BY <3>1, <6>1
            <6> QED
              BY <5>1, <6>1, <6>2, <6>3
          <5>3. CASE j = k
            <6>1. (n + 1) - k + j = n + 1 /\ j + 1 = k + 1
              BY <5>3
            <6> QED
              BY <2>1, <3>1, <5>1, <6>1
          <5> QED
            BY <5>2, <5>3
        <4>2. k = IF n + 1 > CacheSize THEN CacheSize ELSE n + 1
          BY <1>2, <3>2
        <4> QED
          BY <1>3, <2>3, <2>4, <3>1, <3>2, <4>1, <4>2, CacheInvByPlaces DEF u
      <3>3. CASE k # CacheSize
        <4>1. k = n /\ n < CacheSize
          BY <1>2, <3>3
        <4>2. ASSUME NEW j \in 1 .. k + 1 PROVE keys[j] = u[(n + 1) - (k + 1) + j]
          <5>1. (n + 1) - (k + 1) + j = j /\ n - k + j = j
            BY <4>1
          <5>2. CASE j \in 1 .. k
            BY <1>2, <2>1, <3>1, <4>1, <5>1, <5>2
          <5>3. CASE j = k + 1
            BY <2>1, <3>1, <4>1, <5>1, <5>3
          <5> QED
            BY <5>2, <5>3
        <4>3. k + 1 = IF n + 1 > CacheSize THEN CacheSize ELSE n + 1
          BY <1>2, <4>1
        <4> QED
          <5>1. Distinct(u) /\ Len(u) = n + 1 /\ used' = u
            BY <1>3, <3>1 DEF u
          <5>2. keys \in Seq(Messages) /\ Len(keys) = k + 1 /\ cache' = keys
            BY <2>1, <2>4, <3>3
          <5>3. \A j \in 1 .. k + 1 : keys[j] = u[(n + 1) - (k + 1) + j]
            BY <4>2
          <5>4. k + 1 \in Nat /\ n + 1 \in Nat
            OBVIOUS
          <5> HIDE DEF u, keys
          <5> QED
            BY <4>3, <5>1, <5>2, <5>3, <5>4, CacheInvByPlaces
      <3> QED
        BY <3>2, <3>3
    <2>6. CASE m \in ToSet(used)
      <3>1. PICK i \in 1 .. n : m = used[i]
        BY <1>1, <2>6 DEF ToSet
      <3>2. i <= n - k
        <4> SUFFICES ASSUME i > n - k PROVE FALSE
          BY <1>2
        <4>1. i - (n - k) \in 1 .. k /\ n - k + (i - (n - k)) = i
          BY <1>2
        <4>2. cache[i - (n - k)] = m
          BY <1>2, <3>1, <4>1
        <4> QED
          BY <1>1, <1>5, <4>1, <4>2 DEF ToSet
      <3>3. k = CacheSize
        BY <1>2, <3>2
      <3>4. /\ Len(u) = n
            /\ \A j \in i .. n - 1 : u[j] = used[j + 1]
            /\ u[n] = m
        <4>1. n = Len(used) /\ Distinct(used)
          BY <1>1 DEF CacheInv
        <4> QED
          BY <3>1, <4>1, OldToTheEnd
      <3> HIDE DEF u
      <3>5. ASSUME NEW j \in 1 .. k PROVE t[j] = u[n - k + j]
        <4>1. t[j] = keys[j + 1]
          BY <2>3
        <4>2. CASE j < k
          <5>1. /\ j + 1 \in 1 .. k /\ n - k + j \in i .. n - 1
                /\ (n - k + j) + 1 = n - k + (j + 1)
            BY <1>2, <3>2, <4>2
          <5>2. keys[j + 1] = cache[j + 1] /\ cache[j + 1] = used[n - k + (j + 1)]
            BY <1>2, <2>1, <5>1
          <5>3. u[n - k + j] = used[(n - k + j) + 1]
            BY <3>4, <5>1
          <5> QED
            BY <4>1, <5>1, <5>2, <5>3
        <4>3. CASE j = k
          <5>1. n - k + j = n /\ j + 1 = k + 1
            BY <4>3
          <5> QED
            BY <2>1, <3>4, <4>1, <5>1
        <4> QED
          BY <4>2, <4>3
      <3> QED
        BY <1>2, <1>3, <2>3, <2>4, <3>3, <3>4, <3>5, CacheInvByPlaces DEF u
    <2> QED
      BY <2>5, <2>6
  <1> QED
    BY <1>4, <1>5
\* Only what is received or quoted moves the two lists, and a restart empties both.
LEMMA CacheNextHolds == CacheInv /\ [SessionNext]_sessions => CacheInv'
  <1> SUFFICES ASSUME CacheInv, [SessionNext]_sessions PROVE CacheInv'
    OBVIOUS
  <1>1. CASE UNCHANGED quotes
    BY <1>1 DEF quotes, CacheInv, Distinct
  <1>2. ASSUME NEW m \in Messages, Receive(m) PROVE CacheInv'
    BY <1>2, RememberHolds DEF Receive
  <1>3. CASE cache' = <<>> /\ used' = <<>>
    BY <1>3, EmptySeq, SessionAssumption DEF CacheInv, Distinct
  <1>4. CASE Connection
    BY <1>1, <1>3, <1>4 DEF Connection, Reload, session
  <1>5. CASE Attempt
    <2>1. CASE IsConnected /\ head.quotes \in ToSet(cache)
      BY <1>5, <2>1, UsedAgain DEF Attempt, Quote
    <2>2. CASE ~(IsConnected /\ head.quotes \in ToSet(cache))
      BY <1>1, <1>5, <2>2 DEF Attempt, Quote
    <2> QED
      BY <2>1, <2>2
  <1>6. CASE FileRead \/ FileMissing \/ SendResolves \/ SendRejects \/ BackoffOver \/ NextItem
    BY <1>1, <1>6 DEF FileRead, FileMissing, SendResolves, SendRejects, BackoffOver, NextItem
  <1>7. CASE UNCHANGED sessions
    BY <1>1, <1>7 DEF sessions, session
  <1> QED
    BY <1>2, <1>4, <1>5, <1>6, <1>7 DEF SessionNext

\* The shape of the cache says that it keeps the latest messages used.
LEMMA CacheInvImplies == CacheInv => CacheKeepsTheLatest
  <1> SUFFICES ASSUME CacheInv PROVE CacheKeepsTheLatest
    OBVIOUS
  <1>1. PICK k \in Nat, n \in Nat :
            k = Len(cache) /\ n = Len(used) /\ cache \in Seq(Messages) /\ used \in Seq(Messages)
    BY LenProperties DEF CacheInv, Distinct
  <1>2. k = (IF n > CacheSize THEN CacheSize ELSE n)
        /\ \A j \in 1 .. k : cache[j] = used[n - k + j]
    BY <1>1 DEF CacheInv
  <1> DEFINE first == IF n > CacheSize THEN n - CacheSize + 1 ELSE 1
             t == SubSeq(used, first, n)
  <1>3. first \in 1 .. n + 1 /\ first = n - k + 1
    BY <1>2, SessionAssumption
  <1> HIDE DEF first
  <1>4. /\ t \in Seq(Messages)
        /\ Len(t) = IF first <= n THEN n - first + 1 ELSE 0
        /\ \A j \in 1 .. n - first + 1 : t[j] = used[first + j - 1]
    <2>1. \A j \in first .. n : used[j] \in Messages
      BY <1>1, <1>3, ElementOfSeq
    <2> QED
      BY <1>3, <2>1, SubSeqProperties
  <1> HIDE DEF t
  <1>5. Len(t) = k
    BY <1>3, <1>4
  <1>6. ASSUME NEW j \in 1 .. k PROVE cache[j] = t[j]
    <2>1. first + j - 1 = n - k + j /\ j \in 1 .. n - first + 1
      BY <1>3
    <2> QED
      BY <1>2, <1>4, <2>1
  <1>7. cache = t
    <2>1. Len(cache) = Len(t) /\ \A j \in 1 .. Len(cache) : cache[j] = t[j]
      BY <1>1, <1>5, <1>6
    <2>2. cache \in Seq(Messages) /\ t \in Seq(Messages)
      BY <1>1, <1>4
    <2> QED
      BY <2>1, <2>2, SeqEqual
  <1> QED
    BY <1>1, <1>7 DEF CacheKeepsTheLatest, t, first
-----------------------------------------------------------------------------
(* Theorems *)

\* The connection's invariant and the loop's hold together in every reachable state.
THEOREM SessionInvariantHolds == SessionSpec => []SessionInv
  <1>1. SessionInit => SessionInv
    BY SessionInitHolds
  <1>2. SessionInv /\ [SessionNext]_sessions => SessionInv'
    BY SessionNextHolds
  <1> QED
    BY <1>1, <1>2, PTL DEF SessionSpec

\* Whatever the outbox does, the connection keeps its promises (wa.js, superviseAction,
\* #connect and #onConnectionUpdate).
THEOREM SessionCountsItsSockets ==
    SessionSpec => [](OnlyATickAddsASocket /\ FlagIsAboutASocket /\ RevokedRests)
  <1>1. SessionInv => OnlyATickAddsASocket /\ FlagIsAboutASocket /\ RevokedRests
    BY IInvImplies DEF SessionInv
  <1> QED
    BY <1>1, SessionInvariantHolds, PTL

\* A message is given up after MaxAttempts attempts that failed for an outage, a close, a
\* refusal, a missing file or a rival the watchdog made in that process, and none of them
\* failed beside the one socket that was open (outbox.js, wa.js sendText and sendDocument).
THEOREM NoAttemptIsWastedHolds == SessionSpec => []NoAttemptIsWasted
  <1>1. SessionInv => NoAttemptIsWasted
    <2> SUFFICES ASSUME SessionInv, NEW k \in DOMAIN head.causes PROVE head.causes[k] # "wasted"
      BY DEF SessionInv, HeadType, NoAttemptIsWasted
    <2>1. head.causes[k] \in Causes
      BY ElementOfSeq, LenProperties DEF SessionInv, HeadType
    <2> QED
      BY <2>1 DEF Causes
  <1> QED
    BY <1>1, SessionInvariantHolds, PTL

\* The cache is the CacheSize messages received or quoted last, on any connection: a reply
\* loses its quote to newer messages only (quoted-cache.js, set and get).
THEOREM CacheKeepsTheLatestHolds == SessionSpec => []CacheKeepsTheLatest
  <1>1. SessionInit => CacheInv
    BY EmptySeq, SessionAssumption DEF SessionInit, CacheInv, Distinct
  <1>2. CacheInv /\ [SessionNext]_sessions => CacheInv'
    BY CacheNextHolds
  <1> QED
    BY <1>1, <1>2, CacheInvImplies, PTL DEF SessionSpec
=============================================================================
