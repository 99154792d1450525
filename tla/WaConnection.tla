---------------------------- MODULE WaConnection ----------------------------
(***************************************************************************)
(* How the bridge keeps its WhatsApp connection (bridge/src/wa.js): build  *)
(* a socket, follow its connection.update events, schedule a reconnection, *)
(* and a watchdog that restarts a chain that died without an event.        *)
(*                                                                         *)
(* Delays are left out, their order is not: a timer that is set fires at   *)
(* some later step.  A socket may go silent without any event, which is    *)
(* the failure the watchdog exists for; the watchdog cannot tell it from a *)
(* handshake that is still on, and starts a second, rival socket beside    *)
(* the first.  The handlers do not look at which socket an event comes     *)
(* from, and neither do the actions.                                       *)
(***************************************************************************)
EXTENDS Naturals, FiniteSets

CONSTANTS
    Sockets,            \* bound: sockets that may be alive at a time, reused
    NoSocket,
    MaxRivals           \* bound: ticks of a process that reconnect during a handshake

ASSUME WaAssumption ==
    /\ NoSocket \notin Sockets /\ IsFiniteSet(Sockets)
    /\ MaxRivals \in Nat

VARIABLES
    sock,           \* the life of each socket
    current,        \* #sock
    connected,      \* #connected
    loggedOut,      \* #loggedOut
    building,       \* calls of #openSocket in flight
    connecting,     \* #connecting
    timer,          \* #reconnectTimer is set
    down,           \* #disconnectedSince is set
    overdue,        \* the outage is older than disconnectExitMs
    watchdog,       \* the interval timer runs: start() is over
    stopped,        \* #stopped
    rivals          \* history: ticks of this process that reconnected during a handshake

flags == <<connected, loggedOut, down, overdue>>
vars  == <<sock, current, flags, building, connecting, timer, watchdog, stopped, rivals>>

\* start(): the outage counts from here, and the first connection is being built.
Fresh ==
    [sock |-> [s \in Sockets |-> "none"], current |-> NoSocket, connected |-> FALSE,
     loggedOut |-> FALSE, building |-> 1, connecting |-> TRUE, timer |-> FALSE,
     down |-> TRUE, overdue |-> FALSE, watchdog |-> FALSE, stopped |-> FALSE,
     rivals |-> 0]

Init ==
    /\ sock = Fresh.sock /\ current = Fresh.current /\ connected = Fresh.connected
    /\ loggedOut = Fresh.loggedOut /\ building = Fresh.building
    /\ connecting = Fresh.connecting /\ timer = Fresh.timer /\ down = Fresh.down
    /\ overdue = Fresh.overdue /\ watchdog = Fresh.watchdog /\ stopped = Fresh.stopped
    /\ rivals = Fresh.rivals

Restart ==
    /\ sock' = Fresh.sock /\ current' = Fresh.current /\ connected' = Fresh.connected
    /\ loggedOut' = Fresh.loggedOut /\ building' = Fresh.building
    /\ connecting' = Fresh.connecting /\ timer' = Fresh.timer /\ down' = Fresh.down
    /\ overdue' = Fresh.overdue /\ watchdog' = Fresh.watchdog /\ stopped' = Fresh.stopped
    /\ rivals' = Fresh.rivals
-----------------------------------------------------------------------------
(* Building a socket *)

\* #scheduleReconnect: one timer at a time, none after stop().
ScheduleReconnect == timer' = (~stopped \/ timer)

SocketBuilt ==
    /\ building > 0
    /\ \E s \in Sockets :
        /\ sock[s] = "none"
        /\ sock' = [sock EXCEPT ![s] = "handshake"]
        /\ current' = s
    /\ building' = building - 1
    /\ connecting' = FALSE
    /\ watchdog' = ~stopped
    /\ UNCHANGED <<flags, timer, stopped, rivals>>

\* The session files cannot be read: start() gives up on the process, a
\* reconnection tries again later.
BuildFails ==
    /\ building > 0
    /\ IF watchdog \/ stopped
       THEN /\ building' = building - 1 /\ connecting' = FALSE
            /\ ScheduleReconnect
            /\ UNCHANGED <<sock, current, flags, watchdog, stopped, rivals>>
       ELSE Restart

TimerFires ==
    /\ timer /\ timer' = FALSE
    /\ building' = building + 1 /\ connecting' = TRUE
    /\ UNCHANGED <<sock, current, flags, watchdog, stopped, rivals>>
-----------------------------------------------------------------------------
(* connection.update *)

Opens(s) ==
    /\ sock[s] = "handshake"
    /\ sock' = [sock EXCEPT ![s] = "open"]
    /\ connected' = TRUE /\ loggedOut' = FALSE /\ down' = FALSE /\ overdue' = FALSE
    /\ UNCHANGED <<current, building, connecting, timer, watchdog, stopped, rivals>>

\* Fault: a revoked session is reconnected like any other.
CloseAndReconnect(revoked) ==
    /\ connected' = FALSE /\ down' = TRUE
    /\ loggedOut' = (loggedOut \/ revoked)
    /\ ScheduleReconnect

\* Fault: the flag stays up until the next socket opens.
CloseUnnoticed(revoked) ==
    /\ down' = TRUE
    /\ IF revoked THEN loggedOut' = TRUE /\ UNCHANGED timer
                  ELSE ScheduleReconnect /\ UNCHANGED loggedOut
    /\ UNCHANGED connected

\* What a "close" does, from whichever socket it comes.
OnClose(revoked) ==
    /\ connected' = FALSE /\ down' = TRUE
    /\ IF revoked THEN loggedOut' = TRUE /\ UNCHANGED timer
                  ELSE ScheduleReconnect /\ UNCHANGED loggedOut

Closes(s) ==
    /\ sock[s] # "none"
    /\ sock' = [sock EXCEPT ![s] = "none"]
    /\ \E revoked \in BOOLEAN : OnClose(revoked)
    /\ UNCHANGED <<current, overdue, building, connecting, watchdog, stopped, rivals>>

\* WhatsApp refuses the upgrade of a socket: the listener ends #sock, which may be
\* another one by then; the refused socket itself stays silent.  A socket without a life
\* was closed, and ends no more, or fell silent, and reports its end now.
UpgradeRefused(s) ==
    /\ sock[s] = "handshake"
    /\ sock' = [sock EXCEPT ![s] = "none", ![current] = "none"]
    /\ \/ OnClose(FALSE)
       \/ sock[current] = "none" /\ UNCHANGED <<connected, down, loggedOut, timer>>
    /\ UNCHANGED <<current, overdue, building, connecting, watchdog, stopped, rivals>>

\* The handshake ends in nothing: no event, no error.
GoesSilent(s) ==
    /\ sock[s] = "handshake"
    /\ sock' = [sock EXCEPT ![s] = "none"]
    /\ UNCHANGED <<current, flags, building, connecting, timer, watchdog, stopped, rivals>>
-----------------------------------------------------------------------------
(* The watchdog *)

OutageGrows ==
    /\ down /\ ~overdue /\ overdue' = TRUE
    /\ UNCHANGED <<sock, current, connected, loggedOut, down, building, connecting, timer,
                   watchdog, stopped, rivals>>

\* Faults: an outage that never saw a connection is left alone, one that is being
\* repaired is not.
SuperviseOnlyLost == ~connected /\ ~loggedOut /\ ~connecting /\ ~timer /\ ~down
SuperviseAlways   == ~connected /\ ~loggedOut

\* superviseAction is not "none".
Supervise == ~connected /\ ~loggedOut /\ ~connecting /\ ~timer

InHandshake == \E s \in Sockets : sock[s] = "handshake"

\* The interval runs freely: a tick may come while a socket is still in its handshake,
\* which nothing of the state it looks at tells.
WatchdogTick ==
    /\ watchdog /\ ~stopped
    /\ Supervise
    /\ IF overdue
       THEN Restart
       ELSE /\ ScheduleReconnect
            /\ IF InHandshake THEN rivals < MaxRivals /\ rivals' = rivals + 1
                              ELSE UNCHANGED rivals
            /\ UNCHANGED <<sock, current, flags, building, connecting, watchdog, stopped>>

\* stop(): the timers are cleared and #sock is ended, one that fell silent too.
Stop ==
    /\ ~stopped
    /\ stopped' = TRUE /\ timer' = FALSE /\ watchdog' = FALSE
    /\ IF current # NoSocket /\ sock[current] # "none"
       THEN /\ sock' = [sock EXCEPT ![current] = "none"]
            /\ connected' = FALSE /\ down' = TRUE
       ELSE /\ UNCHANGED sock
            /\ \/ current # NoSocket /\ connected' = FALSE /\ down' = TRUE
               \/ UNCHANGED <<connected, down>>
    /\ UNCHANGED <<current, loggedOut, overdue, building, connecting, rivals>>

Exit == stopped /\ Restart

Next ==
    \/ SocketBuilt \/ BuildFails \/ TimerFires
    \/ \E s \in Sockets : Opens(s) \/ Closes(s) \/ UpgradeRefused(s) \/ GoesSilent(s)
    \/ OutageGrows \/ WatchdogTick \/ Stop \/ Exit

Spec == Init /\ [][Next]_vars

\* Timers fire and calls end; WhatsApp owes nothing.
FairSpec ==
    /\ Spec
    /\ WF_vars(SocketBuilt \/ BuildFails) /\ WF_vars(TimerFires)
    /\ WF_vars(WatchdogTick) /\ WF_vars(Exit)
-----------------------------------------------------------------------------
(* Properties *)

Alive == {s \in Sockets : sock[s] # "none"}

\* What is a socket or will be one: the live ones, the builds, the timer.
Sources == Cardinality(Alive) + building + (IF timer THEN 1 ELSE 0)

\* A rival comes from a tick that found a handshake and from nothing else: closes,
\* refused upgrades that end another socket, timers, builds that fail or end in another
\* order and later ticks never make two sockets out of one.  Without such a tick there is
\* one source in all; superviseAction and #connect promise no second socket at all
\* (wa.js:119 and 263), and their #connecting covers the build, not the handshake.
OnlyATickAddsASocket == Sources <= 1 + rivals

\* The connected flag is up only while a socket is open, whichever socket spoke last and
\* whichever are left; while no rival came it is up for #sock alone and whenever #sock is
\* open.  With rivals it may be down beside an open socket, and up for one that is not
\* #sock: #onConnectionUpdate does not ask where an event comes from.
FlagIsAboutASocket ==
    /\ connected => \E s \in Sockets : sock[s] = "open"
    /\ rivals = 0 => (connected <=> (current # NoSocket /\ sock[current] = "open"))

\* A revoked session waits for a human: the socket that heard of it is not replaced, and
\* what may still connect is rivals of it, at most one for each tick that made one.
RevokedRests == loggedOut => Sources <= rivals

Corpse == ~connected /\ ~loggedOut /\ ~stopped /\ ~timer /\ building = 0 /\ Alive = {}

\* "Nothing pending and not connected" never lasts (wa.js, superviseAction).
CorpseRevives == Corpse ~> ~Corpse
=============================================================================
