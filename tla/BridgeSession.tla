--------------------------- MODULE BridgeSession ---------------------------
(***************************************************************************)
(* The outbox's sends over the connection: what becomes of the head of the *)
(* queue (bridge/src/outbox.js #drain) while sockets are built, close and  *)
(* are replaced (wa.js).  sendText looks at the connection and sends in    *)
(* one stretch; sendDocument reads the file in between, and the socket may *)
(* be another one when it is back.  A text that answers a message takes it *)
(* from the cache of the last ones received (quoted-cache.js).             *)
(*                                                                         *)
(* The queue is its head alone: Outbox has the rest of it.  The attempts   *)
(* are on disk and survive a restart.                                      *)
(***************************************************************************)
EXTENDS WaConnection, SequencesExt

CONSTANTS
    MaxAttempts,
    Messages,       \* ids of inbound messages
    NoMessage,
    CacheSize       \* maxSize of the cache

ASSUME SessionAssumption ==
    /\ {MaxAttempts, CacheSize} \subseteq Nat \ {0}
    /\ NoMessage \notin Messages

VARIABLES
    head,       \* the kind of the head, what it quotes, the causes of its failed attempts
    phase,      \* where the drain loop is
    via,        \* the socket the message is being sent over
    handed,     \* history: whether it was open when it was handed the message
    cache,      \* the keys of #entries, the oldest first
    used        \* history: messages received or quoted by this process, by their last use

quotes   == <<cache, used>>
session  == <<head, phase, via, handed, quotes>>
sessions == <<vars, session>>

IsOpen(s)   == s # NoSocket /\ sock[s] = "open"
Outage      == \A s \in Sockets : ~IsOpen(s)
IsConnected == current # NoSocket /\ connected

Items ==
    {[kind |-> "document", quotes |-> NoMessage, causes |-> <<>>]}
    \cup {[kind |-> "text", quotes |-> m, causes |-> <<>>] : m \in Messages \cup {NoMessage}}

SessionInit ==
    /\ Init
    /\ head \in Items
    /\ cache = <<>> /\ used = <<>>
    /\ phase = "pause" /\ via = NoSocket /\ handed = "no"

-----------------------------------------------------------------------------
(* The cache *)

\* delete and set of a key of the Map, which holds it at most once.
Place(keys, m) == CHOOSE k \in DOMAIN keys : keys[k] = m
ToTheEnd(keys, m) ==
    Append(IF m \in ToSet(keys) THEN RemoveAt(keys, Place(keys, m)) ELSE keys, m)

\* Fault: a message that comes again keeps its place.
RememberOnce(m) ==
    LET keys == IF m \in ToSet(cache) THEN cache ELSE Append(cache, m)
    IN  cache' = IF Len(keys) > CacheSize THEN Tail(keys) ELSE keys

\* set: a key that is there is inserted again; the oldest ones go.
Remember(m) ==
    LET keys == ToTheEnd(cache, m)
    IN  cache' = IF Len(keys) > CacheSize THEN Tail(keys) ELSE keys

\* get: a key that is there becomes the latest; one that is not leaves the text unquoted.
Quote(m) ==
    IF m \in ToSet(cache) THEN cache' = ToTheEnd(cache, m) /\ used' = ToTheEnd(used, m)
                          ELSE UNCHANGED quotes

\* #onMessages: each message with a payload, live or delivered again, over any socket that
\* is open, is remembered.
Receive(m) ==
    /\ ~Outage
    /\ Remember(m) /\ used' = ToTheEnd(used, m)
    /\ UNCHANGED <<vars, head, phase, via, handed>>
-----------------------------------------------------------------------------
(* The drain loop *)

\* What a socket that is not open tells of the others: none is, or one is that the
\* watchdog doubled, or that the outbox should have used.
Unusable == IF Outage THEN "outage" ELSE IF rivals > 0 THEN "rival" ELSE "wasted"

\* sendMessage of the socket that is the current one at this moment.
HandOver ==
    /\ via' = current
    /\ handed' = IF IsOpen(current) THEN "open" ELSE Unusable
    /\ phase' = "sending"
    /\ UNCHANGED head

AttemptOver == via' = NoSocket /\ handed' = "no"

Fails(cause) ==
    /\ head' = [head EXCEPT !.causes = Append(@, cause)]
    /\ phase' = IF Len(head.causes) + 1 >= MaxAttempts THEN "failed" ELSE "backoff"
    /\ AttemptOver

\* sendText, and sendDocument up to the reading of the file.
Attempt ==
    /\ phase = "pause" /\ ~stopped
    /\ IF ~IsConnected THEN Fails(Unusable)
       ELSE IF head.kind = "text" THEN HandOver
       ELSE phase' = "reading" /\ UNCHANGED <<head, via, handed>>
    /\ IF IsConnected THEN Quote(head.quotes) ELSE UNCHANGED quotes
    /\ UNCHANGED vars

FileRead    == phase = "reading" /\ HandOver /\ UNCHANGED <<quotes, vars>>
FileMissing == phase = "reading" /\ Fails("missing") /\ UNCHANGED <<quotes, vars>>

SendResolves ==
    /\ phase = "sending" /\ IsOpen(via)
    /\ phase' = "sent" /\ AttemptOver
    /\ UNCHANGED <<head, quotes, vars>>

\* WhatsApp refuses the message or the socket closed on it, or it never was open.
SendRejects ==
    /\ phase = "sending"
    /\ Fails(IF IsOpen(via) \/ handed = "open" THEN "rejected" ELSE handed)
    /\ UNCHANGED <<quotes, vars>>

BackoffOver ==
    /\ phase = "backoff" /\ phase' = "pause"
    /\ UNCHANGED <<head, via, handed, quotes, vars>>

\* The item is settled and shifted; the next one comes to the head.
NextItem ==
    /\ phase \in {"sent", "failed"} /\ phase' = "pause" /\ ~stopped
    /\ head' \in Items
    /\ UNCHANGED <<via, handed, quotes, vars>>

\* A new process finds the head in the queue file.
Reload ==
    /\ phase' = IF phase \in {"sent", "failed"} THEN phase ELSE "pause"
    /\ AttemptOver
    /\ cache' = <<>> /\ used' = <<>>
    /\ UNCHANGED head

\* The names no socket has, nor the one a send is waiting for.
FreeNames == {s \in Sockets \ {via} : sock[s] = "none"}

\* Of the actions that may end the process, those that do leave no socket.  Which name a
\* new socket gets does not matter.
Connection ==
    \/ /\ BuildFails \/ WatchdogTick \/ Exit
       /\ IF current' = NoSocket /\ building' = 1 THEN Reload ELSE UNCHANGED session
    \/ /\ SocketBuilt /\ current' \in FreeNames /\ current' = CHOOSE s \in FreeNames : TRUE
       /\ UNCHANGED session
    \/ /\ \/ TimerFires \/ OutageGrows \/ Stop
          \/ \E s \in Sockets : Opens(s) \/ Closes(s) \/ UpgradeRefused(s) \/ GoesSilent(s)
       /\ UNCHANGED session

SessionNext ==
    \/ Connection
    \/ Attempt \/ FileRead \/ FileMissing \/ SendResolves \/ SendRejects \/ BackoffOver \/ NextItem
    \/ \E m \in Messages : Receive(m)

SessionSpec ==
    /\ SessionInit /\ [][SessionNext]_sessions
    /\ WF_sessions((SocketBuilt \/ BuildFails) /\ Connection)
    /\ WF_sessions(TimerFires /\ Connection)
    /\ WF_sessions(WatchdogTick /\ Connection) /\ WF_sessions(Exit /\ Connection)
-----------------------------------------------------------------------------
(* Properties *)

\* An attempt is never wasted: a message uses one up only because no socket was open, the
\* one it went over closed meanwhile, WhatsApp refused it, its file is gone, or the
\* watchdog has made a rival in this process, which leaves the flag or #sock about
\* another socket than the open one; so it is given up after MaxAttempts of those and not
\* by one connection that is there (outbox.js, wa.js sendText and sendDocument).
NoAttemptIsWasted ==
    /\ \A k \in DOMAIN head.causes : head.causes[k] # "wasted"
    /\ phase = "failed" => Len(head.causes) = MaxAttempts

\* A reply loses its quote only to newer messages: the cache is the CacheSize messages
\* received or quoted last, whatever was sent, delivered again and quoted before
\* (quoted-cache.js).
CacheKeepsTheLatest ==
    cache = SubSeq(used, IF Len(used) > CacheSize THEN Len(used) - CacheSize + 1 ELSE 1, Len(used))
=============================================================================
