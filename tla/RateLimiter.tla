----------------------------- MODULE RateLimiter -----------------------------
(***************************************************************************)
(* The global send quota (ratelimit.py): a counter per calendar minute and *)
(* one per day in Redis, checked and incremented by one Lua script.  A     *)
(* client first turns its clock into two key names, and the script runs a  *)
(* little later; Redis drops a key when its time to live is over.          *)
(***************************************************************************)
EXTENDS Integers

CONSTANTS
    Clients,        \* processes that send
    PerMinute, PerDay,
    MinuteLen, DayLen,      \* length of a minute and of a day, in ticks
    MinuteTtl, DayTtl,      \* _MINUTE_TTL and _DAY_TTL, in ticks
    MaxLag,         \* ticks between reading the clock and the script: socket_timeout
    MaxTime         \* bound: ticks

ASSUME RateAssumption ==
    /\ {PerMinute, PerDay, MaxLag, MaxTime} \subseteq Nat
    /\ {MinuteLen, DayLen} \subseteq Nat \ {0}
    /\ MinuteTtl \in Nat /\ MinuteTtl >= MinuteLen + MaxLag
    /\ DayTtl \in Nat    /\ DayTtl >= DayLen + MaxLag

VARIABLES
    clock,
    reading,    \* the clock each client read, -1 when it is not in a call
    minute,     \* the minute counters in Redis
    day,        \* the day counters
    minuteSent, \* history: sends granted in each minute
    daySent     \* history: sends granted on each day

vars == <<clock, reading, minute, day, minuteSent, daySent>>

Keys    == 0 .. MaxTime
Missing == [count |-> 0, expires |-> -1]

Init ==
    /\ clock = 0
    /\ reading = [c \in Clients |-> -1]
    /\ minute = [k \in Keys |-> Missing] /\ day = [k \in Keys |-> Missing]
    /\ minuteSent = [k \in Keys |-> 0] /\ daySent = [k \in Keys |-> 0]

MinuteOf(t) == t \div MinuteLen
DayOf(t)    == t \div DayLen

\* Time passes; Redis drops what has expired.
Expire(counters) ==
    [k \in Keys |-> IF counters[k].expires = clock' THEN Missing ELSE counters[k]]

Tick ==
    /\ clock < MaxTime
    /\ \A c \in Clients : reading[c] >= 0 => clock < reading[c] + MaxLag
    /\ clock' = clock + 1
    /\ minute' = Expire(minute) /\ day' = Expire(day)
    /\ UNCHANGED <<reading, minuteSent, daySent>>

\* RateLimiter.keys: the names are made from the client's clock.
ReadClock(c) ==
    /\ reading[c] = -1
    /\ reading' = [reading EXCEPT ![c] = clock]
    /\ UNCHANGED <<clock, minute, day, minuteSent, daySent>>

\* Fault: a time to live shorter than the minute.
IncrBrief(counters, k, ttl) ==
    [counters EXCEPT ![k] = [count |-> @.count + 1, expires |-> clock + 1]]

\* INCR, and EXPIRE on the first one.
Incr(counters, k, ttl) ==
    [counters EXCEPT ![k] =
       [count   |-> @.count + 1,
        expires |-> IF @.count = 0 THEN clock + ttl ELSE @.expires]]

Granted(m, d) == minute[m].count < PerMinute /\ day[d].count < PerDay

\* Fault: increment first, compare afterwards.
ScriptIncrFirst(c) ==
    LET m == MinuteOf(reading[c])
        d == DayOf(reading[c])
    IN  /\ reading[c] >= 0
        /\ reading' = [reading EXCEPT ![c] = -1]
        /\ minute' = Incr(minute, m, MinuteTtl)
        /\ day' = Incr(day, d, DayTtl)
        /\ IF Granted(m, d)
           THEN /\ minuteSent' = [minuteSent EXCEPT ![m] = @ + 1]
                /\ daySent' = [daySent EXCEPT ![d] = @ + 1]
           ELSE UNCHANGED <<minuteSent, daySent>>
        /\ UNCHANGED clock

Script(c) ==
    LET m == MinuteOf(reading[c])
        d == DayOf(reading[c])
    IN  /\ reading[c] >= 0
        /\ reading' = [reading EXCEPT ![c] = -1]
        /\ IF Granted(m, d)
           THEN /\ minute' = Incr(minute, m, MinuteTtl)
                /\ day' = Incr(day, d, DayTtl)
                /\ minuteSent' = [minuteSent EXCEPT ![m] = @ + 1]
                /\ daySent' = [daySent EXCEPT ![d] = @ + 1]
           ELSE UNCHANGED <<minute, day, minuteSent, daySent>>
        /\ UNCHANGED clock

\* The client's run ends, or Redis fails it, before the script has run.
Abandon(c) ==
    /\ reading[c] >= 0
    /\ reading' = [reading EXCEPT ![c] = -1]
    /\ UNCHANGED <<clock, minute, day, minuteSent, daySent>>

Next == Tick \/ \E c \in Clients : ReadClock(c) \/ Script(c) \/ Abandon(c)

Spec == Init /\ [][Next]_vars
-----------------------------------------------------------------------------
(* Properties *)

Counter == {Missing} \cup [count: Nat \ {0}, expires: Nat]

TypeOK ==
    /\ clock \in 0 .. MaxTime
    /\ reading \in [Clients -> {-1} \cup (0 .. MaxTime)]
    /\ minute \in [Keys -> Counter] /\ day \in [Keys -> Counter]
    /\ minuteSent \in [Keys -> Nat] /\ daySent \in [Keys -> Nat]

\* No calendar minute and no day ever sees more sends granted than its quota, though
\* keys expire and a client may use the key of a minute that is over.
QuotaHolds ==
    \A k \in Keys : minuteSent[k] <= PerMinute /\ daySent[k] <= PerDay

\* Refused sends do not use the quota up (ratelimit.py, the header): a counter that is
\* in Redis says exactly how many sends were granted.
RefusalsAreFree ==
    \A k \in Keys :
        /\ minute[k] # Missing => minute[k].count = minuteSent[k]
        /\ day[k] # Missing => day[k].count = daySent[k]
=============================================================================
