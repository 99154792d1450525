--------------------------- MODULE PipelineProofs ---------------------------
(***************************************************************************)
(* For every set of messages, aliases, caps, quotas, faults and retries:   *)
(* the worker's chain of handlers keeps the limiter's promises, a receipt  *)
(* accounts for its whole batch, and the counters tell what was sent.      *)
(*                                                                         *)
(* The limiter comes first: the quota holds for every number of clients,   *)
(* every quota, every length of a minute and of a day, and every lag       *)
(* between reading the clock and running the script.                       *)
(***************************************************************************)
EXTENDS Pipeline, SequenceTheorems, FiniteSetTheorems, TLAPS

-----------------------------------------------------------------------------
(* The limiter: windows of time *)

\* The first tick after window k.
End(k, len) == (k + 1) * len

\* A reading belongs to one window, which ends at most a whole window later.
LEMMA Window ==
    ASSUME NEW r \in Nat, NEW len \in Nat \ {0}
    PROVE  /\ r \div len \in 0 .. r
           /\ r < End(r \div len, len)
           /\ End(r \div len, len) <= r + len
  <1> DEFINE k == r \div len
             q == r % len
  <1>1. k \in Int /\ q \in 0 .. len - 1 /\ r = len * k + q
    OBVIOUS
  <1>2. k \in Nat /\ k <= r
    BY <1>1
  <1>3. r < (k + 1) * len /\ (k + 1) * len <= r + len
    BY <1>1
  <1> QED
    BY <1>2, <1>3 DEF End

\* The end of a call's window is a time.
LEMMA EndIsNat ==
    ASSUME NEW k \in Nat, NEW len \in Nat \ {0}
    PROVE  End(k, len) \in Nat
  BY DEF End

-----------------------------------------------------------------------------
(* The limiter's invariant *)

\* A script runs within MaxLag of the clock it was given.
Punctual ==
    \A c \in Clients : reading[c] >= 0 => reading[c] <= clock /\ clock <= reading[c] + MaxLag

\* One key: what it counts is what was granted, it lives until no script can name it
\* any more, and a key that is missing was either never used or cannot be named again.
KeyTrue(counter, sent, quota, end, now) ==
    /\ sent <= quota
    /\ counter = Missing => sent = 0 \/ end + MaxLag <= now
    /\ counter # Missing => /\ counter.count = sent
                            /\ end + MaxLag <= counter.expires
                            /\ now < counter.expires

KeysTrue ==
    \A k \in Keys :
        /\ KeyTrue(minute[k], minuteSent[k], PerMinute, End(k, MinuteLen), clock)
        /\ KeyTrue(day[k], daySent[k], PerDay, End(k, DayLen), clock)

IInv == TypeOK /\ Punctual /\ KeysTrue

\* The invariant holds at the start.
LEMMA InitIInv == Init => IInv
  <1> SUFFICES ASSUME Init PROVE IInv
    OBVIOUS
  <1> USE RateAssumption
  <1>1. TypeOK
    BY DEF Init, TypeOK, Counter, Keys
  <1>2. Punctual
    BY DEF Init, Punctual
  <1>3. KeysTrue
    BY DEF Init, KeysTrue, KeyTrue
  <1> QED
    BY <1>1, <1>2, <1>3 DEF IInv

-----------------------------------------------------------------------------
(* The steps *)

\* Time keeps what is true of a key: it goes away only when no script can name it.
LEMMA TimeKeepsKey ==
    ASSUME NEW counter \in Counter, NEW sent \in Nat, NEW quota \in Nat, NEW end \in Nat,
           NEW now \in Nat, KeyTrue(counter, sent, quota, end, now),
           NEW after, after = IF counter.expires = now + 1 THEN Missing ELSE counter
    PROVE  after \in Counter /\ KeyTrue(after, sent, quota, end, now + 1)
  BY RateAssumption DEF KeyTrue, Counter, Missing

\* A grant in the key's own window, or within the lag after it, keeps what is true of it.
LEMMA GrantKeepsKey ==
    ASSUME NEW counter \in Counter, NEW sent \in Nat, NEW quota \in Nat, NEW len \in Nat,
           NEW end \in Nat, NEW now \in Nat, NEW ttl \in Nat,
           KeyTrue(counter, sent, quota, end, now),
           counter.count < quota, now < end + MaxLag,
           ttl >= len + MaxLag, len > 0, end <= now + len,
           NEW after,
           after = [count   |-> counter.count + 1,
                    expires |-> IF counter.count = 0 THEN now + ttl ELSE counter.expires]
    PROVE  after \in Counter /\ KeyTrue(after, sent + 1, quota, end, now)
  <1> USE RateAssumption
  <1>1. CASE counter = Missing
    <2>1. sent = 0 /\ counter.count = 0 /\ counter.expires = -1
      BY <1>1 DEF KeyTrue, Missing
    <2>2. after = [count |-> 1, expires |-> now + ttl]
      BY <2>1
    <2> QED
      BY <2>1, <2>2, <1>1 DEF KeyTrue, Counter, Missing
  <1>2. CASE counter # Missing
    <2>1. counter \in [count: Nat \ {0}, expires: Nat]
      BY <1>2 DEF Counter
    <2>2. after = [count |-> counter.count + 1, expires |-> counter.expires]
      BY <2>1
    <2> QED
      BY <2>1, <2>2, <1>2 DEF KeyTrue, Counter, Missing
  <1> QED
    BY <1>1, <1>2

\* The clock keeps the invariant.
LEMMA TickKeepsIInv ==
    ASSUME IInv, Tick PROVE IInv'
  <1> USE RateAssumption
  <1>1. clock \in Nat /\ clock' = clock + 1 /\ clock' \in 0 .. MaxTime
    BY DEF IInv, TypeOK, Tick
  <1>2. ASSUME NEW k \in Keys
        PROVE  /\ minute'[k] \in Counter /\ day'[k] \in Counter
               /\ KeyTrue(minute'[k], minuteSent[k], PerMinute, End(k, MinuteLen), clock + 1)
               /\ KeyTrue(day'[k], daySent[k], PerDay, End(k, DayLen), clock + 1)
    <2>1. /\ minute[k] \in Counter /\ day[k] \in Counter
          /\ minuteSent[k] \in Nat /\ daySent[k] \in Nat
      BY DEF IInv, TypeOK
    <2>2. End(k, MinuteLen) \in Nat /\ End(k, DayLen) \in Nat
      BY EndIsNat DEF Keys
    <2>3. /\ KeyTrue(minute[k], minuteSent[k], PerMinute, End(k, MinuteLen), clock)
          /\ KeyTrue(day[k], daySent[k], PerDay, End(k, DayLen), clock)
      BY DEF IInv, KeysTrue
    <2>4. /\ minute'[k] = IF minute[k].expires = clock + 1 THEN Missing ELSE minute[k]
          /\ day'[k] = IF day[k].expires = clock + 1 THEN Missing ELSE day[k]
      BY <1>1 DEF Tick, Expire
    <2> QED
      <3>1. /\ minute'[k] \in Counter
            /\ KeyTrue(minute'[k], minuteSent[k], PerMinute, End(k, MinuteLen), clock + 1)
        BY <1>1, <2>1, <2>2, <2>3, <2>4, TimeKeepsKey
      <3>2. /\ day'[k] \in Counter
            /\ KeyTrue(day'[k], daySent[k], PerDay, End(k, DayLen), clock + 1)
        BY <1>1, <2>1, <2>2, <2>3, <2>4, TimeKeepsKey
      <3> QED
        BY <3>1, <3>2
  <1>3. TypeOK'
    <2>1. /\ \A k \in Keys : minute'[k] \in Counter /\ day'[k] \in Counter
          /\ minute' = [k \in Keys |-> minute'[k]] /\ day' = [k \in Keys |-> day'[k]]
      <3>1. minute' = Expire(minute) /\ day' = Expire(day)
        BY DEF Tick
      <3> QED
        BY <1>2, <3>1, Zenon DEF Expire
    <2>2. minute' \in [Keys -> Counter] /\ day' \in [Keys -> Counter]
      BY <2>1, Zenon
    <2> QED
      BY <1>1, <2>2 DEF IInv, TypeOK, Tick
  <1>4. Punctual'
    BY <1>1 DEF IInv, TypeOK, Punctual, Tick
  <1>5. KeysTrue'
    BY <1>1, <1>2 DEF KeysTrue, Tick
  <1> QED
    BY <1>3, <1>4, <1>5 DEF IInv

\* Reading the clock keeps the invariant.
LEMMA ReadClockKeepsIInv ==
    ASSUME IInv, NEW c \in Clients, ReadClock(c) PROVE IInv'
  <1> USE RateAssumption
  <1>1. TypeOK'
    BY DEF IInv, TypeOK, ReadClock
  <1>2. Punctual'
    BY DEF IInv, TypeOK, Punctual, ReadClock
  <1>3. KeysTrue'
    BY DEF IInv, KeysTrue, ReadClock
  <1> QED
    BY <1>1, <1>2, <1>3 DEF IInv

\* The run of the script in Redis keeps the invariant.
LEMMA ScriptKeepsIInv ==
    ASSUME IInv, NEW c \in Clients, Script(c) PROVE IInv'
  <1> USE RateAssumption
  <1> DEFINE r == reading[c]
             m == MinuteOf(r)
             d == DayOf(r)
  <1>1. r \in Nat /\ r <= MaxTime /\ clock \in Nat /\ r <= clock /\ clock <= r + MaxLag
    BY DEF IInv, TypeOK, Punctual, Script
  <1>2. /\ m \in Keys /\ r < End(m, MinuteLen) /\ End(m, MinuteLen) <= r + MinuteLen
        /\ d \in Keys /\ r < End(d, DayLen) /\ End(d, DayLen) <= r + DayLen
    <2>1. MinuteLen \in Nat \ {0} /\ DayLen \in Nat \ {0} /\ MaxTime \in Nat
      OBVIOUS
    <2>2. /\ r \div MinuteLen \in 0 .. r /\ r < End(r \div MinuteLen, MinuteLen)
          /\ End(r \div MinuteLen, MinuteLen) <= r + MinuteLen
      BY <1>1, <2>1, Window
    <2>3. /\ r \div DayLen \in 0 .. r /\ r < End(r \div DayLen, DayLen)
          /\ End(r \div DayLen, DayLen) <= r + DayLen
      BY <1>1, <2>1, Window
    <2>4. 0 .. r \subseteq Keys
      BY <1>1, <2>1 DEF Keys
    <2> QED
      BY <2>2, <2>3, <2>4, Zenon DEF MinuteOf, DayOf
  <1>3. End(m, MinuteLen) \in Nat /\ End(d, DayLen) \in Nat
    BY <1>2, EndIsNat DEF Keys
  <1>4. reading' \in [Clients -> {-1} \cup (0 .. MaxTime)] /\ Punctual'
    <2>1. reading' = [reading EXCEPT ![c] = -1] /\ clock' = clock
      BY DEF Script
    <2>2. reading' \in [Clients -> {-1} \cup (0 .. MaxTime)]
      BY <2>1 DEF IInv, TypeOK
    <2>3. Punctual'
      <3> SUFFICES ASSUME NEW b \in Clients, reading'[b] >= 0
                   PROVE  reading'[b] <= clock' /\ clock' <= reading'[b] + MaxLag
        BY DEF Punctual
      <3>1. reading'[b] = reading[b]
        BY <2>1 DEF IInv, TypeOK
      <3> QED
        BY <2>1, <3>1 DEF IInv, Punctual
    <2> QED
      BY <2>2, <2>3
  <1>5. CASE ~Granted(m, d)
    <2>1. UNCHANGED <<clock, minute, day, minuteSent, daySent>>
      BY <1>5 DEF Script
    <2> QED
      BY <1>4, <2>1 DEF IInv, TypeOK, KeysTrue
  <1>6. CASE Granted(m, d)
    <2>1. /\ minute' = Incr(minute, m, MinuteTtl) /\ day' = Incr(day, d, DayTtl)
          /\ minuteSent' = [minuteSent EXCEPT ![m] = @ + 1]
          /\ daySent' = [daySent EXCEPT ![d] = @ + 1]
          /\ clock' = clock
      BY <1>6 DEF Script
    <2>2. /\ minute[m] \in Counter /\ day[d] \in Counter
          /\ minuteSent[m] \in Nat /\ daySent[d] \in Nat
          /\ minute[m].count < PerMinute /\ day[d].count < PerDay
      BY <1>2, <1>6 DEF IInv, TypeOK, Granted
    <2>3. /\ KeyTrue(minute[m], minuteSent[m], PerMinute, End(m, MinuteLen), clock)
          /\ KeyTrue(day[d], daySent[d], PerDay, End(d, DayLen), clock)
      BY <1>2 DEF IInv, KeysTrue
    <2>4. /\ clock < End(m, MinuteLen) + MaxLag /\ clock < End(d, DayLen) + MaxLag
          /\ End(m, MinuteLen) <= clock + MinuteLen /\ End(d, DayLen) <= clock + DayLen
      BY <1>1, <1>2, <1>3
    <2>5. /\ minute'[m] = [count   |-> minute[m].count + 1,
                           expires |-> IF minute[m].count = 0 THEN clock + MinuteTtl
                                       ELSE minute[m].expires]
          /\ minuteSent'[m] = minuteSent[m] + 1
      BY <1>2, <2>1 DEF IInv, TypeOK, Incr
    <2>6. /\ day'[d] = [count   |-> day[d].count + 1,
                        expires |-> IF day[d].count = 0 THEN clock + DayTtl
                                    ELSE day[d].expires]
          /\ daySent'[d] = daySent[d] + 1
      BY <1>2, <2>1 DEF IInv, TypeOK, Incr
    <2>7. /\ minute'[m] \in Counter
          /\ KeyTrue(minute'[m], minuteSent'[m], PerMinute, End(m, MinuteLen), clock)
      <3>1. /\ PerMinute \in Nat /\ MinuteLen \in Nat /\ MinuteTtl \in Nat
            /\ MinuteTtl >= MinuteLen + MaxLag /\ MinuteLen > 0
        OBVIOUS
      <3>2. /\ minute'[m] \in Counter
            /\ KeyTrue(minute'[m], minuteSent[m] + 1, PerMinute, End(m, MinuteLen), clock)
        BY <1>1, <1>3, <2>2, <2>3, <2>4, <2>5, <3>1, GrantKeepsKey, Zenon
      <3> QED
        BY <2>5, <3>2
    <2>8. /\ day'[d] \in Counter
          /\ KeyTrue(day'[d], daySent'[d], PerDay, End(d, DayLen), clock)
      <3>1. /\ PerDay \in Nat /\ DayLen \in Nat /\ DayTtl \in Nat
            /\ DayTtl >= DayLen + MaxLag /\ DayLen > 0
        OBVIOUS
      <3>2. /\ day'[d] \in Counter
            /\ KeyTrue(day'[d], daySent[d] + 1, PerDay, End(d, DayLen), clock)
        BY <1>1, <1>3, <2>2, <2>3, <2>4, <2>6, <3>1, GrantKeepsKey, Zenon
      <3> QED
        BY <2>6, <3>2
    <2>9. /\ \A k \in Keys : k # m => minute'[k] = minute[k] /\ minuteSent'[k] = minuteSent[k]
          /\ \A k \in Keys : k # d => day'[k] = day[k] /\ daySent'[k] = daySent[k]
      BY <2>1 DEF IInv, TypeOK, Incr
    <2>10. TypeOK'
      <3>1. /\ \A k \in Keys : minute'[k] \in Counter /\ minuteSent'[k] \in Nat
            /\ \A k \in Keys : day'[k] \in Counter /\ daySent'[k] \in Nat
        BY <2>2, <2>5, <2>6, <2>7, <2>8, <2>9 DEF IInv, TypeOK
      <3>2. /\ minute' = [k \in Keys |-> minute'[k]] /\ day' = [k \in Keys |-> day'[k]]
            /\ minuteSent' = [k \in Keys |-> minuteSent'[k]]
            /\ daySent' = [k \in Keys |-> daySent'[k]]
        BY <2>1, Zenon DEF IInv, TypeOK, Incr
      <3>3. /\ minute' \in [Keys -> Counter] /\ minuteSent' \in [Keys -> Nat]
            /\ day' \in [Keys -> Counter] /\ daySent' \in [Keys -> Nat]
        BY <3>1, <3>2, Zenon
      <3> QED
        BY <1>4, <2>1, <3>3 DEF IInv, TypeOK
    <2>11. KeysTrue'
      <3> SUFFICES ASSUME NEW k \in Keys
                   PROVE  /\ KeyTrue(minute'[k], minuteSent'[k], PerMinute, End(k, MinuteLen), clock)
                          /\ KeyTrue(day'[k], daySent'[k], PerDay, End(k, DayLen), clock)
        BY <2>1 DEF KeysTrue
      <3>1. /\ KeyTrue(minute[k], minuteSent[k], PerMinute, End(k, MinuteLen), clock)
            /\ KeyTrue(day[k], daySent[k], PerDay, End(k, DayLen), clock)
        BY DEF IInv, KeysTrue
      <3> QED
        BY <2>7, <2>8, <2>9, <3>1
    <2> QED
      BY <1>4, <2>10, <2>11 DEF IInv
  <1> QED
    BY <1>5, <1>6

\* A call that is given up keeps the invariant.
LEMMA AbandonKeepsIInv ==
    ASSUME IInv, NEW c \in Clients, Abandon(c) PROVE IInv'
  <1> USE RateAssumption
  <1>1. TypeOK'
    BY DEF IInv, TypeOK, Abandon
  <1>2. Punctual'
    BY DEF IInv, TypeOK, Punctual, Abandon
  <1>3. KeysTrue'
    BY DEF IInv, KeysTrue, Abandon
  <1> QED
    BY <1>1, <1>2, <1>3 DEF IInv

\* Every step keeps the invariant.
LEMMA NextKeepsIInv == IInv /\ [Next]_vars => IInv'
  <1> SUFFICES ASSUME IInv, [Next]_vars PROVE IInv'
    OBVIOUS
  <1>1. CASE Tick
    BY <1>1, TickKeepsIInv
  <1>2. ASSUME NEW c \in Clients, ReadClock(c) PROVE IInv'
    BY <1>2, ReadClockKeepsIInv
  <1>3. ASSUME NEW c \in Clients, Script(c) PROVE IInv'
    BY <1>3, ScriptKeepsIInv
  <1>4. CASE UNCHANGED vars
    BY <1>4 DEF vars, IInv, TypeOK, Punctual, KeysTrue
  <1>5. ASSUME NEW c \in Clients, Abandon(c) PROVE IInv'
    BY <1>5, AbandonKeepsIInv
  <1> QED
    BY <1>1, <1>2, <1>3, <1>4, <1>5 DEF Next

-----------------------------------------------------------------------------
(* What the quota promises *)

\* The invariant holds in every reachable state.
LEMMA AlwaysIInv == Spec => []IInv
  BY InitIInv, NextKeepsIInv, PTL DEF Spec

\* Counters, readings and histories keep their types (ratelimit.py).
THEOREM TypeCorrect == Spec => []TypeOK
  <1>1. IInv => TypeOK
    BY DEF IInv
  <1> QED
    BY <1>1, AlwaysIInv, PTL

\* No minute and no day ever sees more sends granted than its quota, whatever the lag
\* between a client's clock and its script, as long as a counter outlives its window by
\* that lag (ratelimit.py: the Lua script and its times to live).
THEOREM QuotaAlwaysHolds == Spec => []QuotaHolds
  <1>1. IInv => QuotaHolds
    BY DEF IInv, KeysTrue, KeyTrue, QuotaHolds
  <1> QED
    BY <1>1, AlwaysIInv, PTL

\* A counter in Redis is the number of sends granted in its window: a refused send uses
\* nothing up (ratelimit.py: check first, increment afterwards).
THEOREM RefusalsAlwaysFree == Spec => []RefusalsAreFree
  <1>1. IInv => RefusalsAreFree
    BY DEF IInv, KeysTrue, KeyTrue, RefusalsAreFree
  <1> QED
    BY <1>1, AlwaysIInv, PTL

-----------------------------------------------------------------------------
(* The limiter inside the pipeline *)

\* Every step of the pipeline is one of the limiter's or leaves the limiter alone.
LEMMA PipelineStepIsLimiterStep == [PipelineNext]_allVars => [Next]_vars
  <1> SUFFICES ASSUME [PipelineNext]_allVars PROVE [Next]_vars
    OBVIOUS
  <1> USE PipelineAssumption
  <1>1. CASE UNCHANGED allVars
    BY <1>1 DEF allVars
  <1>2. CASE \E m \in inbox : TakeJob(m)
    BY <1>2 DEF TakeJob
  <1>3. CASE RunHandler \/ CountStep \/ HandlerRaises \/ HandlerDone \/ FinishJob
    BY <1>3 DEF RunHandler, CountStep, HandlerRaises, HandlerDone, FinishJob
  <1>4. CASE AskQuota \/ SendStep \/ SendFails \/ RunBreaks
    BY <1>4 DEF AskQuota, SendStep, SendFails, RunBreaks, Next
  <1>5. CASE OthersSend \/ TimePasses
    BY <1>5 DEF OthersSend, TimePasses, Next
  <1> QED
    BY <1>1, <1>2, <1>3, <1>4, <1>5 DEF PipelineNext

\* The pipeline implements the limiter: its steps on the quota are ReadClock and Script
\* of the worker, and the rest is the other clients' (worker/tasks.py, sending.py).
THEOREM PipelineIsLimited == PipelineSpec => Spec
  <1>1. PipelineInit => Init
    BY DEF PipelineInit
  <1> QED
    BY <1>1, PipelineStepIsLimiterStep, PTL DEF PipelineSpec, Spec

\* Handlers that fan out, raise and are run again never exceed the quota (sending.py,
\* ratelimit.py).
THEOREM PipelineKeepsQuota == PipelineSpec => []QuotaHolds
  BY PipelineIsLimited, QuotaAlwaysHolds, PTL

\* Sends the quota refuses use nothing up, whichever handler makes them (ratelimit.py).
THEOREM PipelineRefusalsFree == PipelineSpec => []RefusalsAreFree
  BY PipelineIsLimited, RefusalsAlwaysFree, PTL

-----------------------------------------------------------------------------
(* Numbers in increasing order *)

\* A finite set of numbers has one enumeration in increasing order, which leaves nothing
\* out: the place of a number is how many are not above it.
LEMMA AscendingIs ==
    ASSUME NEW S \in SUBSET Nat, IsFiniteSet(S)
    PROVE  /\ Cardinality(S) \in Nat
           /\ Ascending(S) \in [1 .. Cardinality(S) -> S]
           /\ \A i, j \in 1 .. Cardinality(S) : i < j => Ascending(S)[i] < Ascending(S)[j]
           /\ \A x \in S : \E i \in 1 .. Cardinality(S) : Ascending(S)[i] = x
  <1> DEFINE c == Cardinality(S)
             Below(x) == {k \in S : k <= x}
             rank == [x \in S |-> Cardinality(Below(x))]
             Increasing(s) == \A i, j \in 1 .. c : i < j => s[i] < s[j]
  <1>1. c \in Nat /\ IsFiniteSet(1 .. c) /\ Cardinality(1 .. c) = c
    BY FS_CardinalityType, FS_Interval
  <1>2. \A x \in S : /\ IsFiniteSet(Below(x)) /\ Cardinality(Below(x)) \in 1 .. c
    <2> TAKE x \in S
    <2>1. Below(x) \in SUBSET S
      OBVIOUS
    <2>2. IsFiniteSet(Below(x)) /\ Cardinality(Below(x)) <= c
      BY <2>1, FS_Subset
    <2>3. x \in Below(x)
      OBVIOUS
    <2>4. Cardinality(Below(x)) \in Nat /\ Cardinality(Below(x)) # 0
      BY <2>2, <2>3, FS_CardinalityType, FS_EmptySet
    <2> QED
      BY <1>1, <2>2, <2>4
  <1>3. \A x, y \in S : x < y => rank[x] < rank[y]
    <2> SUFFICES ASSUME NEW x \in S, NEW y \in S, x < y PROVE rank[x] < rank[y]
      OBVIOUS
    <2>0. x \in Nat /\ y \in Nat /\ \A k \in S : k \in Nat
      OBVIOUS
    <2>1. Below(x) \in SUBSET Below(y) /\ y \in Below(y) /\ y \notin Below(x)
      <3>1. \A k \in S : k <= x => k <= y
        BY <2>0
      <3>2. y <= y /\ ~(y <= x)
        BY <2>0
      <3> QED
        BY <3>1, <3>2, Zenon
    <2>2. /\ Cardinality(Below(x)) <= Cardinality(Below(y))
          /\ Cardinality(Below(x)) # Cardinality(Below(y))
      BY <1>2, <2>1, FS_Subset
    <2>3. rank[x] = Cardinality(Below(x)) /\ rank[y] = Cardinality(Below(y))
      OBVIOUS
    <2>4. Cardinality(Below(x)) \in Nat /\ Cardinality(Below(y)) \in Nat
      BY <1>1, <1>2
    <2> HIDE DEF rank, Below
    <2> QED
      BY <2>2, <2>3, <2>4
  <1> HIDE DEF Below
  <1>4. rank \in [S -> 1 .. c]
    BY <1>2
  <1> HIDE DEF rank
  <1>5. \A x, y \in S : rank[x] = rank[y] => x = y
    <2>1. \A x, y \in S : x \in Nat /\ y \in Nat
      OBVIOUS
    <2>2. \A x \in S : rank[x] \in 1 .. c
      BY <1>4
    <2> QED
      BY <1>1, <1>3, <2>1, <2>2
  <1>6. rank \in Surjection(S, 1 .. c)
    BY <1>1, <1>4, <1>5, FS_Injection DEF Injection, IsInjective
  <1>7. \A i \in 1 .. c : \E x \in S : rank[x] = i
    BY <1>6 DEF Surjection
  <1> DEFINE enum == [i \in 1 .. c |-> CHOOSE x \in S : rank[x] = i]
  <1>8. \A i \in 1 .. c : enum[i] \in S /\ rank[enum[i]] = i
    BY <1>7
  <1>9. enum \in [1 .. c -> S]
    BY <1>8
  <1> HIDE DEF enum
  <1>10. Increasing(enum)
    <2> SUFFICES ASSUME NEW i \in 1 .. c, NEW j \in 1 .. c, i < j PROVE enum[i] < enum[j]
      OBVIOUS
    <2>1. enum[i] \in Nat /\ enum[j] \in Nat
      BY <1>8
    <2>2. enum[i] # enum[j]
      BY <1>8, <1>1
    <2>3. enum[j] < enum[i] => j < i
      BY <1>3, <1>8
    <2>4. i \in Nat /\ j \in Nat /\ ~(j < i)
      BY <1>1
    <2> QED
      BY <2>1, <2>2, <2>3, <2>4
  <1>11. Ascending(S) \in [1 .. c -> S] /\ Increasing(Ascending(S))
    BY <1>9, <1>10 DEF Ascending
  <1> DEFINE a == Ascending(S)
  <1>12. \A i, j \in 1 .. c : a[i] = a[j] => i = j
    <2> SUFFICES ASSUME NEW i \in 1 .. c, NEW j \in 1 .. c, a[i] = a[j] PROVE i = j
      OBVIOUS
    <2>1. a[i] \in Nat
      BY <1>11
    <2> QED
      BY <1>1, <1>11, <2>1
  <1>13. a \in Surjection(1 .. c, S)
    BY <1>1, <1>11, <1>12, FS_Injection DEF Injection, IsInjective
  <1> QED
    BY <1>1, <1>11, <1>13 DEF Surjection

\* The enumeration as a sequence: it is as long as the set is large, has each number of
\* the set once, and nothing else.
LEMMA AscendingSequence ==
    ASSUME NEW S \in SUBSET Nat, IsFiniteSet(S)
    PROVE  /\ Ascending(S) \in Seq(S) /\ Len(Ascending(S)) = Cardinality(S)
           /\ DOMAIN Ascending(S) = 1 .. Len(Ascending(S))
           /\ ToSet(Ascending(S)) = S
           /\ \A i, j \in 1 .. Len(Ascending(S)) : i < j => Ascending(S)[i] < Ascending(S)[j]
           /\ \A i, j \in 1 .. Len(Ascending(S)) : Ascending(S)[i] = Ascending(S)[j] => i = j
  <1> DEFINE a == Ascending(S)
             c == Cardinality(S)
  <1>1. /\ c \in Nat /\ a \in [1 .. c -> S]
        /\ \A i, j \in 1 .. c : i < j => a[i] < a[j]
        /\ \A x \in S : \E i \in 1 .. c : a[i] = x
    BY AscendingIs
  <1> HIDE DEF a, c
  <1>2. a \in Seq(S) /\ Len(a) = c /\ DOMAIN a = 1 .. c
    BY <1>1
  <1>3. ToSet(a) = S
    BY <1>1, <1>2 DEF ToSet
  <1>4. \A i, j \in 1 .. c : a[i] = a[j] => i = j
    <2> SUFFICES ASSUME NEW i \in 1 .. c, NEW j \in 1 .. c, a[i] = a[j] PROVE i = j
      OBVIOUS
    <2>1. a[i] \in S /\ a[j] \in S
      BY <1>1
    <2>2. a[i] \in Nat /\ a[j] \in Nat
      BY <2>1
    <2>3. (i < j => a[i] < a[j]) /\ (j < i => a[j] < a[i])
      BY <1>1
    <2> QED
      BY <1>1, <2>2, <2>3
  <1> QED
    BY <1>1, <1>2, <1>3, <1>4 DEF a, c

-----------------------------------------------------------------------------
(* The chain *)

\* What the registry loads: each handler once, and the group relay only with a target.
ChainSound ==
    /\ chain \in Seq(Handlers)
    /\ \A i, k \in 1 .. Len(chain) : chain[i] = chain[k] => i = k
    /\ \A i \in 1 .. Len(chain) : chain[i] = "GroupRelayHandler" => RelayTargets # <<>>

\* Whichever handler fails to load, the chain has no handler twice (discover_handlers).
LEMMA LoadedIsSound == Discover => ChainSound
  <1> SUFFICES ASSUME NEW broken, chain = Loaded(broken) PROVE ChainSound
    BY DEF Discover
  <1> DEFINE on == {i \in DOMAIN Order : Order[i] \in Enabled \ {broken}}
             places == Ascending(on)
  <1>1. /\ Order \in [1 .. 5 -> Handlers] /\ DOMAIN Order = 1 .. 5
        /\ \A i, k \in 1 .. 5 : Order[i] = Order[k] => i = k
    BY DEF Order, Handlers, ToSet
  <1>2. on \in SUBSET (1 .. 5) /\ on \in SUBSET Nat /\ IsFiniteSet(on)
    <2>1. on \in SUBSET (1 .. 5)
      BY <1>1
    <2>2. \A n \in Nat : IsFiniteSet(1 .. n)
      BY FS_Interval
    <2>3. 5 \in Nat
      OBVIOUS
    <2>4. IsFiniteSet(1 .. 5)
      BY <2>2, <2>3, Zenon
    <2> HIDE DEF on
    <2>5. IsFiniteSet(on)
      BY <2>1, <2>4, FS_Subset
    <2>6. on \in SUBSET Nat
      BY <2>1
    <2> QED
      BY <2>1, <2>5, <2>6
  <1>3. /\ places \in Seq(on) /\ DOMAIN places = 1 .. Len(places)
        /\ \A i, j \in 1 .. Len(places) : places[i] = places[j] => i = j
    BY <1>2, AscendingSequence
  <1>4. chain = [k \in 1 .. Len(places) |-> Order[places[k]]]
    BY <1>3 DEF Loaded
  <1>5. \A k \in 1 .. Len(places) : places[k] \in on
    BY <1>3
  <1>6. \A i \in on : Order[i] \in Handlers /\ Order[i] \in Enabled
    BY <1>1
  <1> HIDE DEF on, places
  <1>7. chain \in Seq(Handlers) /\ Len(chain) = Len(places)
    BY <1>3, <1>4, <1>5, <1>6
  <1>8. \A i, k \in 1 .. Len(chain) : chain[i] = chain[k] => i = k
    <2> SUFFICES ASSUME NEW i \in 1 .. Len(chain), NEW k \in 1 .. Len(chain), chain[i] = chain[k]
                 PROVE  i = k
      OBVIOUS
    <2>1. i \in 1 .. Len(places) /\ k \in 1 .. Len(places)
      BY <1>7
    <2>2. places[i] \in 1 .. 5 /\ places[k] \in 1 .. 5
      BY <1>2, <1>5, <2>1
    <2>3. chain[i] = Order[places[i]] /\ chain[k] = Order[places[k]]
      BY <1>4, <2>1
    <2>4. places[i] = places[k]
      BY <1>1, <2>2, <2>3
    <2> QED
      BY <1>3, <2>1, <2>4
  <1>9. \A i \in 1 .. Len(chain) : chain[i] \in Enabled
    BY <1>4, <1>5, <1>6, <1>7
  <1>10. "GroupRelayHandler" \in Enabled => RelayTargets # <<>>
    BY DEF Enabled
  <1> QED
    BY <1>7, <1>8, <1>9, <1>10 DEF ChainSound

-----------------------------------------------------------------------------
(* The steps of a run *)

\* The text of a message is a sequence of lines.
HasLines(m) == m.lines \in Seq(ToSet(m.lines))

\* Every step a handler may make for a message.
StepsFor(m) ==
    {TooLong}
    \cup [do : {"count"}, key : {"relay", "broadcast", "sage"}, by : Nat]
    \cup [do : {"send"}, line : Nat,
          to : {m.chat} \cup ToSet(RelayTargets) \cup {Destination(l.to) : l \in ToSet(m.lines)},
          says : {NoReceipt, [sent |-> Sent(m), failures |-> Failures(m)]}]

\* The lines of a batch: those with a destination, and the others, are each listed once
\* and in order, and together they are all that is no comment (broadcast.py).
LEMMA BatchIs ==
    ASSUME NEW m, HasLines(m)
    PROVE  /\ IsFiniteSet(Content(m)) /\ Content(m) \in SUBSET (DOMAIN m.lines)
           /\ DOMAIN m.lines \in SUBSET (Nat \ {0})
           /\ Readable(m) \in Seq(Content(m)) /\ DOMAIN Readable(m) = 1 .. Len(Readable(m))
           /\ Len(Readable(m)) = Cardinality(ToSet(Readable(m)))
           /\ \A i, j \in 1 .. Len(Readable(m)) : Readable(m)[i] = Readable(m)[j] => i = j
           /\ ToSet(Failures(m)) = Content(m) \ ToSet(Readable(m))
           /\ \A i, j \in DOMAIN Failures(m) : i < j => Failures(m)[i] < Failures(m)[j]
  <1> DEFINE n == Len(m.lines)
             R == {k \in Entries(m) : Destination(m.lines[k].to) # NoJid}
             F == Content(m) \ ToSet(Readable(m))
  <1>1. n \in Nat /\ DOMAIN m.lines = 1 .. n
    BY DEF HasLines
  <1>2. IsFiniteSet(1 .. n)
    BY <1>1, FS_Interval
  <1>3. Content(m) \in SUBSET (1 .. n)
    BY <1>1 DEF Content
  <1>4. IsFiniteSet(Content(m))
    BY <1>2, <1>3, FS_Subset
  <1>5. R \in SUBSET Content(m)
    BY DEF Entries
  <1>6. Content(m) \in SUBSET Nat
    BY <1>3
  <1>7. R \in SUBSET Nat /\ IsFiniteSet(R)
    BY <1>4, <1>5, <1>6, FS_Subset
  <1>8. F \in SUBSET Nat /\ IsFiniteSet(F)
    <2>1. F \in SUBSET Content(m)
      OBVIOUS
    <2> HIDE DEF F
    <2> QED
      BY <1>4, <1>6, <2>1, FS_Subset
  <1>9. Readable(m) = Ascending(R) /\ Failures(m) = Ascending(F)
    BY DEF Readable, Failures
  <1> HIDE DEF R, F
  <1>10. /\ Readable(m) \in Seq(R) /\ DOMAIN Readable(m) = 1 .. Len(Readable(m))
         /\ Len(Readable(m)) = Cardinality(R) /\ ToSet(Readable(m)) = R
         /\ \A i, j \in 1 .. Len(Readable(m)) : Readable(m)[i] = Readable(m)[j] => i = j
    BY <1>7, <1>9, AscendingSequence
  <1>11. /\ ToSet(Failures(m)) = F /\ DOMAIN Failures(m) = 1 .. Len(Failures(m))
         /\ \A i, j \in 1 .. Len(Failures(m)) : i < j => Failures(m)[i] < Failures(m)[j]
    BY <1>8, <1>9, AscendingSequence
  <1>12. Readable(m) \in Seq(Content(m))
    BY <1>5, <1>10
  <1>13. DOMAIN m.lines \in SUBSET (Nat \ {0})
    BY <1>1
  <1> QED
    BY <1>1, <1>3, <1>4, <1>10, <1>11, <1>12, <1>13 DEF F

\* A fan-out sends to each readable line, then counts them all, then ends with its
\* receipt or with a text that is too long (BroadcastHandler.handle).
LEMMA FanoutIs ==
    ASSUME NEW m, HasLines(m)
    PROVE  LET n    == Len(Readable(m))
               last == IF n = 0 THEN 1 ELSE n + 2
           IN  /\ n \in Nat
               /\ Fanout(m) \in Seq(StepsFor(m)) /\ Len(Fanout(m)) = last
               /\ \A k \in 1 .. n : Fanout(m)[k] = SendTo(Sent(m)[k], Readable(m)[k])
               /\ n # 0 => Fanout(m)[n + 1] = Count("broadcast", n)
               /\ Fanout(m)[last] \in
                     {TooLong, Receipt(m, [sent |-> Sent(m), failures |-> Failures(m)])}
  <1> DEFINE n    == Len(Readable(m))
             X    == StepsFor(m)
             A    == [k \in 1 .. n |-> SendTo(Sent(m)[k], Readable(m)[k])]
             B    == IF n = 0 THEN <<>> ELSE <<Count("broadcast", n)>>
             Says == [sent |-> Sent(m), failures |-> Failures(m)]
             e    == IF m.long /\ Failures(m) # <<>> THEN TooLong ELSE Receipt(m, Says)
  <1>1. /\ Readable(m) \in Seq(Content(m)) /\ DOMAIN Readable(m) = 1 .. n
        /\ Content(m) \in SUBSET (DOMAIN m.lines) /\ DOMAIN m.lines \in SUBSET (Nat \ {0})
    BY BatchIs
  <1>2. n \in Nat
    BY <1>1
  <1>3. \A k \in 1 .. n : SendTo(Sent(m)[k], Readable(m)[k]) \in X
    <2> SUFFICES ASSUME NEW k \in 1 .. n PROVE SendTo(Sent(m)[k], Readable(m)[k]) \in X
      OBVIOUS
    <2>1. Readable(m)[k] \in DOMAIN m.lines /\ Readable(m)[k] \in Nat
      BY <1>1
    <2>2. Sent(m)[k] = Destination(m.lines[Readable(m)[k]].to)
      BY <1>1 DEF Sent
    <2>3. m.lines[Readable(m)[k]] \in ToSet(m.lines)
      BY <2>1 DEF ToSet
    <2> QED
      BY <2>1, <2>2, <2>3 DEF StepsFor, SendTo
  <1>4. Count("broadcast", n) \in X
    BY <1>2 DEF StepsFor, Count
  <1>5. e \in X /\ e \in {TooLong, Receipt(m, Says)}
    BY DEF StepsFor, Receipt, Reply, SendTo
  <1>6. Fanout(m) = (A \o B) \o <<e>>
    <2>1. Ending(m) = <<e>>
      BY DEF Ending
    <2>2. [k \in DOMAIN Readable(m) |-> SendTo(Sent(m)[k], Readable(m)[k])] = A
      BY <1>1
    <2>3. (IF Readable(m) = <<>> THEN <<>> ELSE <<Count("broadcast", n)>>) = B
      BY <1>1
    <2> QED
      BY <2>1, <2>2, <2>3 DEF Fanout
  <1> HIDE DEF X, e
  <1>7. A \in Seq(X) /\ Len(A) = n
    BY <1>2, <1>3
  <1>8. \A k \in 1 .. n : A[k] = SendTo(Sent(m)[k], Readable(m)[k])
    OBVIOUS
  <1> HIDE DEF A
  <1>9. CASE n = 0
    <2>1. A = <<>> /\ B = <<>>
      BY <1>7, <1>9
    <2>2. Fanout(m) = <<e>>
      <3> HIDE DEF B
      <3>1. Fanout(m) = (<<>> \o <<>>) \o <<e>>
        BY <1>6, <2>1, Zenon
      <3>2. <<e>> \in Seq(X) /\ <<>> \in Seq(X)
        BY <1>5
      <3>3. <<>> \o <<e>> = <<e>>
        BY <3>2, ConcatEmptySeq
      <3>4. <<>> \o <<>> = <<>>
        BY <3>2, ConcatEmptySeq
      <3> QED
        BY <3>1, <3>3, <3>4, Zenon
    <2> QED
      BY <1>5, <1>9, <2>2 DEF X
  <1>10. CASE n # 0
    <2> DEFINE s == A \o B
    <2>1. /\ s \in Seq(X) /\ Len(s) = n + 1 /\ s[n + 1] = Count("broadcast", n)
          /\ \A k \in 1 .. n : s[k] = A[k]
      BY <1>2, <1>4, <1>7, <1>10
    <2>0. Fanout(m) = s \o <<e>>
      BY <1>6
    <2> HIDE DEF s
    <2>2. /\ Fanout(m) \in Seq(X) /\ Len(Fanout(m)) = n + 2 /\ Fanout(m)[n + 2] = e
          /\ \A k \in 1 .. n + 1 : Fanout(m)[k] = s[k]
      BY <1>2, <1>5, <2>0, <2>1
    <2> QED
      BY <1>2, <1>5, <1>8, <1>10, <2>1, <2>2 DEF X
  <1> QED
    BY <1>9, <1>10

\* How many messages a broadcast fans out to.
Width(m) == IF Broadcast(m) = Fanout(m) THEN Len(Readable(m)) ELSE 0

\* A broadcast hands each readable line over once, counts them in one step after the last,
\* and only its last step may be a receipt, which names them all (BroadcastHandler.handle).
LEMMA BroadcastIs ==
    ASSUME NEW m, HasLines(m)
    PROVE  LET b == Broadcast(m)
               w == Width(m)
           IN  /\ w \in Nat /\ b \in Seq(StepsFor(m)) /\ w <= Len(b)
               /\ w # 0 => Len(b) = w + 2 /\ b[w + 1] = Count("broadcast", w)
               /\ \A k \in 1 .. w : b[k] = SendTo(Sent(m)[k], Readable(m)[k])
               /\ \A k \in w + 1 .. Len(b) :
                     /\ b[k].do = "send" => b[k].line = 0
                     /\ b[k].do = "count" => w # 0 /\ k = w + 1
               /\ \A k \in 1 .. Len(b) : b[k].do = "send" /\ b[k].says # NoReceipt =>
                     /\ b = Fanout(m) /\ k = Len(b) /\ w = Len(Readable(m))
                     /\ b[k].says = [sent |-> Sent(m), failures |-> Failures(m)]
  <1> DEFINE b == Broadcast(m)
             w == Width(m)
             X == StepsFor(m)
             Says == [sent |-> Sent(m), failures |-> Failures(m)]
  <1>1. CASE b = Fanout(m)
    <2> DEFINE last == IF w = 0 THEN 1 ELSE w + 2
    <2>1. /\ w \in Nat /\ w = Len(Readable(m))
          /\ b \in Seq(X) /\ Len(b) = last
          /\ \A k \in 1 .. w : b[k] = SendTo(Sent(m)[k], Readable(m)[k])
          /\ w # 0 => b[w + 1] = Count("broadcast", w)
          /\ b[last] \in {TooLong, Receipt(m, Says)}
      BY <1>1, FanoutIs DEF Width
    <2> HIDE DEF X, b, w
    <2>2. b[last].do = "send" => b[last].line = 0 /\ b[last].says = Says
      BY <2>1 DEF TooLong, Receipt, Reply, SendTo
    <2>3. b[last].do # "count"
      BY <2>1 DEF TooLong, Receipt, Reply, SendTo
    <2>4. w # 0 => b[w + 1].do = "count"
      BY <2>1 DEF Count
    <2>5. \A k \in 1 .. w : b[k].says = NoReceipt
      <3>1. \A to, line : SendTo(to, line).says = NoReceipt
        BY DEF SendTo
      <3> QED
        BY <2>1, <3>1
    <2>6. \A k \in w + 1 .. Len(b) : k = last \/ (w # 0 /\ k = w + 1)
      BY <2>1
    <2>7. \A k \in w + 1 .. Len(b) :
              /\ b[k].do = "send" => b[k].line = 0
              /\ b[k].do = "count" => w # 0 /\ k = w + 1
      BY <2>2, <2>3, <2>4, <2>6
    <2>8. \A k \in 1 .. Len(b) : b[k].do = "send" /\ b[k].says # NoReceipt => k = last
      <3>1. \A k \in 1 .. Len(b) : k \in 1 .. w \/ k \in w + 1 .. Len(b)
        BY <2>1
      <3> QED
        BY <2>4, <2>5, <2>6, <3>1
    <2>9. w <= Len(b) /\ (w # 0 => Len(b) = w + 2)
      BY <2>1
    <2> QED
      BY <1>1, <2>1, <2>2, <2>7, <2>8, <2>9 DEF X, b, w
  <1>2. CASE b # Fanout(m)
    <2>1. b = <<>> \/ b = <<Reply(m)>>
      BY <1>2 DEF Broadcast
    <2>2. w = 0
      BY <1>2 DEF Width
    <2>3. Reply(m) \in X /\ Reply(m).do = "send" /\ Reply(m).line = 0 /\ Reply(m).says = NoReceipt
      BY DEF StepsFor, Reply, SendTo
    <2> HIDE DEF X, b, w
    <2>4. b \in Seq(X) /\ Len(b) \in {0, 1} /\ (Len(b) = 1 => b[1] = Reply(m))
      <3>1. CASE b = <<>>
        BY <3>1
      <3>2. CASE b = <<Reply(m)>>
        BY <2>3, <3>2
      <3> QED
        BY <2>1, <3>1, <3>2
    <2>5. \A k \in 1 .. Len(b) : b[k] = Reply(m)
      BY <2>4
    <2>6. /\ w \in Nat /\ w <= Len(b) /\ 1 .. w = {}
          /\ w + 1 .. Len(b) = 1 .. Len(b)
      BY <2>2, <2>4
    <2> QED
      BY <2>2, <2>3, <2>4, <2>5, <2>6 DEF X, b, w
  <1> QED
    BY <1>1, <1>2

\* A relay counts first and then sends to every group; with a target it has more to do
\* than to count (GroupRelayHandler.handle).
LEMMA RelayIs ==
    ASSUME NEW m, HasLines(m)
    PROVE  /\ Relay(m) \in Seq(StepsFor(m)) /\ Len(Relay(m)) \in Nat \ {0}
           /\ Relay(m)[1] = Count("relay", 1)
           /\ \A k \in 2 .. Len(Relay(m)) : Relay(m)[k].do \in {"send", "raise"}
           /\ RelayTargets # <<>> => Len(Relay(m)) >= 2
  <1> DEFINE X == StepsFor(m)
             T == [k \in DOMAIN RelayTargets |-> SendTo(RelayTargets[k], k)]
             rest == IF m.long THEN <<TooLong>> ELSE T
             s == <<Count("relay", 1)>>
  <1> USE PipelineAssumption
  <1>1. DOMAIN RelayTargets = 1 .. Len(RelayTargets) /\ Len(RelayTargets) \in Nat
    OBVIOUS
  <1>2. \A k \in 1 .. Len(RelayTargets) : RelayTargets[k] \in ToSet(RelayTargets)
    BY <1>1 DEF ToSet
  <1>3. \A k \in 1 .. Len(RelayTargets) : SendTo(RelayTargets[k], k) \in X
    BY <1>1, <1>2 DEF StepsFor, SendTo
  <1>4. Count("relay", 1) \in X /\ TooLong \in X /\ TooLong.do = "raise"
    BY DEF StepsFor, Count, TooLong
  <1>5. \A k \in 1 .. Len(RelayTargets) : SendTo(RelayTargets[k], k).do = "send"
    BY DEF SendTo
  <1>6. Relay(m) = s \o rest
    BY DEF Relay
  <1> HIDE DEF X
  <1>7. /\ T \in Seq(X) /\ Len(T) = Len(RelayTargets)
        /\ \A k \in 1 .. Len(T) : T[k].do = "send"
    BY <1>1, <1>3, <1>5
  <1> HIDE DEF T
  <1>8. /\ rest \in Seq(X)
        /\ \A k \in 1 .. Len(rest) : rest[k].do \in {"send", "raise"}
        /\ RelayTargets # <<>> => Len(rest) >= 1
    BY <1>1, <1>4, <1>7
  <1>9. s \in Seq(X) /\ Len(s) = 1 /\ s[1] = Count("relay", 1)
    BY <1>4
  <1> HIDE DEF rest, s
  <1>10. /\ Relay(m) \in Seq(X) /\ Len(Relay(m)) = 1 + Len(rest) /\ Len(rest) \in Nat
         /\ Relay(m)[1] = Count("relay", 1)
         /\ \A k \in 2 .. 1 + Len(rest) : Relay(m)[k] = rest[k - 1]
    <2>1. /\ s \o rest \in Seq(X) /\ Len(s \o rest) = Len(s) + Len(rest)
          /\ \A k \in 1 .. Len(s) + Len(rest) :
                (s \o rest)[k] = IF k <= Len(s) THEN s[k] ELSE rest[k - Len(s)]
      BY <1>8, <1>9, ConcatProperties
    <2>2. Len(rest) \in Nat
      BY <1>8
    <2> DEFINE r == s \o rest
    <2>3. Relay(m) = r
      BY <1>6
    <2> HIDE DEF r
    <2>4. \A k \in 1 .. 1 + Len(rest) : r[k] = IF k <= 1 THEN s[k] ELSE rest[k - 1]
      BY <1>9, <2>1 DEF r
    <2>5. r[1] = Count("relay", 1)
      BY <1>9, <2>2, <2>4
    <2>6. \A k \in 2 .. 1 + Len(rest) : r[k] = rest[k - 1]
      BY <2>2, <2>4
    <2> QED
      BY <1>9, <2>1, <2>2, <2>3, <2>5, <2>6 DEF r
  <1>11. \A k \in 2 .. Len(Relay(m)) : Relay(m)[k].do \in {"send", "raise"}
    <2>1. \A k \in 2 .. 1 + Len(rest) : k - 1 \in 1 .. Len(rest)
      BY <1>10
    <2> QED
      BY <1>8, <1>10, <2>1
  <1> QED
    BY <1>8, <1>10, <1>11 DEF X

\* Every run of a handler is a sequence of steps (the handle of each class).
LEMMA RunIs ==
    ASSUME NEW m, HasLines(m), NEW h \in Handlers, NEW steps \in Runs(h, m)
    PROVE  /\ steps \in Seq(StepsFor(m))
           /\ h = "BroadcastHandler" => steps = Broadcast(m)
           /\ h = "GroupRelayHandler" => steps = Relay(m)
           /\ h \notin {"BroadcastHandler", "GroupRelayHandler"} =>
                 \A k \in 1 .. Len(steps) : steps[k].do = "count" => steps[k].key = "sage"
  <1> DEFINE X == StepsFor(m)
  <1>1. /\ Reply(m) \in X /\ Reply(m).do = "send" /\ Count("sage", 1) \in X
        /\ Count("sage", 1).key = "sage"
    BY DEF StepsFor, Reply, SendTo, Count
  <1>2. Broadcast(m) \in Seq(X) /\ Relay(m) \in Seq(X)
    BY BroadcastIs, RelayIs
  <1>3. h \in {"SageImportHandler", "PingHandler", "BroadcastHandler",
               "GroupRelayHandler", "FallbackLogHandler"}
    BY DEF Handlers, Order, ToSet
  <1> HIDE DEF X
  <1>4. CASE h = "BroadcastHandler"
    BY <1>2, <1>4 DEF Runs, X
  <1>5. CASE h = "GroupRelayHandler"
    BY <1>2, <1>5 DEF Runs, X
  <1>6. CASE h \notin {"BroadcastHandler", "GroupRelayHandler"}
    <2>1. steps \in {<<>>, <<Reply(m)>>, <<Count("sage", 1), Reply(m)>>}
      BY <1>3, <1>6 DEF Runs, Ping, FallbackLog, SageImport
    <2>2. /\ steps \in Seq(X)
          /\ \A k \in 1 .. Len(steps) : steps[k] \in {Reply(m), Count("sage", 1)}
      <3>1. CASE steps = <<>>
        BY <3>1
      <3>2. CASE steps = <<Reply(m)>>
        BY <1>1, <3>2
      <3>3. CASE steps = <<Count("sage", 1), Reply(m)>>
        BY <1>1, <3>3
      <3> QED
        BY <2>1, <3>1, <3>2, <3>3
    <2> QED
      BY <1>1, <1>6, <2>2 DEF X
  <1> QED
    BY <1>4, <1>5, <1>6

\* What is left of a run when p of its steps were made.
Rest(steps, p) == [i \in 1 .. Len(steps) - p |-> steps[p + i]]

\* The first step that is left is the next one, and without it the rest is the next rest.
LEMMA RestIs ==
    ASSUME NEW S, NEW steps \in Seq(S), NEW p \in 0 .. Len(steps)
    PROVE  /\ Rest(steps, p) \in Seq(S) /\ Len(Rest(steps, p)) = Len(steps) - p
           /\ Rest(steps, p) = <<>> <=> p = Len(steps)
           /\ p < Len(steps) => /\ Head(Rest(steps, p)) = steps[p + 1]
                                /\ Tail(Rest(steps, p)) = Rest(steps, p + 1)
  <1> DEFINE r == Rest(steps, p)
             n == Len(steps) - p
  <1>1. /\ n \in Nat /\ r \in Seq(S) /\ Len(r) = n
        /\ \A i \in 1 .. n : r[i] = steps[p + i]
    BY DEF Rest
  <1>2. r = <<>> <=> p = Len(steps)
    BY <1>1
  <1>3. ASSUME p < Len(steps)
        PROVE  Head(r) = steps[p + 1] /\ Tail(r) = Rest(steps, p + 1)
    <2> HIDE DEF r
    <2>1. r # <<>> /\ Head(r) = steps[p + 1]
      BY <1>1, <1>3
    <2>2. /\ Tail(r) \in Seq(S) /\ Len(Tail(r)) = n - 1
          /\ \A i \in 1 .. n - 1 : Tail(r)[i] = steps[p + (i + 1)]
      BY <1>1, <2>1, HeadTailProperties
    <2>3. Tail(r) = [i \in 1 .. n - 1 |-> steps[p + (i + 1)]]
      <3> DEFINE t == Tail(r)
      <3>1. t \in [1 .. n - 1 -> S]
        BY <2>2, LenProperties
      <3> HIDE DEF t
      <3>2. t = [i \in 1 .. n - 1 |-> t[i]]
        BY <3>1
      <3> QED
        BY <2>2, <3>2 DEF t
    <2>4. \A i \in 1 .. n - 1 : p + (i + 1) = (p + 1) + i
      OBVIOUS
    <2>5. Len(steps) - (p + 1) = n - 1
      OBVIOUS
    <2> QED
      BY <2>1, <2>3, <2>4, <2>5 DEF Rest
  <1> QED
    BY <1>1, <1>2, <1>3

-----------------------------------------------------------------------------
(* Where the worker is in its chain *)

PipelineType ==
    /\ inbox \in Inbox
    /\ DOMAIN state = inbox /\ run \in [inbox -> Nat]
    /\ counters \in [relay : Nat, broadcast : Nat, sage : Nat]
    /\ faults \in Nat /\ raises \in Nat
    /\ IsFiniteSet(sends)
    /\ \A s \in sends : s.msg \in inbox /\ s.run \in Nat /\ s.run <= run[s.msg]

JobSound ==
    \/ job = NoJob
    \/ /\ DOMAIN job = {"stage", "msg", "at", "todo"}
       /\ job.stage \in {"chain", "steps"} /\ job.msg \in inbox /\ job.at \in Nat \ {0}
       /\ state[job.msg] = "running"
       /\ job.stage = "steps" => job.at \in 1 .. Len(chain)

\* The worker asks the quota only when its next step is a send.
AsksForASend ==
    reading[Worker] >= 0 =>
        job.stage = "steps" /\ job.todo # <<>> /\ NextStep.do = "send"

\* What becomes of a send that does not end its run.
Answers == {"accepted", "refused"}

\* The handlers that sent in this run are those it has come to, and no send has ended it.
InTurn ==
    job # NoJob => \A s \in sends :
        s.msg = job.msg /\ s.run = run[job.msg] =>
            /\ s.outcome \in Answers
            /\ \E k \in 1 .. Len(chain) :
                  /\ chain[k] = s.handler
                  /\ IF job.stage = "steps" THEN k <= job.at ELSE k < job.at

Records(s, step) ==
    step.do = "send" /\ s.to = step.to /\ s.line = step.line /\ s.says = step.says

\* Among the records S, those of the n-th run of h for m are the sends of its first p steps.
Made(S, m, h, n, steps, p) ==
    LET mine == {s \in S : s.msg = m /\ s.handler = h /\ s.run = n}
    IN  /\ \A s \in mine : \E k \in 1 .. p : Records(s, steps[k])
        /\ \A k \in 1 .. p : steps[k].do = "send" => \E s \in mine : Records(s, steps[k])

\* The handler has made the first p of these steps, and no other.
AtStep(steps, p) ==
    /\ steps \in Runs(Handler, job.msg) /\ p \in 0 .. Len(steps)
    /\ job.todo = Rest(steps, p)
    /\ \A k \in 1 .. p : steps[k].do # "raise"
    /\ Made(sends, job.msg, Handler, run[job.msg], steps, p)

Progress == job.stage = "steps" => \E steps, p : AtStep(steps, p)

Course == PipelineType /\ ChainSound /\ JobSound /\ AsksForASend /\ InTurn /\ Progress

\* What is known of the next step of the handler that runs.
LEMMA NextStepIs ==
    ASSUME Course, job.stage = "steps", NEW steps, NEW p, AtStep(steps, p)
    PROVE  /\ HasLines(job.msg) /\ Handler \in Handlers /\ job.msg \in inbox
           /\ steps \in Seq(StepsFor(job.msg)) /\ p \in Nat /\ p <= Len(steps)
           /\ Len(job.todo) = Len(steps) - p
           /\ job.todo = <<>> <=> p = Len(steps)
           /\ job.todo # <<>> =>
                 /\ p + 1 \in 1 .. Len(steps)
                 /\ NextStep = steps[p + 1] /\ steps[p + 1] \in StepsFor(job.msg)
                 /\ Tail(job.todo) = Rest(steps, p + 1)
  <1> USE PipelineAssumption
  <1>1. job # NoJob
    BY DEF NoJob
  <1>2. job.msg \in inbox /\ job.at \in 1 .. Len(chain) /\ chain \in Seq(Handlers)
    BY <1>1 DEF Course, JobSound, ChainSound
  <1>3. HasLines(job.msg)
    BY <1>2 DEF Course, PipelineType, HasLines
  <1>4. Handler \in Handlers
    BY <1>2 DEF Handler
  <1>5. steps \in Seq(StepsFor(job.msg))
    BY <1>3, <1>4, RunIs DEF AtStep
  <1>6. p \in 0 .. Len(steps) /\ job.todo = Rest(steps, p)
    BY DEF AtStep
  <1>7. /\ Len(job.todo) = Len(steps) - p
        /\ job.todo = <<>> <=> p = Len(steps)
        /\ p < Len(steps) => /\ Head(job.todo) = steps[p + 1]
                             /\ Tail(job.todo) = Rest(steps, p + 1)
    <2> DEFINE S == StepsFor(job.msg)
               r == Rest(steps, p)
    <2>1. steps \in Seq(S) /\ p \in 0 .. Len(steps) /\ job.todo = r
      BY <1>5, <1>6
    <2>2. /\ Len(r) = Len(steps) - p
          /\ r = <<>> <=> p = Len(steps)
          /\ p < Len(steps) => Head(r) = steps[p + 1] /\ Tail(r) = Rest(steps, p + 1)
      <3> HIDE DEF S
      <3> QED
        BY <2>1, RestIs
    <2> HIDE DEF S, r
    <2> QED
      BY <2>1, <2>2
  <1>8. Len(steps) \in Nat
    BY <1>5
  <1>9. p # Len(steps) => p + 1 \in 1 .. Len(steps)
    BY <1>6, <1>8
  <1> QED
    BY <1>2, <1>3, <1>4, <1>5, <1>6, <1>7, <1>8, <1>9 DEF NextStep

\* A step that sends nothing leaves the records of the run as they are.
LEMMA MadeWithout ==
    ASSUME NEW S, NEW m, NEW h, NEW n, NEW steps, NEW p \in Nat,
           Made(S, m, h, n, steps, p), steps[p + 1].do # "send"
    PROVE  Made(S, m, h, n, steps, p + 1)
  <1>1. \A k \in 1 .. p + 1 : k \in 1 .. p \/ k = p + 1
    OBVIOUS
  <1>2. \A k \in 1 .. p : k \in 1 .. p + 1
    OBVIOUS
  <1> QED
    BY <1>1, <1>2 DEF Made, Records

\* A step that sends adds its record.
LEMMA MadeWith ==
    ASSUME NEW S, NEW m, NEW h, NEW n, NEW steps, NEW p \in Nat,
           Made(S, m, h, n, steps, p), steps[p + 1].do = "send",
           NEW o, o.msg = m, o.handler = h, o.run = n, Records(o, steps[p + 1])
    PROVE  Made(S \cup {o}, m, h, n, steps, p + 1)
  <1>1. \A k \in 1 .. p + 1 : k \in 1 .. p \/ k = p + 1
    OBVIOUS
  <1>2. p + 1 \in 1 .. p + 1 /\ \A k \in 1 .. p : k \in 1 .. p + 1
    OBVIOUS
  <1> DEFINE mine(R) == {s \in R : s.msg = m /\ s.handler = h /\ s.run = n}
  <1>3. mine(S \cup {o}) = mine(S) \cup {o}
    OBVIOUS
  <1> HIDE DEF mine
  <1>4. /\ \A s \in mine(S) : \E k \in 1 .. p : Records(s, steps[k])
        /\ \A k \in 1 .. p : steps[k].do = "send" => \E s \in mine(S) : Records(s, steps[k])
    BY DEF Made, mine
  <1>5. \A s \in mine(S) \cup {o} : \E k \in 1 .. p + 1 : Records(s, steps[k])
    BY <1>2, <1>4
  <1>6. \A k \in 1 .. p + 1 : steps[k].do = "send" =>
            \E s \in mine(S) \cup {o} : Records(s, steps[k])
    BY <1>1, <1>4
  <1> QED
    BY <1>3, <1>5, <1>6 DEF Made, mine

\* The initial states.
LEMMA CourseInit == PipelineInit => Course
  <1> SUFFICES ASSUME PipelineInit PROVE Course
    OBVIOUS
  <1> USE PipelineAssumption DEF PipelineInit
  <1>1. PipelineType
    BY FS_EmptySet DEF PipelineType
  <1>2. ChainSound
    BY LoadedIsSound
  <1>3. job = NoJob /\ job.stage = "idle"
    BY DEF NoJob
  <1>4. ~(reading[Worker] >= 0)
    BY DEF Init
  <1> QED
    BY <1>1, <1>2, <1>3, <1>4 DEF Course, JobSound, AsksForASend, InTurn, Progress

\* A job begins: its run is a new one.
LEMMA CourseTakeJob ==
    ASSUME TypeOK, Course, NEW m \in inbox, TakeJob(m) PROVE Course'
  <1> USE DEF TakeJob, InStage
  <1>0. run[m] \in Nat /\ run'[m] = run[m] + 1 /\ run' \in [inbox -> Nat]
    BY DEF Course, PipelineType
  <1>1. PipelineType'
    <2>1. \A s \in sends : s.msg \in inbox /\ s.run \in Nat /\ s.run <= run[s.msg]
      BY DEF Course, PipelineType
    <2>2. \A x \in inbox : run[x] \in Nat /\ run'[x] \in Nat /\ run[x] <= run'[x]
      BY DEF Course, PipelineType
    <2>3. \A s \in sends : s.run <= run'[s.msg]
      BY <2>1, <2>2
    <2>4. DOMAIN state' = inbox
      BY DEF Course, PipelineType
    <2> QED
      BY <1>0, <2>1, <2>3, <2>4 DEF Course, PipelineType
  <1>2. ChainSound'
    BY DEF Course, ChainSound
  <1>3. JobSound'
    BY DEF Course, PipelineType, JobSound
  <1>4. AsksForASend'
    BY DEF Course, AsksForASend, vars
  <1>5. InTurn'
    <2>1. \A s \in sends : s.msg = m => s.run # run'[m]
      BY <1>0 DEF Course, PipelineType
    <2> QED
      BY <2>1 DEF InTurn
  <1>6. Progress'
    BY DEF Progress
  <1> QED
    BY <1>1, <1>2, <1>3, <1>4, <1>5, <1>6 DEF Course

\* A handler begins: it has sent nothing in this run, as it is in the chain once.
LEMMA CourseRunHandler ==
    ASSUME TypeOK, Course, RunHandler PROVE Course'
  <1> USE DEF RunHandler, InStage
  <1>1. PICK i \in job.at .. Len(chain) : \E steps \in Runs(chain[i], job.msg) :
            job' = [job EXCEPT !.stage = "steps", !.at = i, !.todo = steps]
    OBVIOUS
  <1>2. PICK steps \in Runs(chain[i], job.msg) :
            job' = [job EXCEPT !.stage = "steps", !.at = i, !.todo = steps]
    BY <1>1
  <1>3. job # NoJob /\ job.stage = "chain"
    BY DEF NoJob
  <1>4. /\ DOMAIN job = {"stage", "msg", "at", "todo"} /\ job.at \in Nat \ {0}
        /\ job.msg \in inbox /\ state[job.msg] = "running"
    BY <1>3 DEF Course, JobSound
  <1>5. /\ job'.stage = "steps" /\ job'.msg = job.msg /\ job'.at = i /\ job'.todo = steps
        /\ DOMAIN job' = {"stage", "msg", "at", "todo"}
    BY <1>2, <1>4
  <1>6. chain \in Seq(Handlers) /\ Len(chain) \in Nat /\ i \in 1 .. Len(chain)
    BY <1>4 DEF Course, ChainSound
  <1>7. Handler' = chain[i] /\ chain[i] \in Handlers
    BY <1>5, <1>6 DEF Handler
  <1>8. PipelineType' /\ ChainSound' /\ JobSound'
    <2>1. PipelineType'
      BY DEF Course, PipelineType
    <2>2. ChainSound'
      BY DEF Course, ChainSound
    <2> QED
      BY <1>4, <1>5, <1>6, <2>1, <2>2 DEF JobSound
  <1>9. AsksForASend'
    BY <1>3 DEF Course, AsksForASend, vars
  <1>10. \A s \in sends : s.msg = job.msg /\ s.run = run[job.msg] =>
            /\ s.outcome \in Answers
            /\ \E k \in 1 .. Len(chain) : chain[k] = s.handler /\ k < job.at
    BY <1>3 DEF Course, InTurn
  <1>11. InTurn'
    <2>1. \A k \in 1 .. Len(chain) : k < job.at => k <= i
      BY <1>4, <1>6
    <2> QED
      BY <1>5, <1>10, <2>1 DEF InTurn
  <1>12. \A s \in sends : ~(s.msg = job.msg /\ s.handler = chain[i] /\ s.run = run[job.msg])
    <2>1. \A k \in 1 .. Len(chain) : k < job.at => chain[k] # chain[i]
      BY <1>4, <1>6 DEF Course, ChainSound
    <2> QED
      BY <1>10, <2>1
  <1>13. AtStep(steps, 0)'
    <2>1. HasLines(job.msg)
      BY <1>4, PipelineAssumption DEF Course, PipelineType, HasLines
    <2>2. steps \in Seq(StepsFor(job.msg))
      BY <1>7, <2>1, RunIs
    <2>3. steps = Rest(steps, 0) /\ 0 \in 0 .. Len(steps) /\ 1 .. 0 = {}
      <3> DEFINE S == StepsFor(job.msg)
      <3>1. steps \in Seq(S)
        BY <2>2
      <3> HIDE DEF S
      <3> QED
        BY <3>1 DEF Rest
    <2>4. Made(sends, job.msg, chain[i], run[job.msg], steps, 0)
      BY <1>12, <2>3 DEF Made
    <2> QED
      BY <1>5, <1>7, <2>3, <2>4 DEF AtStep
  <1>14. Progress'
    BY <1>13 DEF Progress
  <1> QED
    BY <1>8, <1>9, <1>11, <1>14 DEF Course

\* What stays of the job when one of its steps is made.
LEMMA StepMade ==
    ASSUME Course, job.stage = "steps", job.todo # <<>>,
           job' = [job EXCEPT !.todo = Tail(@)], UNCHANGED <<chain, inbox, state, run>>
    PROVE  /\ job'.stage = "steps" /\ job'.msg = job.msg /\ job'.at = job.at
           /\ job'.todo = Tail(job.todo) /\ Handler' = Handler
           /\ ChainSound' /\ JobSound'
  <1>1. job # NoJob
    BY DEF NoJob
  <1>2. DOMAIN job = {"stage", "msg", "at", "todo"}
    BY <1>1 DEF Course, JobSound
  <1>3. /\ job'.stage = "steps" /\ job'.msg = job.msg /\ job'.at = job.at
        /\ job'.todo = Tail(job.todo) /\ DOMAIN job' = {"stage", "msg", "at", "todo"}
    BY <1>2
  <1>4. Handler' = Handler
    BY <1>3 DEF Handler
  <1>5. ChainSound'
    BY DEF Course, ChainSound
  <1>6. JobSound'
    BY <1>1, <1>3 DEF Course, JobSound
  <1> QED
    BY <1>3, <1>4, <1>5, <1>6

\* A counter moves.
LEMMA CourseCount ==
    ASSUME TypeOK, Course, CountStep PROVE Course'
  <1> USE DEF CountStep, InStage
  <1>1. PICK steps, p : AtStep(steps, p)
    BY DEF Course, Progress
  <1>2. /\ p \in Nat /\ p + 1 \in 1 .. Len(steps) /\ NextStep = steps[p + 1]
        /\ NextStep \in StepsFor(job.msg) /\ Tail(job.todo) = Rest(steps, p + 1)
    BY <1>1, NextStepIs
  <1>3. /\ job'.stage = "steps" /\ job'.msg = job.msg /\ job'.at = job.at
        /\ job'.todo = Tail(job.todo) /\ Handler' = Handler
        /\ ChainSound' /\ JobSound'
    BY StepMade
  <1>4. NextStep.by \in Nat /\ NextStep.key \in {"relay", "broadcast", "sage"}
    BY <1>2 DEF StepsFor, TooLong
  <1>5. PipelineType'
    <2>1. counters' \in [relay : Nat, broadcast : Nat, sage : Nat]
      BY <1>4 DEF Course, PipelineType
    <2> QED
      BY <2>1 DEF Course, PipelineType
  <1>6. AsksForASend'
    BY DEF Course, AsksForASend, vars
  <1>7. InTurn'
    BY <1>3 DEF Course, InTurn, NoJob
  <1>8. AtStep(steps, p + 1)'
    <2>1. Made(sends, job.msg, Handler, run[job.msg], steps, p + 1)
      BY <1>1, <1>2, MadeWithout DEF AtStep
    <2>2. \A k \in 1 .. p + 1 : steps[k].do # "raise"
      <3>1. \A k \in 1 .. p + 1 : k \in 1 .. p \/ k = p + 1
        BY <1>2
      <3> QED
        BY <1>1, <1>2, <3>1 DEF AtStep
    <2>3. p + 1 \in 0 .. Len(steps)
      BY <1>2
    <2> QED
      BY <1>1, <1>2, <1>3, <2>1, <2>2, <2>3 DEF AtStep
  <1>9. Progress'
    BY <1>8 DEF Progress
  <1> QED
    BY <1>3, <1>5, <1>6, <1>7, <1>9 DEF Course

\* The record of the send that is next.
LEMMA OutcomeIs ==
    ASSUME Course, job.stage = "steps", NEW what
    PROVE  LET o == Outcome(what)
           IN  /\ o.msg = job.msg /\ o.run = run[job.msg] /\ o.handler = Handler
               /\ o.to = NextStep.to /\ o.line = NextStep.line /\ o.says = NextStep.says
               /\ o.outcome = what
               /\ o.msg \in inbox /\ o.run \in Nat /\ o.run <= run[o.msg]
               /\ IsFiniteSet(sends \cup {o})
  <1>1. job # NoJob
    BY DEF NoJob
  <1>2. job.msg \in inbox /\ run[job.msg] \in Nat
    BY <1>1 DEF Course, JobSound, PipelineType
  <1>3. \A o : IsFiniteSet(sends \cup {o})
    BY FS_AddElement DEF Course, PipelineType
  <1> DEFINE o == Outcome(what)
  <1>4. /\ o.msg = job.msg /\ o.run = run[job.msg] /\ o.handler = Handler
        /\ o.to = NextStep.to /\ o.line = NextStep.line /\ o.says = NextStep.says
        /\ o.outcome = what
    BY DEF Outcome
  <1> HIDE DEF o
  <1>5. o.msg \in inbox /\ o.run \in Nat /\ o.run <= run[o.msg]
    BY <1>2, <1>4
  <1> QED
    BY <1>3, <1>4, <1>5 DEF o

\* A send is made, or the quota refuses it: it is recorded once, in its turn.
LEMMA CourseSend ==
    ASSUME TypeOK, Course, SendStep PROVE Course'
  <1> USE DEF SendStep, InStage
  <1>1. PICK what \in Answers : sends' = sends \cup {Outcome(what)}
    BY DEF Answers
  <1>2. job.todo # <<>> /\ NextStep.do = "send"
    BY DEF Course, AsksForASend
  <1>3. PICK steps, p : AtStep(steps, p)
    BY DEF Course, Progress
  <1>4. /\ p \in Nat /\ p + 1 \in 1 .. Len(steps) /\ NextStep = steps[p + 1]
        /\ Tail(job.todo) = Rest(steps, p + 1)
    BY <1>2, <1>3, NextStepIs
  <1>5. /\ job'.stage = "steps" /\ job'.msg = job.msg /\ job'.at = job.at
        /\ job'.todo = Tail(job.todo) /\ Handler' = Handler
        /\ ChainSound' /\ JobSound'
    BY <1>2, StepMade
  <1> DEFINE o == Outcome(what)
  <1>6. /\ o.msg = job.msg /\ o.run = run[job.msg] /\ o.handler = Handler
        /\ o.to = NextStep.to /\ o.line = NextStep.line /\ o.says = NextStep.says
        /\ o.msg \in inbox /\ o.run \in Nat /\ o.run <= run[o.msg] /\ o.outcome \in Answers
        /\ IsFiniteSet(sends \cup {o})
    BY OutcomeIs
  <1> HIDE DEF o
  <1>7. sends' = sends \cup {o}
    BY <1>1 DEF o
  <1>8. PipelineType'
    BY <1>6, <1>7 DEF Course, PipelineType
  <1>9. AsksForASend'
    <2>1. reading'[Worker] = -1
      BY PipelineAssumption DEF TypeOK, Script
    <2> QED
      BY <2>1 DEF AsksForASend
  <1>10. InTurn'
    <2>1. job # NoJob
      BY DEF NoJob
    <2>2. job.at \in 1 .. Len(chain) /\ chain[job.at] = Handler /\ job.at <= job.at
      BY <2>1 DEF Course, JobSound, Handler
    <2>3. \A s \in sends \cup {o} : s.msg = job.msg /\ s.run = run[job.msg] =>
              /\ s.outcome \in Answers
              /\ \E k \in 1 .. Len(chain) : chain[k] = s.handler /\ k <= job.at
      BY <1>6, <2>1, <2>2 DEF Course, InTurn
    <2> QED
      BY <1>5, <1>7, <2>3 DEF InTurn
  <1>11. AtStep(steps, p + 1)'
    <2>1. Records(o, steps[p + 1])
      BY <1>2, <1>4, <1>6 DEF Records
    <2>2. Made(sends \cup {o}, job.msg, Handler, run[job.msg], steps, p + 1)
      BY <1>2, <1>3, <1>4, <1>6, <2>1, MadeWith DEF AtStep
    <2>3. \A k \in 1 .. p + 1 : steps[k].do # "raise"
      <3>1. \A k \in 1 .. p + 1 : k \in 1 .. p \/ k = p + 1
        BY <1>4
      <3> QED
        BY <1>2, <1>3, <1>4, <3>1 DEF AtStep
    <2>4. p + 1 \in 0 .. Len(steps)
      BY <1>4
    <2> QED
      BY <1>3, <1>4, <1>5, <1>7, <2>2, <2>3, <2>4 DEF AtStep
  <1>12. Progress'
    BY <1>11 DEF Progress
  <1> QED
    BY <1>5, <1>8, <1>9, <1>10, <1>12 DEF Course

\* The bridge fails in a send, a text is too long, or the run is cut short: the job ends, to
\* run again or not.
LEMMA CourseFails ==
    ASSUME TypeOK, Course, SendFails \/ HandlerRaises \/ RunBreaks PROVE Course'
  <1> USE DEF SendFails, HandlerRaises, RunBreaks, InStage
  <1>1. job' = NoJob /\ DOMAIN state' = DOMAIN state
    BY DEF JobFails
  <1>2. PipelineType'
    <2>1. CASE SendFails
      <3> DEFINE o == Outcome("failed")
      <3>1. /\ o.msg \in inbox /\ o.run \in Nat /\ o.run <= run[o.msg]
            /\ IsFiniteSet(sends \cup {o})
        BY <2>1, OutcomeIs
      <3> HIDE DEF o
      <3>2. sends' = sends \cup {o}
        BY <2>1 DEF o
      <3>3. UNCHANGED <<inbox, run, counters, raises>> /\ faults' = faults + 1
        BY <2>1
      <3> QED
        BY <1>1, <3>1, <3>2, <3>3 DEF Course, PipelineType
    <2>2. CASE HandlerRaises \/ RunBreaks
      BY <1>1, <2>2 DEF Course, PipelineType
    <2> QED
      BY <2>1, <2>2
  <1>3. ChainSound'
    BY DEF Course, ChainSound
  <1>4. AsksForASend'
    <2>1. CASE SendFails \/ RunBreaks
      <3>1. ~(reading'[Worker] >= 0)
        BY <2>1, PipelineAssumption DEF TypeOK, Script, Abandon, vars
      <3> QED
        BY <3>1 DEF AsksForASend
    <2>2. CASE HandlerRaises
      BY <2>2 DEF Course, AsksForASend, vars
    <2> QED
      BY <2>1, <2>2
  <1>5. JobSound' /\ InTurn' /\ Progress'
    BY <1>1 DEF JobSound, InTurn, Progress, NoJob
  <1> QED
    BY <1>2, <1>3, <1>4, <1>5 DEF Course

\* A handler ends, and its job goes on to the next one or is over.
LEMMA CourseDone ==
    ASSUME TypeOK, Course, HandlerDone \/ FinishJob PROVE Course'
  <1> USE DEF HandlerDone, FinishJob, InStage
  <1>1. job # NoJob
    BY DEF NoJob
  <1>2. /\ DOMAIN job = {"stage", "msg", "at", "todo"} /\ job.at \in Nat \ {0}
        /\ job.msg \in inbox /\ state[job.msg] = "running"
        /\ job.stage = "steps" => job.at \in 1 .. Len(chain)
    BY <1>1 DEF Course, JobSound
  <1>3. DOMAIN state' = DOMAIN state
    OBVIOUS
  <1>4. PipelineType'
    BY <1>3 DEF Course, PipelineType
  <1>5. ChainSound'
    BY DEF Course, ChainSound
  <1>6. AsksForASend'
    BY DEF Course, AsksForASend, vars
  <1>7. JobSound' /\ InTurn' /\ Progress'
    <2>1. CASE HandlerDone
      <3>1. /\ job'.stage = "chain" /\ job'.msg = job.msg
            /\ job'.at = IF Handler \in Stopping THEN Len(chain) + 1 ELSE job.at + 1
            /\ DOMAIN job' = {"stage", "msg", "at", "todo"}
        BY <1>2, <2>1
      <3>2. Len(chain) \in Nat /\ job.at \in 1 .. Len(chain)
        BY <1>2, <2>1 DEF Course, ChainSound
      <3>3. job'.at \in Nat \ {0} /\ \A k \in 1 .. Len(chain) : k <= job.at => k < job'.at
        BY <3>1, <3>2
      <3>4. JobSound'
        BY <1>2, <2>1, <3>1, <3>3 DEF JobSound
      <3>5. InTurn'
        BY <1>1, <2>1, <3>1, <3>3 DEF Course, InTurn
      <3>6. Progress'
        BY <3>1 DEF Progress
      <3> QED
        BY <3>4, <3>5, <3>6
    <2>2. CASE FinishJob
      BY <2>2 DEF JobSound, InTurn, Progress, NoJob
    <2> QED
      BY <2>1, <2>2
  <1> QED
    BY <1>4, <1>5, <1>6, <1>7 DEF Course

\* The worker asks the quota, others send, and time passes.
LEMMA CourseQuiet ==
    ASSUME TypeOK, Course, AskQuota \/ OthersSend \/ TimePasses PROVE Course'
  <1>1. UNCHANGED pipeline
    BY DEF AskQuota, OthersSend, TimePasses
  <1>2. AsksForASend'
    <2>1. CASE AskQuota
      BY <1>1, <2>1 DEF AskQuota, InStage, AsksForASend, pipeline, NextStep
    <2>2. CASE OthersSend
      <3>1. reading'[Worker] = reading[Worker]
        BY <2>2, PipelineAssumption DEF OthersSend, ReadClock, Script, Abandon, TypeOK
      <3> QED
        BY <1>1, <3>1 DEF Course, AsksForASend, pipeline, NextStep
    <2>3. CASE TimePasses
      BY <1>1, <2>3 DEF TimePasses, Tick, Course, AsksForASend, pipeline, NextStep
    <2> QED
      BY <2>1, <2>2, <2>3
  <1>3. PipelineType' /\ ChainSound' /\ JobSound' /\ InTurn'
    BY <1>1 DEF Course, PipelineType, ChainSound, JobSound, InTurn, pipeline
  <1>4. Progress'
    BY <1>1 DEF Course, Progress, AtStep, Handler, pipeline
  <1> QED
    BY <1>2, <1>3, <1>4 DEF Course

-----------------------------------------------------------------------------
(* The receipt *)

\* The lines of the batch that were handed to the bridge or refused by the quota.
HandedIn(S, r) ==
    {s \in S : /\ s.msg = r.msg /\ s.handler = r.handler /\ s.run = r.run
               /\ s.line # 0 /\ s.outcome \in Answers}

\* The receipt r accounts for every line, by what S holds of its run.
Accounts(S, r) ==
    LET lines == {s.line : s \in HandedIn(S, r)}
    IN  /\ lines \cap ToSet(r.says.failures) = {}
        /\ lines \cup ToSet(r.says.failures) = Content(r.msg)
        /\ {s.to : s \in HandedIn(S, r)} = ToSet(r.says.sent)
        /\ Len(r.says.sent) = Cardinality(lines)
        /\ \A i, j \in DOMAIN r.says.failures : i < j => r.says.failures[i] < r.says.failures[j]

AllAccount(S) ==
    \A r \in S : r.handler = "BroadcastHandler" /\ r.says # NoReceipt => Accounts(S, r)

\* The invariant in these terms.
LEMMA AccountsIs == ReceiptAccountsForAll <=> AllAccount(sends)
  <1> DEFINE entries(r) == {s \in SendsOf(r.msg, r.handler, {r.run}) : s.line # 0}
             answered(r) == {s \in entries(r) : s.outcome = "accepted"}
                            \cup {s \in entries(r) : s.outcome = "refused"}
  <1>1. \A r \in sends : answered(r) = HandedIn(sends, r)
    BY DEF SendsOf, HandedIn, Answers
  <1>2. ReceiptAccountsForAll <=>
            \A r \in sends : r.handler = "BroadcastHandler" /\ r.says # NoReceipt =>
                LET lines == {s.line : s \in answered(r)}
                IN  /\ lines \cap ToSet(r.says.failures) = {}
                    /\ lines \cup ToSet(r.says.failures) = Content(r.msg)
                    /\ {s.to : s \in answered(r)} = ToSet(r.says.sent)
                    /\ Len(r.says.sent) = Cardinality(lines)
                    /\ \A i, j \in DOMAIN r.says.failures :
                           i < j => r.says.failures[i] < r.says.failures[j]
    BY DEF ReceiptAccountsForAll
  <1> HIDE DEF answered
  <1> QED
    BY <1>1, <1>2, Zenon DEF AllAccount, Accounts

\* When the receipt is next, every readable line was handed over in this run, and no other.
LEMMA ReceiptComes ==
    ASSUME Course, job.stage = "steps", Handler = "BroadcastHandler",
           NEW steps, NEW p, AtStep(steps, p), job.todo # <<>>,
           NextStep.do = "send", NextStep.says # NoReceipt,
           NEW o, o.msg = job.msg, o.handler = Handler, o.run = run[job.msg],
           o.line = NextStep.line, o.says = NextStep.says
    PROVE  Accounts(sends \cup {o}, o)
  <1> DEFINE m == job.msg
             w == Width(m)
             rd == Readable(m)
             fl == Failures(m)
             sn == Sent(m)
             cn == Content(m)
             H == HandedIn(sends, o)
  <1>1. /\ HasLines(m) /\ p \in Nat /\ p + 1 \in 1 .. Len(steps)
        /\ NextStep = steps[p + 1] /\ steps \in Seq(StepsFor(m))
    BY NextStepIs
  <1>2. steps = Broadcast(m)
    BY RunIs, <1>1 DEF AtStep, Handlers, Order, ToSet
  <1>3. /\ w \in Nat /\ w <= Len(steps)
        /\ \A k \in 1 .. w : steps[k] = SendTo(sn[k], rd[k])
        /\ \A k \in w + 1 .. Len(steps) : steps[k].do = "send" => steps[k].line = 0
        /\ \A k \in 1 .. Len(steps) : steps[k].do = "send" /\ steps[k].says # NoReceipt =>
              k = Len(steps) /\ w = Len(rd) /\ steps[k].says = [sent |-> sn, failures |-> fl]
    BY <1>1, <1>2, BatchIs, BroadcastIs
  <1>4. /\ rd \in Seq(cn) /\ DOMAIN rd = 1 .. Len(rd) /\ cn \in SUBSET (Nat \ {0})
        /\ Len(rd) = Cardinality(ToSet(rd))
        /\ ToSet(fl) = cn \ ToSet(rd)
        /\ \A i, j \in DOMAIN fl : i < j => fl[i] < fl[j]
    BY <1>1, BatchIs
  <1>5. DOMAIN sn = DOMAIN rd /\ sn = [k \in DOMAIN rd |-> sn[k]]
    BY DEF Sent
  <1> HIDE DEF w, rd, fl, sn, cn
  <1>6. /\ p + 1 = Len(steps) /\ w = Len(rd)
        /\ o.says = [sent |-> sn, failures |-> fl]
    BY <1>1, <1>3
  <1>7. \A k \in 1 .. w : /\ steps[k].do = "send" /\ steps[k].line = rd[k]
                          /\ steps[k].to = sn[k] /\ steps[k].says = NoReceipt
    <2>1. \A to, line : /\ SendTo(to, line).do = "send" /\ SendTo(to, line).line = line
                        /\ SendTo(to, line).to = to /\ SendTo(to, line).says = NoReceipt
      BY DEF SendTo
    <2> QED
      BY <1>3, <2>1
  <1>8. w <= p /\ p + 1 \in w + 1 .. Len(steps)
    <2>1. p + 1 \notin 1 .. w
      BY <1>1, <1>7
    <2> QED
      BY <1>1, <1>3, <2>1
  <1>9. o.line = 0
    BY <1>1, <1>3, <1>8
  <1>10. HandedIn(sends \cup {o}, o) = H
    BY <1>9 DEF HandedIn
  <1>11. \A k \in 1 .. w : rd[k] \in cn /\ rd[k] # 0
    BY <1>4, <1>6
  <1>12. \A s \in H : \E k \in 1 .. w : s.line = rd[k] /\ s.to = sn[k]
    <2> SUFFICES ASSUME NEW s \in H PROVE \E k \in 1 .. w : s.line = rd[k] /\ s.to = sn[k]
      OBVIOUS
    <2>1. PICK k \in 1 .. p : Records(s, steps[k])
      BY DEF AtStep, Made, HandedIn
    <2>2. s.line # 0
      BY DEF HandedIn
    <2>3. k \in 1 .. w
      <3>1. k \in 1 .. w \/ k \in w + 1 .. Len(steps)
        BY <1>1, <1>3, <1>6
      <3> QED
        BY <1>3, <2>1, <2>2, <3>1 DEF Records
    <2> QED
      BY <1>7, <2>1, <2>3 DEF Records
  <1>13. \A k \in 1 .. w : \E s \in H : s.line = rd[k] /\ s.to = sn[k]
    <2> SUFFICES ASSUME NEW k \in 1 .. w PROVE \E s \in H : s.line = rd[k] /\ s.to = sn[k]
      OBVIOUS
    <2>1. k \in 1 .. p
      BY <1>1, <1>3, <1>8
    <2>2. PICK s \in sends : /\ s.msg = m /\ s.handler = Handler /\ s.run = run[m]
                             /\ Records(s, steps[k])
      BY <1>7, <2>1 DEF AtStep, Made
    <2>3. s.outcome \in Answers
      BY <2>2 DEF Course, InTurn, NoJob
    <2> QED
      BY <1>7, <1>11, <2>2, <2>3 DEF HandedIn, Records
  <1> HIDE DEF H
  <1>14. DOMAIN rd = 1 .. w /\ DOMAIN sn = 1 .. w
    BY <1>4, <1>5, <1>6
  <1>15. {s.line : s \in H} = ToSet(rd) /\ {s.to : s \in H} = ToSet(sn)
    <2>1. ToSet(rd) = {rd[k] : k \in 1 .. w} /\ ToSet(sn) = {sn[k] : k \in 1 .. w}
      BY <1>14 DEF ToSet
    <2> QED
      BY <1>12, <1>13, <2>1
  <1>16. Len(sn) = Len(rd) /\ ToSet(rd) \in SUBSET cn
    <2> DEFINE T == ToSet(sn)
    <2>1. \A k \in 1 .. w : sn[k] \in T
      BY <1>14 DEF ToSet
    <2> HIDE DEF T
    <2>2. sn \in [1 .. w -> T]
      BY <1>5, <1>14, <2>1
    <2>3. sn \in Seq(T)
      BY <1>3, <2>2
    <2>4. Len(sn) \in Nat /\ 1 .. Len(sn) = 1 .. w
      BY <1>14, <2>3, LenProperties
    <2>5. Len(sn) = w
      BY <1>3, <2>4
    <2>6. \A k \in 1 .. w : rd[k] \in cn
      BY <1>11
    <2>7. ToSet(rd) \in SUBSET cn
      BY <1>14, <2>6 DEF ToSet
    <2> QED
      BY <1>6, <2>5, <2>7
  <1>17. o.says.sent = sn /\ o.says.failures = fl
    BY <1>6
  <1> QED
    BY <1>4, <1>10, <1>15, <1>16, <1>17 DEF Accounts, cn

\* A new record leaves the receipts of earlier runs true, and is true if it is one.
LEMMA ReceiptsWhenSent ==
    ASSUME Course, AllAccount(sends), job.stage = "steps", job.todo # <<>>,
           NextStep.do = "send", NEW what
    PROVE  AllAccount(sends \cup {Outcome(what)})
  <1> DEFINE o == Outcome(what)
  <1>1. /\ o.msg = job.msg /\ o.run = run[job.msg] /\ o.handler = Handler
        /\ o.line = NextStep.line /\ o.says = NextStep.says
    BY OutcomeIs
  <1> HIDE DEF o
  <1>2. PICK steps, p : AtStep(steps, p)
    BY DEF Course, Progress
  <1>3. /\ HasLines(job.msg) /\ p \in Nat /\ p + 1 \in 1 .. Len(steps)
    BY <1>2, NextStepIs
  <1> SUFFICES ASSUME NEW r \in sends \cup {o}, r.handler = "BroadcastHandler",
                      r.says # NoReceipt
               PROVE  Accounts(sends \cup {o}, r)
    BY DEF AllAccount, o
  <1>4. CASE r = o
    BY <1>1, <1>2, <1>4, ReceiptComes
  <1>5. CASE r \in sends
    <2>1. ~(r.msg = o.msg /\ r.handler = o.handler /\ r.run = o.run)
      <3> SUFFICES ASSUME r.msg = o.msg, r.handler = o.handler, r.run = o.run PROVE FALSE
        OBVIOUS
      <3>1. steps = Broadcast(job.msg)
        BY RunIs, <1>1, <1>2, <1>3 DEF AtStep, Handlers, Order, ToSet
      <3>2. PICK k \in 1 .. p : Records(r, steps[k])
        BY <1>1, <1>2, <1>5 DEF AtStep, Made
      <3>3. k \in 1 .. Len(steps) /\ k # Len(steps)
        BY <1>3
      <3>4. steps[k].do = "send" /\ steps[k].says # NoReceipt
        BY <3>2 DEF Records
      <3> QED
        BY <1>3, <3>1, <3>3, <3>4, BroadcastIs
    <2>2. HandedIn(sends \cup {o}, r) = HandedIn(sends, r)
      BY <2>1 DEF HandedIn
    <2>3. Accounts(sends, r)
      BY <1>5 DEF AllAccount
    <2> QED
      BY <2>2, <2>3 DEF Accounts
  <1> QED
    BY <1>4, <1>5

\* No step of the pipeline makes a receipt wrong.
LEMMA ReceiptsKept ==
    Course /\ ReceiptAccountsForAll /\ [PipelineNext]_allVars => ReceiptAccountsForAll'
  <1>0. AllAccount(sends)' <=> ReceiptAccountsForAll'
    BY AccountsIs, PTL
  <1> SUFFICES ASSUME Course, AllAccount(sends), [PipelineNext]_allVars
               PROVE  AllAccount(sends')
    BY <1>0, AccountsIs
  <1>1. CASE SendStep \/ SendFails
    <2>1. PICK what : sends' = sends \cup {Outcome(what)}
      BY <1>1 DEF SendStep, SendFails
    <2>2. job.stage = "steps" /\ job.todo # <<>> /\ NextStep.do = "send"
      BY <1>1 DEF SendStep, SendFails, InStage, Course, AsksForASend
    <2> QED
      BY <2>1, <2>2, ReceiptsWhenSent
  <1>2. CASE sends' = sends
    BY <1>2
  <1> QED
    BY <1>1, <1>2 DEF PipelineNext, allVars, pipeline, TakeJob, RunHandler, CountStep, AskQuota,
       RunBreaks, HandlerRaises, HandlerDone, FinishJob, OthersSend, TimePasses

-----------------------------------------------------------------------------
(* The broadcast counter *)

HandedBy(S) ==
    {s \in S : s.handler = "BroadcastHandler" /\ s.line # 0 /\ s.outcome # "failed"}

\* The messages that this run has handed to the sender and not yet counted.
Uncounted ==
    LET p == Len(Broadcast(job.msg)) - Len(job.todo)
    IN  IF job.stage = "steps" /\ Handler = "BroadcastHandler" /\ p <= Width(job.msg) THEN p ELSE 0

BroadcastCounted ==
    /\ counters.broadcast + Uncounted <= Cardinality(HandedBy(sends))
    /\ faults = 0 => counters.broadcast + Uncounted = Cardinality(HandedBy(sends))

\* Outside a handler nothing waits to be counted.
LEMMA UncountedOutside == job.stage # "steps" => Uncounted = 0
  BY DEF Uncounted

\* Inside one, what waits to be counted depends on how far the handler came.
LEMMA UncountedAt ==
    ASSUME Course, job.stage = "steps", NEW steps, NEW p, AtStep(steps, p)
    PROVE  Uncounted = IF Handler = "BroadcastHandler" /\ p <= Width(job.msg) THEN p ELSE 0
  <1>1. /\ HasLines(job.msg) /\ Handler \in Handlers /\ steps \in Seq(StepsFor(job.msg))
        /\ p \in Nat /\ p <= Len(steps) /\ Len(job.todo) = Len(steps) - p
    BY NextStepIs
  <1>2. CASE Handler = "BroadcastHandler"
    <2>1. steps = Broadcast(job.msg)
      BY <1>1, <1>2, RunIs DEF AtStep
    <2>2. Len(steps) \in Nat
      BY <1>1
    <2>3. Len(Broadcast(job.msg)) - Len(job.todo) = p
      BY <1>1, <2>1, <2>2
    <2> QED
      BY <1>2, <2>3 DEF Uncounted
  <1>3. CASE Handler # "BroadcastHandler"
    BY <1>3 DEF Uncounted
  <1> QED
    BY <1>2, <1>3

\* The same after the next step.
LEMMA UncountedNext ==
    ASSUME Course, job.stage = "steps", NEW steps, NEW p, AtStep(steps, p),
           job.todo # <<>>, job' = [job EXCEPT !.todo = Tail(@)],
           UNCHANGED <<chain, inbox, state, run>>
    PROVE  Uncounted' = IF Handler = "BroadcastHandler" /\ p + 1 <= Width(job.msg)
                        THEN p + 1 ELSE 0
  <1>1. /\ HasLines(job.msg) /\ Handler \in Handlers /\ steps \in Seq(StepsFor(job.msg))
        /\ p \in Nat /\ p + 1 \in 1 .. Len(steps) /\ Tail(job.todo) = Rest(steps, p + 1)
    BY NextStepIs
  <1>2. /\ job'.stage = "steps" /\ job'.msg = job.msg /\ job'.todo = Tail(job.todo)
        /\ Handler' = Handler
    BY StepMade
  <1>3. Len(job'.todo) = Len(steps) - (p + 1) /\ Len(steps) \in Nat
    <2> DEFINE S == StepsFor(job.msg)
               q == p + 1
    <2>1. steps \in Seq(S) /\ q \in 0 .. Len(steps) /\ Len(steps) \in Nat
      BY <1>1
    <2>2. job'.todo = Rest(steps, q)
      BY <1>1, <1>2
    <2> HIDE DEF S, q
    <2>3. Len(Rest(steps, q)) = Len(steps) - q
      BY <2>1, RestIs
    <2> QED
      BY <2>1, <2>2, <2>3 DEF q
  <1>4. CASE Handler = "BroadcastHandler"
    <2>1. steps = Broadcast(job.msg)
      BY <1>1, <1>4, RunIs DEF AtStep
    <2>2. Broadcast(job'.msg) = steps
      BY <1>2, <2>1
    <2>3. Len(Broadcast(job'.msg)) - Len(job'.todo) = p + 1
      <3> DEFINE b == Len(Broadcast(job'.msg))
                 n == Len(steps)
                 r == Len(job'.todo)
      <3>1. b = n
        BY <2>2, Zenon
      <3>2. n \in Nat /\ p \in Nat /\ r = n - (p + 1)
        BY <1>1, <1>3
      <3> HIDE DEF b, n, r
      <3>3. b - r = p + 1
        BY <3>1, <3>2
      <3> QED
        BY <3>3 DEF b, r
    <2> QED
      BY <1>2, <1>4, <2>3 DEF Uncounted
  <1>5. CASE Handler # "BroadcastHandler"
    BY <1>2, <1>5 DEF Uncounted
  <1> QED
    BY <1>4, <1>5

\* The counter moves, or a text is too long: what was handed over is then counted.
LEMMA CountedByStep ==
    ASSUME Course, BroadcastCounted, CountStep \/ HandlerRaises \/ HandlerDone
    PROVE  BroadcastCounted'
  <1> USE DEF CountStep, HandlerRaises, HandlerDone, InStage
  <1>0. job.stage = "steps" /\ sends' = sends /\ faults' = faults
    OBVIOUS
  <1>1. PICK steps, p : AtStep(steps, p)
    BY <1>0 DEF Course, Progress
  <1> DEFINE w == Width(job.msg)
             u == Uncounted
  <1>2. /\ HasLines(job.msg) /\ Handler \in Handlers /\ p \in Nat /\ p <= Len(steps)
        /\ steps \in Seq(StepsFor(job.msg))
        /\ job.todo = <<>> <=> p = Len(steps)
        /\ job.todo # <<>> => /\ p + 1 \in 1 .. Len(steps) /\ NextStep = steps[p + 1]
                              /\ NextStep \in StepsFor(job.msg)
    BY <1>0, <1>1, NextStepIs
  <1>3. u = IF Handler = "BroadcastHandler" /\ p <= w THEN p ELSE 0
    BY <1>0, <1>1, UncountedAt
  <1>4. Handler = "BroadcastHandler" =>
            /\ steps = Broadcast(job.msg) /\ w \in Nat /\ w <= Len(steps)
            /\ w # 0 => Len(steps) = w + 2 /\ steps[w + 1] = Count("broadcast", w)
            /\ \A k \in 1 .. w : steps[k].do = "send"
            /\ \A k \in w + 1 .. Len(steps) : steps[k].do = "count" => w # 0 /\ k = w + 1
    <2> SUFFICES ASSUME Handler = "BroadcastHandler"
                 PROVE  /\ steps = Broadcast(job.msg) /\ w \in Nat /\ w <= Len(steps)
                        /\ w # 0 => Len(steps) = w + 2 /\ steps[w + 1] = Count("broadcast", w)
                        /\ \A k \in 1 .. w : steps[k].do = "send"
                        /\ \A k \in w + 1 .. Len(steps) :
                              steps[k].do = "count" => w # 0 /\ k = w + 1
      OBVIOUS
    <2>1. steps = Broadcast(job.msg)
      BY <1>1, <1>2, RunIs DEF AtStep
    <2>2. \A to, line : SendTo(to, line).do = "send"
      BY DEF SendTo
    <2>3. /\ w \in Nat /\ w <= Len(steps)
          /\ w # 0 => Len(steps) = w + 2 /\ steps[w + 1] = Count("broadcast", w)
          /\ \A k \in 1 .. w : steps[k] = SendTo(Sent(job.msg)[k], Readable(job.msg)[k])
          /\ \A k \in w + 1 .. Len(steps) : steps[k].do = "count" => w # 0 /\ k = w + 1
      BY <1>2, <2>1, BroadcastIs
    <2> HIDE DEF w
    <2> QED
      BY <2>1, <2>2, <2>3
  <1>5. counters.broadcast \in Nat /\ counters \in [relay : Nat, broadcast : Nat, sage : Nat]
    BY DEF Course, PipelineType
  <1>6. Count("broadcast", w).do = "count" /\ Count("broadcast", w).key = "broadcast"
        /\ Count("broadcast", w).by = w
    BY DEF Count
  <1> HIDE DEF w, u
  <1>7. counters'.broadcast + Uncounted' = counters.broadcast + u
    <2>1. CASE CountStep
      <3>0. Uncounted' = IF Handler = "BroadcastHandler" /\ p + 1 <= w THEN p + 1 ELSE 0
        BY <1>0, <1>1, <2>1, UncountedNext DEF w
      <3>1. counters' = [counters EXCEPT ![NextStep.key] = @ + NextStep.by]
        BY <2>1
      <3>2. NextStep.do = "count" /\ NextStep = steps[p + 1] /\ p + 1 \in 1 .. Len(steps)
        BY <1>2, <2>1
      <3>3. CASE Handler = "BroadcastHandler"
        <4>1. p + 1 = w + 1 /\ w # 0
          <5>1. p + 1 \in 1 .. w \/ p + 1 \in w + 1 .. Len(steps)
            BY <1>2, <1>4, <3>2, <3>3
          <5> QED
            BY <1>4, <3>2, <3>3, <5>1
        <4>2. NextStep.key = "broadcast" /\ NextStep.by = w /\ w \in Nat /\ p = w
          BY <1>2, <1>4, <1>6, <3>2, <3>3, <4>1
        <4>3. counters'.broadcast = counters.broadcast + w
          BY <1>5, <3>1, <4>2
        <4> QED
          BY <1>3, <1>5, <3>0, <3>3, <4>2, <4>3
      <3>4. CASE Handler # "BroadcastHandler"
        <4>1. NextStep.key # "broadcast"
          <5>1. CASE Handler = "GroupRelayHandler"
            <6>1. steps = Relay(job.msg)
              BY <1>1, <1>2, <5>1, RunIs DEF AtStep
            <6>2. p + 1 = 1 \/ p + 1 \in 2 .. Len(steps)
              BY <1>2, <3>2
            <6>3. NextStep = Count("relay", 1)
              BY <1>2, <3>2, <6>1, <6>2, RelayIs
            <6> QED
              BY <6>3 DEF Count
          <5>2. CASE Handler # "GroupRelayHandler"
            BY <1>1, <1>2, <3>2, <3>4, <5>2, RunIs DEF AtStep
          <5> QED
            BY <5>1, <5>2
        <4>2. counters'.broadcast = counters.broadcast
          BY <1>5, <3>1, <4>1
        <4> QED
          BY <1>3, <3>0, <3>4, <4>2
      <3> QED
        BY <3>3, <3>4
    <2>2. CASE HandlerRaises
      <3>1. Uncounted' = 0
        BY <2>2, UncountedOutside DEF JobFails, NoJob, Uncounted
      <3>2. u = 0
        <4> SUFFICES ASSUME Handler = "BroadcastHandler", p <= w, p # 0 PROVE FALSE
          BY <1>3
        <4>1. NextStep.do = "raise" /\ p + 1 \in 1 .. Len(steps) /\ NextStep = steps[p + 1]
          BY <1>2, <2>2
        <4>2. p + 1 \in 1 .. w \/ p + 1 = w + 1
          BY <1>2, <1>4
        <4> QED
          BY <1>2, <1>4, <1>6, <4>1, <4>2
      <3> QED
        BY <2>2, <3>1, <3>2
    <2>3. CASE HandlerDone
      <3>1. Uncounted' = 0
        <4>1. "stage" \in DOMAIN job
          BY <1>0 DEF Course, JobSound, NoJob
        <4>2. job'.stage = "chain"
          BY <2>3, <4>1
        <4> QED
          BY <4>2 DEF Uncounted
      <3>2. u = 0
        <4> SUFFICES ASSUME Handler = "BroadcastHandler", p <= w, p # 0 PROVE FALSE
          BY <1>3
        <4>1. p = Len(steps)
          BY <1>2, <2>3
        <4> QED
          BY <1>2, <1>4, <4>1
      <3> QED
        BY <2>3, <3>1, <3>2
    <2> QED
      BY <2>1, <2>2, <2>3
  <1> QED
    BY <1>0, <1>7 DEF BroadcastCounted, u

\* A message handed over waits to be counted, and is a record of its own.
LEMMA CountedBySend ==
    ASSUME Course, BroadcastCounted, SendStep PROVE BroadcastCounted'
  <1> USE DEF SendStep, InStage
  <1>1. PICK what \in {"accepted", "refused"} : sends' = sends \cup {Outcome(what)}
    OBVIOUS
  <1>2. /\ job.stage = "steps" /\ job.todo # <<>> /\ NextStep.do = "send"
        /\ counters' = counters /\ faults' = faults
    BY DEF Course, AsksForASend
  <1>3. PICK steps, p : AtStep(steps, p)
    BY <1>2 DEF Course, Progress
  <1> DEFINE o == Outcome(what)
             w == Width(job.msg)
             u == Uncounted
             rd == Readable(job.msg)
             H == HandedBy(sends)
  <1>4. /\ HasLines(job.msg) /\ Handler \in Handlers /\ p \in Nat /\ p + 1 \in 1 .. Len(steps)
        /\ NextStep = steps[p + 1]
    BY <1>2, <1>3, NextStepIs
  <1>5. /\ o.msg = job.msg /\ o.run = run[job.msg] /\ o.handler = Handler
        /\ o.line = NextStep.line /\ o.outcome = what /\ IsFiniteSet(sends)
    BY <1>2, OutcomeIs DEF Course, PipelineType
  <1> HIDE DEF o
  <1>6. sends' = sends \cup {o}
    BY <1>1 DEF o
  <1>7. /\ u = IF Handler = "BroadcastHandler" /\ p <= w THEN p ELSE 0
        /\ Uncounted' = IF Handler = "BroadcastHandler" /\ p + 1 <= w THEN p + 1 ELSE 0
    BY <1>2, <1>3, UncountedAt, UncountedNext
  <1>8. IsFiniteSet(H) /\ Cardinality(H) \in Nat
    <2>1. H \in SUBSET sends
      BY DEF HandedBy
    <2> QED
      BY <1>5, <2>1, FS_Subset, FS_CardinalityType
  <1>9. CASE Handler = "BroadcastHandler"
    <2>1. steps = Broadcast(job.msg)
      BY <1>3, <1>4, <1>9, RunIs DEF AtStep
    <2>2. /\ w \in Nat
          /\ w # 0 => steps[w + 1] = Count("broadcast", w)
          /\ \A k \in 1 .. w : steps[k] = SendTo(Sent(job.msg)[k], rd[k])
          /\ \A k \in w + 1 .. Len(steps) : steps[k].do = "send" => steps[k].line = 0
      BY <1>4, <2>1, BroadcastIs
    <2>3. /\ rd \in Seq(Content(job.msg)) /\ Content(job.msg) \in SUBSET (Nat \ {0})
          /\ \A i, j \in 1 .. Len(rd) : rd[i] = rd[j] => i = j
      BY <1>4, BatchIs
    <2>4. w <= Len(rd)
      BY <2>3 DEF Width
    <2> HIDE DEF w, rd
    <2>5. \A k \in 1 .. w : steps[k].line = rd[k] /\ rd[k] # 0
      <3>1. \A to, line : SendTo(to, line).line = line
        BY DEF SendTo
      <3>2. \A k \in 1 .. w : rd[k] # 0
        BY <2>2, <2>3, <2>4
      <3> QED
        BY <2>2, <3>1, <3>2
    <2>6. CASE p + 1 <= w
      <3>1. p + 1 \in 1 .. w /\ p + 1 \in 1 .. Len(rd)
        BY <1>4, <2>2, <2>3, <2>4, <2>6
      <3>2. o.line = rd[p + 1] /\ o.line # 0
        BY <1>4, <1>5, <2>5, <3>1
      <3>3. HandedBy(sends \cup {o}) = H \cup {o}
        BY <1>5, <1>9, <3>2 DEF HandedBy
      <3>4. o \notin H
        <4> SUFFICES ASSUME o \in sends PROVE FALSE
          BY DEF HandedBy
        <4>1. PICK k \in 1 .. p : Records(o, steps[k])
          BY <1>3, <1>5 DEF AtStep, Made
        <4>2. k \in 1 .. w /\ k \in 1 .. Len(rd) /\ k # p + 1
          BY <1>4, <2>2, <2>3, <3>1
        <4>3. o.line = rd[k]
          BY <2>5, <4>1, <4>2 DEF Records
        <4> QED
          BY <2>3, <3>1, <3>2, <4>2, <4>3
      <3>5. Cardinality(HandedBy(sends')) = Cardinality(H) + 1
        BY <1>6, <1>8, <3>3, <3>4, FS_AddElement
      <3>6. Uncounted' = u + 1 /\ u \in Nat
        BY <1>4, <1>7, <1>9, <2>2, <2>6 DEF w
      <3>7. counters.broadcast \in Nat
        BY DEF Course, PipelineType
      <3> HIDE DEF u, H
      <3>8. /\ counters.broadcast + u <= Cardinality(H)
            /\ faults = 0 => counters.broadcast + u = Cardinality(H)
        BY DEF BroadcastCounted, u, H
      <3> QED
        BY <1>2, <1>8, <3>5, <3>6, <3>7, <3>8 DEF BroadcastCounted, H
    <2>7. CASE ~(p + 1 <= w)
      <3>1. p + 1 \in w + 1 .. Len(steps)
        BY <1>4, <2>2, <2>7
      <3>2. o.line = 0
        BY <1>2, <1>4, <1>5, <2>2, <3>1
      <3>3. HandedBy(sends \cup {o}) = H
        BY <3>2 DEF HandedBy
      <3>4. p = w => w = 0
        <4> SUFFICES ASSUME p = w, w # 0 PROVE FALSE
          OBVIOUS
        <4>1. steps[p + 1] = Count("broadcast", w)
          BY <2>2
        <4> QED
          BY <1>2, <1>4, <4>1 DEF Count
      <3>5. u = 0 /\ Uncounted' = 0
        BY <1>4, <1>7, <2>2, <2>7, <3>4 DEF w
      <3> QED
        BY <1>2, <1>6, <3>3, <3>5 DEF BroadcastCounted
    <2> QED
      BY <2>6, <2>7
  <1>10. CASE Handler # "BroadcastHandler"
    <2>1. HandedBy(sends \cup {o}) = H
      BY <1>5, <1>10 DEF HandedBy
    <2>2. u = 0 /\ Uncounted' = 0
      BY <1>7, <1>10
    <2> QED
      BY <1>2, <1>6, <2>1, <2>2 DEF BroadcastCounted
  <1> QED
    BY <1>9, <1>10

\* The bridge fails or the run is cut short: what was handed over in this run and not yet
\* counted never is.
LEMMA CountedByFailure ==
    ASSUME Course, BroadcastCounted, SendFails \/ RunBreaks PROVE BroadcastCounted'
  <1> USE DEF SendFails, RunBreaks, InStage
  <1>1. job' = NoJob /\ counters' = counters /\ faults' = faults + 1
    BY DEF JobFails
  <1>2. HandedBy(sends') = HandedBy(sends)
    <2>1. CASE SendFails
      <3> DEFINE o == Outcome("failed")
      <3>1. o.outcome = "failed"
        BY <2>1, OutcomeIs
      <3> HIDE DEF o
      <3>2. sends' = sends \cup {o}
        BY <2>1 DEF o
      <3> QED
        BY <3>1, <3>2 DEF HandedBy
    <2>2. CASE RunBreaks
      BY <2>2
    <2> QED
      BY <2>1, <2>2
  <1>3. Uncounted' = 0
    BY <1>1 DEF Uncounted, NoJob
  <1>4. Uncounted \in Nat
    <2>1. CASE job.stage = "steps"
      <3>1. PICK steps, p : AtStep(steps, p)
        BY <2>1 DEF Course, Progress
      <3>2. p \in Nat
        BY <2>1, <3>1, NextStepIs
      <3> QED
        BY <2>1, <3>1, <3>2, UncountedAt
    <2> QED
      BY <2>1, UncountedOutside
  <1>5. faults' # 0 /\ counters.broadcast \in Nat /\ Cardinality(HandedBy(sends)) \in Nat
    <2>1. HandedBy(sends) \in SUBSET sends /\ IsFiniteSet(sends)
      BY DEF HandedBy, Course, PipelineType
    <2>2. faults \in Nat /\ counters.broadcast \in Nat
      BY DEF Course, PipelineType
    <2> QED
      BY <1>1, <2>1, <2>2, FS_Subset, FS_CardinalityType
  <1> DEFINE u == Uncounted
             c == counters.broadcast
  <1>6. c + u <= Cardinality(HandedBy(sends)) /\ c \in Nat /\ u \in Nat
    BY <1>4, <1>5 DEF BroadcastCounted
  <1>7. counters'.broadcast = c
    BY <1>1
  <1> HIDE DEF u, c
  <1>8. c + 0 <= Cardinality(HandedBy(sends))
    BY <1>5, <1>6
  <1> QED
    BY <1>2, <1>3, <1>5, <1>7, <1>8 DEF BroadcastCounted

-----------------------------------------------------------------------------
(* The relay counter *)

RelayedBy(S) == {s.msg : s \in {s \in S : s.handler = "GroupRelayHandler"}}

\* The message whose relay is counted and not over yet.
CountedNow ==
    IF /\ job.stage = "steps" /\ Handler = "GroupRelayHandler"
       /\ Len(job.todo) < Len(Relay(job.msg))
    THEN {job.msg} ELSE {}

\* The messages whose last run relayed them and has not failed.
RelayedNow ==
    {m \in inbox : /\ state[m] \in {"running", "done"}
                   /\ \E s \in sends : /\ s.msg = m /\ s.run = run[m]
                                       /\ s.handler = "GroupRelayHandler"}

Held == CountedNow \cup RelayedNow

RelayCounted ==
    /\ IsFiniteSet(RelayedBy(sends))
    /\ Cardinality(RelayedBy(sends) \cup CountedNow) <= counters.relay
    /\ counters.relay <= Cardinality(Held) + faults + raises

\* One more element makes a finite set larger by one at most.
LEMMA OneMore ==
    ASSUME NEW S, IsFiniteSet(S), NEW x
    PROVE  /\ IsFiniteSet(S \cup {x})
           /\ Cardinality(S) \in Nat /\ Cardinality(S \cup {x}) \in Nat
           /\ Cardinality(S \cup {x}) <= Cardinality(S) + 1
  <1>1. Cardinality(S) \in Nat
    BY FS_CardinalityType
  <1>2. /\ IsFiniteSet(S \cup {x})
        /\ Cardinality(S \cup {x}) = IF x \in S THEN Cardinality(S) ELSE Cardinality(S) + 1
    BY FS_AddElement
  <1> QED
    BY <1>1, <1>2

\* The messages that are told of were relayed, or are counted now: finitely many.
LEMMA HeldIs ==
    ASSUME Course, RelayCounted
    PROVE  /\ Held \in SUBSET (RelayedBy(sends) \cup CountedNow)
           /\ IsFiniteSet(RelayedBy(sends) \cup CountedNow) /\ IsFiniteSet(Held)
           /\ IsFiniteSet(CountedNow)
           /\ Cardinality(RelayedBy(sends) \cup CountedNow) \in Nat /\ Cardinality(Held) \in Nat
           /\ counters.relay \in Nat /\ faults \in Nat /\ raises \in Nat
  <1> DEFINE R == RelayedBy(sends)
             A == R \cup CountedNow
  <1>1. RelayedNow \in SUBSET R
    BY DEF RelayedNow, RelayedBy
  <1>2. CountedNow = {} \/ CountedNow = {job.msg}
    BY DEF CountedNow
  <1>3. IsFiniteSet(CountedNow)
    <2>1. \A x : IsFiniteSet({x})
      BY FS_Singleton
    <2>2. IsFiniteSet({})
      BY FS_EmptySet
    <2> QED
      BY <1>2, <2>1, <2>2
  <1>4. IsFiniteSet(R)
    BY DEF RelayCounted
  <1> HIDE DEF R
  <1>5. IsFiniteSet(A) /\ Held \in SUBSET A
    BY <1>1, <1>3, <1>4, FS_Union DEF Held
  <1> HIDE DEF A
  <1>6. IsFiniteSet(Held) /\ Cardinality(A) \in Nat /\ Cardinality(Held) \in Nat
    BY <1>5, FS_Subset, FS_CardinalityType
  <1>7. counters.relay \in Nat /\ faults \in Nat /\ raises \in Nat
    BY DEF Course, PipelineType
  <1> QED
    BY <1>3, <1>5, <1>6, <1>7 DEF A, R

\* Inside the relay the message is counted once its first step was made.
LEMMA CountedNowAt ==
    ASSUME Course, job.stage = "steps", NEW steps, NEW p, AtStep(steps, p)
    PROVE  /\ CountedNow = IF Handler = "GroupRelayHandler" /\ p # 0 THEN {job.msg} ELSE {}
           /\ Handler = "GroupRelayHandler" => steps = Relay(job.msg)
  <1>1. /\ HasLines(job.msg) /\ Handler \in Handlers /\ steps \in Seq(StepsFor(job.msg))
        /\ p \in Nat /\ p <= Len(steps) /\ Len(job.todo) = Len(steps) - p
    BY NextStepIs
  <1>2. CASE Handler = "GroupRelayHandler"
    <2>1. steps = Relay(job.msg)
      BY <1>1, <1>2, RunIs DEF AtStep
    <2>2. Len(steps) \in Nat
      BY <1>1
    <2>3. Len(job.todo) < Len(steps) <=> p # 0
      BY <1>1, <2>2
    <2> QED
      BY <1>2, <2>1, <2>3 DEF CountedNow
  <1>3. CASE Handler # "GroupRelayHandler"
    BY <1>3 DEF CountedNow
  <1> QED
    BY <1>2, <1>3

\* After a step of the relay it is.
LEMMA CountedNowNext ==
    ASSUME Course, job.stage = "steps", NEW steps, NEW p, AtStep(steps, p),
           job.todo # <<>>, job' = [job EXCEPT !.todo = Tail(@)],
           UNCHANGED <<chain, inbox, state, run>>
    PROVE  CountedNow' = IF Handler = "GroupRelayHandler" THEN {job.msg} ELSE {}
  <1>1. /\ p \in Nat /\ p + 1 \in 1 .. Len(steps) /\ Tail(job.todo) = Rest(steps, p + 1)
        /\ steps \in Seq(StepsFor(job.msg))
    BY NextStepIs
  <1>2. /\ job'.stage = "steps" /\ job'.msg = job.msg /\ job'.todo = Tail(job.todo)
        /\ Handler' = Handler
    BY StepMade
  <1>3. Len(job'.todo) < Len(steps)
    <2> DEFINE S == StepsFor(job.msg)
               q == p + 1
    <2>1. steps \in Seq(S) /\ q \in 0 .. Len(steps) /\ Len(steps) \in Nat /\ q > 0
      BY <1>1
    <2>2. job'.todo = Rest(steps, q)
      BY <1>1, <1>2
    <2> HIDE DEF S, q
    <2>3. Len(Rest(steps, q)) = Len(steps) - q
      BY <2>1, RestIs
    <2> QED
      BY <2>1, <2>2, <2>3
  <1>4. Handler = "GroupRelayHandler" => steps = Relay(job.msg)
    BY CountedNowAt
  <1> QED
    BY <1>2, <1>3, <1>4 DEF CountedNow

\* A handler begins with nothing made, so with nothing to count and nothing counted.
LEMMA RunBegins ==
    ASSUME Course, RunHandler PROVE Uncounted' = 0 /\ CountedNow' = {}
  <1> USE DEF RunHandler, InStage
  <1>1. PICK i \in job.at .. Len(chain) : \E steps \in Runs(chain[i], job.msg) :
            job' = [job EXCEPT !.stage = "steps", !.at = i, !.todo = steps]
    OBVIOUS
  <1>2. PICK steps \in Runs(chain[i], job.msg) :
            job' = [job EXCEPT !.stage = "steps", !.at = i, !.todo = steps]
    BY <1>1
  <1>3. /\ DOMAIN job = {"stage", "msg", "at", "todo"} /\ job.at \in Nat \ {0}
        /\ job.msg \in inbox
    BY DEF Course, JobSound, NoJob
  <1>4. job'.stage = "steps" /\ job'.msg = job.msg /\ job'.at = i /\ job'.todo = steps
    BY <1>2, <1>3
  <1>5. Handler' = chain[i] /\ chain[i] \in Handlers
    BY <1>3, <1>4 DEF Course, ChainSound, Handler
  <1>6. HasLines(job.msg)
    BY <1>3, PipelineAssumption DEF Course, PipelineType, HasLines
  <1>7. /\ chain[i] = "BroadcastHandler" => steps = Broadcast(job.msg)
        /\ chain[i] = "GroupRelayHandler" => steps = Relay(job.msg)
        /\ steps \in Seq(StepsFor(job.msg))
    BY <1>5, <1>6, RunIs
  <1>8. Len(steps) \in Nat
    BY <1>7
  <1> HIDE DEF RunHandler
  <1>9. Uncounted' = 0
    <2>1. CASE chain[i] = "BroadcastHandler"
      <3>1. Broadcast(job'.msg) = steps
        BY <1>4, <1>7, <2>1
      <3>2. Len(Broadcast(job'.msg)) - Len(job'.todo) = 0
        <4> DEFINE n == Len(steps)
        <4>1. Len(Broadcast(job'.msg)) = n /\ Len(job'.todo) = n /\ n \in Nat
          BY <1>4, <1>8, <3>1
        <4> HIDE DEF n
        <4> QED
          BY <4>1
      <3> QED
        BY <3>2 DEF Uncounted
    <2>2. CASE chain[i] # "BroadcastHandler"
      BY <1>5, <2>2 DEF Uncounted
    <2> QED
      BY <2>1, <2>2
  <1>10. CountedNow' = {}
    BY <1>4, <1>5, <1>7, <1>8 DEF CountedNow
  <1> QED
    BY <1>9, <1>10

\* A job begins: its run has relayed nothing.
LEMMA RelayTakeJob ==
    ASSUME Course, RelayCounted, NEW m \in inbox, TakeJob(m) PROVE RelayCounted'
  <1> USE DEF TakeJob, InStage
  <1>1. CountedNow = {} /\ CountedNow' = {}
    BY DEF CountedNow
  <1>2. run[m] \in Nat /\ run'[m] = run[m] + 1
    BY DEF Course, PipelineType
  <1>3. RelayedNow' = RelayedNow
    <2>1. \A s \in sends : s.msg = m => s.run # run'[m]
      BY <1>2 DEF Course, PipelineType
    <2>2. state'[m] = "running" /\ \A x \in inbox \ {m} : state'[x] = state[x] /\ run'[x] = run[x]
      BY DEF Course, PipelineType
    <2>3. m \notin RelayedNow
      BY DEF RelayedNow
    <2>4. m \notin RelayedNow'
      BY <2>1 DEF RelayedNow
    <2>5. \A x \in inbox \ {m} : x \in RelayedNow' <=> x \in RelayedNow
      BY <2>2 DEF RelayedNow
    <2>6. RelayedNow \in SUBSET inbox /\ RelayedNow' \in SUBSET inbox
      BY DEF RelayedNow
    <2> HIDE DEF TakeJob
    <2> DEFINE before == RelayedNow
               after  == RelayedNow'
    <2>7. /\ before \in SUBSET inbox /\ after \in SUBSET inbox
          /\ m \notin before /\ m \notin after
          /\ \A x \in inbox \ {m} : x \in after <=> x \in before
      BY <2>3, <2>4, <2>5, <2>6
    <2> HIDE DEF before, after
    <2>8. before = after
      BY <2>7
    <2> QED
      BY <2>8 DEF before, after
  <1> QED
    BY <1>1, <1>3 DEF RelayCounted, Held

\* The relay counter moves for one more message, which this run has not relayed yet.
LEMMA RelayCountStep ==
    ASSUME Course, RelayCounted, CountStep PROVE RelayCounted'
  <1> USE DEF CountStep, InStage
  <1>1. PICK steps, p : AtStep(steps, p)
    BY DEF Course, Progress
  <1>2. /\ HasLines(job.msg) /\ Handler \in Handlers /\ p \in Nat
        /\ p + 1 \in 1 .. Len(steps) /\ NextStep = steps[p + 1] /\ job.msg \in inbox
        /\ steps \in Seq(StepsFor(job.msg))
    BY <1>1, NextStepIs
  <1>3. /\ CountedNow = IF Handler = "GroupRelayHandler" /\ p # 0 THEN {job.msg} ELSE {}
        /\ CountedNow' = IF Handler = "GroupRelayHandler" THEN {job.msg} ELSE {}
        /\ Handler = "GroupRelayHandler" => steps = Relay(job.msg)
    BY <1>1, CountedNowAt, CountedNowNext
  <1>4. RelayedNow' = RelayedNow /\ sends' = sends /\ faults' = faults /\ raises' = raises
    BY DEF RelayedNow
  <1>5. counters \in [relay : Nat, broadcast : Nat, sage : Nat]
    BY DEF Course, PipelineType
  <1> DEFINE R == RelayedBy(sends)
             c == counters.relay
  <1>6. /\ IsFiniteSet(R) /\ IsFiniteSet(Held) /\ Held \in SUBSET (R \cup CountedNow)
        /\ Cardinality(R \cup CountedNow) \in Nat /\ Cardinality(Held) \in Nat
        /\ c \in Nat /\ faults \in Nat /\ raises \in Nat
        /\ Cardinality(R \cup CountedNow) <= c /\ c <= Cardinality(Held) + faults + raises
    BY HeldIs DEF RelayCounted
  <1>7. CASE Handler = "GroupRelayHandler"
    <2>1. p = 0 /\ NextStep = Count("relay", 1)
      <3>1. p + 1 = 1 \/ p + 1 \in 2 .. Len(steps)
        BY <1>2
      <3>2. p + 1 = 1
        BY <1>2, <1>3, <1>7, <3>1, RelayIs
      <3> QED
        BY <1>2, <1>3, <1>7, <3>2, RelayIs
    <2>2. counters'.relay = c + 1
      BY <1>5, <2>1 DEF Count
    <2>3. CountedNow = {} /\ CountedNow' = {job.msg}
      BY <1>3, <1>7, <2>1
    <2>4. job.msg \notin Held
      <3>1. \A s \in sends :
                ~(s.msg = job.msg /\ s.handler = "GroupRelayHandler" /\ s.run = run[job.msg])
        BY <1>1, <1>7, <2>1 DEF AtStep, Made
      <3> QED
        BY <2>3, <3>1 DEF Held, RelayedNow
    <2>5. Held' = Held \cup {job.msg}
      BY <1>4, <2>3 DEF Held
    <2> DEFINE H == Held
    <2> HIDE DEF R, c, H
    <2>6. Cardinality(Held') = Cardinality(H) + 1
      BY <1>6, <2>4, <2>5, FS_AddElement DEF H
    <2>7. Cardinality(R \cup {job.msg}) <= Cardinality(R) + 1 /\ Cardinality(R) \in Nat
      BY <1>6, OneMore
    <2>8. Cardinality(R \cup CountedNow) = Cardinality(R)
      <3>1. R \cup CountedNow = R
        BY <2>3
      <3> QED
        BY <3>1
    <2>9. Cardinality(R \cup {job.msg}) \in Nat
      BY <1>6, OneMore
    <2>10. /\ Cardinality(R \cup {job.msg}) <= c + 1
           /\ c + 1 <= Cardinality(Held') + faults + raises
      BY <1>6, <2>6, <2>7, <2>8, <2>9 DEF H
    <2> QED
      BY <1>4, <1>6, <2>2, <2>3, <2>10 DEF RelayCounted, R
  <1>8. CASE Handler # "GroupRelayHandler"
    <2>1. NextStep.key # "relay"
      <3>1. CASE Handler = "BroadcastHandler"
        <4> DEFINE w == Width(job.msg)
        <4>1. steps = Broadcast(job.msg)
          BY <1>1, <1>2, <3>1, RunIs DEF AtStep
        <4>2. /\ w \in Nat /\ (w # 0 => steps[w + 1] = Count("broadcast", w))
              /\ \A k \in 1 .. w : steps[k] = SendTo(Sent(job.msg)[k], Readable(job.msg)[k])
              /\ \A k \in w + 1 .. Len(steps) : steps[k].do = "count" => w # 0 /\ k = w + 1
          BY <1>2, <4>1, BroadcastIs
        <4> HIDE DEF w
        <4>3. p + 1 \notin 1 .. w
          <5>1. \A to, line : SendTo(to, line).do = "send"
            BY DEF SendTo
          <5> QED
            BY <1>2, <4>2, <5>1
        <4>4. NextStep = Count("broadcast", w)
          BY <1>2, <4>2, <4>3
        <4> QED
          BY <4>4 DEF Count
      <3>2. CASE Handler # "BroadcastHandler"
        BY <1>1, <1>2, <1>8, <3>2, RunIs DEF AtStep
      <3> QED
        BY <3>1, <3>2
    <2>2. counters'.relay = counters.relay
      BY <1>5, <2>1
    <2>3. CountedNow' = CountedNow
      BY <1>3, <1>8
    <2> QED
      BY <1>4, <2>2, <2>3 DEF RelayCounted, Held
  <1> QED
    BY <1>7, <1>8

\* A group gets the message: it was counted before.
LEMMA RelaySendStep ==
    ASSUME Course, RelayCounted, SendStep PROVE RelayCounted'
  <1> USE DEF SendStep, InStage
  <1>1. PICK what : sends' = sends \cup {Outcome(what)}
    OBVIOUS
  <1>2. /\ job.stage = "steps" /\ job.todo # <<>> /\ NextStep.do = "send"
        /\ UNCHANGED <<counters, faults, raises>>
    BY DEF Course, AsksForASend
  <1>3. PICK steps, p : AtStep(steps, p)
    BY <1>2 DEF Course, Progress
  <1> DEFINE o == Outcome(what)
  <1>4. /\ HasLines(job.msg) /\ p \in Nat /\ NextStep = steps[p + 1] /\ job.msg \in inbox
    BY <1>2, <1>3, NextStepIs
  <1>5. /\ CountedNow = IF Handler = "GroupRelayHandler" /\ p # 0 THEN {job.msg} ELSE {}
        /\ CountedNow' = IF Handler = "GroupRelayHandler" THEN {job.msg} ELSE {}
        /\ Handler = "GroupRelayHandler" => steps = Relay(job.msg)
    BY <1>2, <1>3, CountedNowAt, CountedNowNext
  <1>6. o.msg = job.msg /\ o.handler = Handler
    BY <1>2, OutcomeIs
  <1> HIDE DEF o
  <1>7. sends' = sends \cup {o}
    BY <1>1 DEF o
  <1>8. CountedNow' = CountedNow
    <2>1. ASSUME Handler = "GroupRelayHandler" PROVE p # 0
      <3> SUFFICES ASSUME p = 0 PROVE FALSE
        OBVIOUS
      <3>1. NextStep = Count("relay", 1)
        BY <1>4, <1>5, <2>1, RelayIs
      <3> QED
        BY <1>2, <3>1 DEF Count
    <2> QED
      BY <1>5, <2>1
  <1>9. RelayedBy(sends') \cup CountedNow' = RelayedBy(sends) \cup CountedNow
    BY <1>5, <1>6, <1>7, <1>8 DEF RelayedBy
  <1>10. Held' = Held
    <2> DEFINE before == RelayedNow
               after  == RelayedNow'
    <2>1. \A x \in inbox : x # job.msg => (x \in after <=> x \in before)
      BY <1>6, <1>7 DEF RelayedNow
    <2>2. Handler # "GroupRelayHandler" => \A x \in inbox : x \in after <=> x \in before
      BY <1>6, <1>7 DEF RelayedNow
    <2>3. before \in SUBSET inbox /\ after \in SUBSET inbox
      BY DEF RelayedNow
    <2>4. Handler = "GroupRelayHandler" => CountedNow = {job.msg}
      BY <1>5, <1>8
    <2> HIDE DEF before, after
    <2>5. CountedNow \cup after = CountedNow \cup before
      BY <2>1, <2>2, <2>3, <2>4
    <2> QED
      BY <1>8, <2>5 DEF Held, before, after
  <1>11. IsFiniteSet(RelayedBy(sends'))
    <2>1. RelayedBy(sends') \in SUBSET (RelayedBy(sends) \cup {job.msg})
      BY <1>6, <1>7 DEF RelayedBy
    <2> DEFINE R == RelayedBy(sends)
               Q == RelayedBy(sends')
    <2>2. IsFiniteSet(R) /\ Q \in SUBSET (R \cup {job.msg})
      BY <2>1 DEF RelayCounted
    <2> HIDE DEF R, Q
    <2>3. IsFiniteSet(Q)
      BY <2>2, FS_AddElement, FS_Subset
    <2> QED
      BY <2>3 DEF Q
  <1> QED
    BY <1>2, <1>9, <1>10, <1>11 DEF RelayCounted

\* A run fails: the fault or the text that is too long stands for its count.
LEMMA RelayFails ==
    ASSUME Course, RelayCounted, SendFails \/ HandlerRaises \/ RunBreaks PROVE RelayCounted'
  <1> USE DEF SendFails, HandlerRaises, RunBreaks, InStage
  <1>1. /\ job.stage # "idle" /\ job' = NoJob /\ inbox' = inbox /\ run' = run
        /\ counters' = counters
        /\ state' = [state EXCEPT ![job.msg] = IF run[job.msg] > MaxRetries THEN "dead" ELSE "waiting"]
    BY DEF JobFails
  <1>2. CountedNow = {} \/ CountedNow = {job.msg}
    BY DEF CountedNow
  <1>3. RelayedBy(sends') \in SUBSET (RelayedBy(sends) \cup CountedNow)
    <2>1. CASE SendFails \/ HandlerRaises
      <3>1. job.stage = "steps" /\ job.todo # <<>> /\ NextStep.do \in {"send", "raise"}
        BY <2>1 DEF Course, AsksForASend
      <3>2. PICK steps, p : AtStep(steps, p)
        BY <3>1 DEF Course, Progress
      <3>3. /\ HasLines(job.msg) /\ p \in Nat /\ NextStep = steps[p + 1] /\ job.msg \in inbox
        BY <3>1, <3>2, NextStepIs
      <3>4. /\ CountedNow = IF Handler = "GroupRelayHandler" /\ p # 0 THEN {job.msg} ELSE {}
            /\ Handler = "GroupRelayHandler" => steps = Relay(job.msg)
        BY <3>1, <3>2, CountedNowAt
      <3>5. Handler = "GroupRelayHandler" => CountedNow = {job.msg}
        <4> SUFFICES ASSUME Handler = "GroupRelayHandler", p = 0 PROVE FALSE
          BY <3>4
        <4>1. NextStep = Count("relay", 1)
          BY <3>3, <3>4, RelayIs
        <4> QED
          BY <3>1, <4>1 DEF Count
      <3>6. \E X \in SUBSET {Outcome("failed")} : sends' = sends \cup X
        <4>1. CASE SendFails
          BY <4>1
        <4>2. CASE HandlerRaises
          <5>1. sends' = sends \cup {}
            BY <4>2
          <5> QED
            BY <5>1
        <4> QED
          BY <2>1, <4>1, <4>2
      <3> DEFINE o == Outcome("failed")
      <3>7. o.msg = job.msg /\ o.handler = Handler
        BY <3>1, OutcomeIs
      <3> HIDE DEF o
      <3>8. sends \in SUBSET sends' /\ \A s \in sends' \ sends : s = o
        BY <3>6 DEF o
      <3> QED
        BY <3>5, <3>7, <3>8 DEF RelayedBy
    <2>2. CASE RunBreaks
      BY <2>2 DEF RelayedBy
    <2> QED
      BY <2>1, <2>2
  <1>4. CountedNow' = {}
    BY <1>1 DEF CountedNow, NoJob
  <1>5. sends \in SUBSET sends'
    OBVIOUS
  <1>6. \A x \in Held : x # job.msg => x \in RelayedNow'
    <2> SUFFICES ASSUME NEW x \in Held, x # job.msg PROVE x \in RelayedNow'
      OBVIOUS
    <2>1. x \in RelayedNow
      BY <1>2 DEF Held
    <2>2. state'[x] = state[x]
      BY <1>1, <2>1 DEF RelayedNow, Course, PipelineType
    <2> QED
      BY <1>1, <1>5, <2>1, <2>2 DEF RelayedNow
  <1>7. RelayedNow' \in SUBSET RelayedBy(sends')
    BY DEF RelayedNow, RelayedBy
  <1>8. faults' + raises' = (faults + raises) + 1 /\ faults' \in Nat /\ raises' \in Nat
    <2>1. faults \in Nat /\ raises \in Nat
      BY DEF Course, PipelineType
    <2>2. (faults' = faults + 1 /\ raises' = raises) \/ (faults' = faults /\ raises' = raises + 1)
      OBVIOUS
    <2> QED
      BY <2>1, <2>2
  <1> DEFINE H == Held
             Q == RelayedBy(sends')
             A == RelayedBy(sends) \cup CountedNow
             c == counters.relay
  <1>9. /\ IsFiniteSet(A) /\ IsFiniteSet(H) /\ Cardinality(A) \in Nat /\ Cardinality(H) \in Nat
         /\ c \in Nat /\ Cardinality(A) <= c /\ faults \in Nat /\ raises \in Nat
         /\ c <= Cardinality(H) + faults + raises
    BY HeldIs DEF RelayCounted
  <1>10. Q \in SUBSET A /\ Held' = RelayedNow'
    BY <1>4, <1>3 DEF Held
  <1>11. H \in SUBSET (Held' \cup {job.msg}) /\ Held' \in SUBSET Q
    BY <1>6, <1>7, <1>10
  <1>12. RelayedBy(sends') \cup CountedNow' = Q
    BY <1>4
  <1> HIDE DEF H, Q, A, c, SendFails, HandlerRaises, RunBreaks
  <1>13. IsFiniteSet(Q) /\ Cardinality(Q) <= Cardinality(A) /\ Cardinality(Q) \in Nat
    BY <1>9, <1>10, FS_Subset, FS_CardinalityType
  <1>14. IsFiniteSet(Held') /\ Cardinality(Held') \in Nat
    BY <1>11, <1>13, FS_Subset, FS_CardinalityType
  <1>15. Cardinality(H) <= Cardinality(Held') + 1
    <2> DEFINE K == Held' \cup {job.msg}
    <2>1. IsFiniteSet(K) /\ Cardinality(K) \in Nat /\ Cardinality(K) <= Cardinality(Held') + 1
      BY <1>14, OneMore
    <2>2. H \in SUBSET K
      BY <1>11
    <2> HIDE DEF K
    <2>3. Cardinality(H) <= Cardinality(K)
      BY <2>1, <2>2, FS_Subset
    <2> QED
      BY <1>9, <1>14, <2>1, <2>3
  <1>16. Cardinality(Q) <= c /\ c <= Cardinality(Held') + faults' + raises'
    <2> DEFINE h == Cardinality(H)
               k == Cardinality(Held')
               f == faults + raises
               g == faults' + raises'
    <2>1. /\ c <= h + f /\ h <= k + 1 /\ g = f + 1
          /\ c \in Nat /\ h \in Nat /\ k \in Nat /\ f \in Nat /\ g \in Nat
      <3>1. \A a, b, d, e \in Nat : a <= b + d + e => a <= b + (d + e)
        OBVIOUS
      <3>2. c <= h + f
        BY <1>9, <3>1
      <3>3. f \in Nat
        BY <1>9
      <3>4. g = f + 1
        BY <1>8
      <3>5. h <= k + 1 /\ c \in Nat /\ h \in Nat /\ k \in Nat
        BY <1>9, <1>14, <1>15
      <3> HIDE DEF h, k, f, g
      <3> QED
        BY <3>2, <3>3, <3>4, <3>5
    <2>2. k + faults' + raises' = k + g
      BY <1>8, <1>14
    <2> HIDE DEF h, k, f, g
    <2>3. c <= k + g
      BY <2>1
    <2>4. Cardinality(Q) <= c
      BY <1>9, <1>13
    <2> QED
      BY <2>2, <2>3, <2>4 DEF k
  <1>17. counters'.relay = c
    BY <1>1 DEF c
  <1> QED
    BY <1>12, <1>13, <1>16, <1>17 DEF RelayCounted, Q

\* A handler ends, and its job goes on or is done: a message it counted is relayed now, as
\* there is a group to relay to.
LEMMA RelayDone ==
    ASSUME Course, RelayCounted, HandlerDone \/ FinishJob PROVE RelayCounted'
  <1> USE DEF HandlerDone, FinishJob, InStage
  <1>1. /\ UNCHANGED <<inbox, run, counters, sends, faults, raises>>
        /\ CountedNow' = {}
    <2>1. CASE HandlerDone
      <3>1. "stage" \in DOMAIN job
        BY <2>1 DEF Course, JobSound, NoJob
      <3>2. job'.stage = "chain"
        BY <2>1, <3>1
      <3> QED
        BY <2>1, <3>2 DEF CountedNow
    <2>2. CASE FinishJob
      BY <2>2 DEF CountedNow, NoJob
    <2> QED
      BY <2>1, <2>2
  <1>2. RelayedNow' = RelayedNow
    <2>1. CASE HandlerDone
      BY <2>1 DEF RelayedNow
    <2>2. CASE FinishJob
      <3>1. state[job.msg] = "running"
        BY <2>2 DEF Course, JobSound, NoJob
      <3>2. \A x \in inbox : state'[x] \in {"running", "done"} <=> state[x] \in {"running", "done"}
        BY <2>2, <3>1 DEF Course, PipelineType
      <3> QED
        BY <1>1, <3>2 DEF RelayedNow
    <2> QED
      BY <2>1, <2>2
  <1>3. CountedNow \in SUBSET RelayedNow
    <2>1. CASE HandlerDone
      <3>1. job.stage = "steps" /\ job.todo = <<>>
        BY <2>1
      <3>2. PICK steps, p : AtStep(steps, p)
        BY <3>1 DEF Course, Progress
      <3>3. /\ HasLines(job.msg) /\ Handler \in Handlers /\ job.msg \in inbox
            /\ steps \in Seq(StepsFor(job.msg)) /\ p = Len(steps)
        BY <3>1, <3>2, NextStepIs
      <3>4. /\ CountedNow = IF Handler = "GroupRelayHandler" /\ p # 0 THEN {job.msg} ELSE {}
            /\ Handler = "GroupRelayHandler" => steps = Relay(job.msg)
        BY <3>1, <3>2, CountedNowAt
      <3>5. ASSUME Handler = "GroupRelayHandler" PROVE job.msg \in RelayedNow
        <4>1. job.at \in 1 .. Len(chain) /\ chain[job.at] = Handler /\ state[job.msg] = "running"
          BY <3>1 DEF Course, JobSound, NoJob, Handler
        <4>2. RelayTargets # <<>>
          BY <3>5, <4>1 DEF Course, ChainSound
        <4>3. Len(steps) >= 2 /\ \A k \in 2 .. Len(steps) : steps[k].do \in {"send", "raise"}
          BY <3>3, <3>4, <3>5, <4>2, RelayIs
        <4>4. Len(steps) \in Nat
          BY <3>3
        <4>5. 2 \in 1 .. p /\ 2 \in 2 .. Len(steps)
          BY <3>3, <4>3, <4>4
        <4>6. steps[2].do = "send"
          BY <3>2, <4>3, <4>5 DEF AtStep
        <4>7. \E s \in sends : s.msg = job.msg /\ s.handler = Handler /\ s.run = run[job.msg]
          BY <3>2, <4>5, <4>6 DEF AtStep, Made
        <4> QED
          BY <3>3, <3>5, <4>1, <4>7 DEF RelayedNow
      <3> QED
        BY <3>4, <3>5
    <2>2. CASE FinishJob
      BY <2>2 DEF CountedNow
    <2> QED
      BY <2>1, <2>2
  <1> DEFINE R == RelayedBy(sends)
  <1>4. /\ IsFiniteSet(R) /\ R \in SUBSET (R \cup CountedNow) /\ IsFiniteSet(R \cup CountedNow)
        /\ Cardinality(R \cup CountedNow) \in Nat /\ counters.relay \in Nat
        /\ Cardinality(R \cup CountedNow) <= counters.relay
        /\ counters.relay <= Cardinality(Held) + faults + raises
    BY HeldIs DEF RelayCounted
  <1>5. Cardinality(R) <= counters.relay
    <2>1. IsFiniteSet(R) /\ Cardinality(R) <= Cardinality(R \cup CountedNow) /\ Cardinality(R) \in Nat
      BY <1>4, FS_Subset, FS_CardinalityType
    <2> QED
      BY <1>4, <2>1
  <1>6. Held = RelayedNow /\ Held' = RelayedNow
    BY <1>1, <1>2, <1>3 DEF Held
  <1>7. RelayedBy(sends') \cup CountedNow' = R
    BY <1>1
  <1> HIDE DEF R, HandlerDone, FinishJob
  <1>8. Held' = Held /\ counters' = counters /\ sends' = sends /\ faults' = faults /\ raises' = raises
    BY <1>1, <1>6
  <1> QED
    BY <1>4, <1>5, <1>7, <1>8 DEF RelayCounted, R

-----------------------------------------------------------------------------
(* The theorems *)

\* The inductive invariant of the pipeline: the course of its jobs, what they have counted,
\* and what their receipts say.
PInv ==
    TypeOK /\ Course /\ BroadcastCounted /\ RelayCounted /\ ReceiptAccountsForAll

\* The initial states.
LEMMA PInvInit == PipelineInit => Course /\ BroadcastCounted /\ RelayCounted /\ ReceiptAccountsForAll
  <1> SUFFICES ASSUME PipelineInit
               PROVE  Course /\ BroadcastCounted /\ RelayCounted /\ ReceiptAccountsForAll
    OBVIOUS
  <1>1. Course
    BY CourseInit
  <1>2. /\ sends = {} /\ job.stage = "idle" /\ faults = 0 /\ raises = 0
        /\ counters = [relay |-> 0, broadcast |-> 0, sage |-> 0]
    BY DEF PipelineInit, NoJob
  <1>3. Uncounted = 0 /\ CountedNow = {} /\ HandedBy(sends) = {} /\ RelayedBy(sends) = {}
        /\ Held = {}
    BY <1>2 DEF Uncounted, CountedNow, HandedBy, RelayedBy, Held, RelayedNow
  <1>4. IsFiniteSet({}) /\ Cardinality({}) = 0
    BY FS_EmptySet
  <1>5. RelayedBy(sends) \cup CountedNow = {}
    BY <1>3
  <1>6. BroadcastCounted /\ RelayCounted
    BY <1>2, <1>3, <1>4, <1>5 DEF BroadcastCounted, RelayCounted
  <1>7. ReceiptAccountsForAll
    BY <1>2 DEF ReceiptAccountsForAll
  <1> QED
    BY <1>1, <1>6, <1>7

\* Every step of the pipeline keeps its course.
LEMMA CourseKept == TypeOK /\ Course /\ [PipelineNext]_allVars => Course'
  <1> SUFFICES ASSUME TypeOK, Course, [PipelineNext]_allVars PROVE Course'
    OBVIOUS
  <1>1. CASE UNCHANGED allVars
    <2>1. PipelineType' /\ ChainSound' /\ JobSound' /\ AsksForASend' /\ InTurn'
      BY <1>1 DEF Course, PipelineType, ChainSound, JobSound, AsksForASend, InTurn, NextStep,
         allVars, vars, pipeline
    <2>2. Progress'
      BY <1>1 DEF Course, Progress, AtStep, Handler, allVars, pipeline
    <2> QED
      BY <2>1, <2>2 DEF Course
  <1> QED
    BY <1>1, CourseTakeJob, CourseRunHandler, CourseCount, CourseSend, CourseFails, CourseDone,
       CourseQuiet DEF PipelineNext

\* Every step keeps the counters in line with the records.
LEMMA CountersKept ==
    ASSUME Course, BroadcastCounted, RelayCounted, [PipelineNext]_allVars
    PROVE  BroadcastCounted' /\ RelayCounted'
  <1>1. ASSUME UNCHANGED <<counters, sends, faults, raises, inbox, state, run>>,
               Uncounted' = Uncounted, CountedNow' = CountedNow
        PROVE  BroadcastCounted' /\ RelayCounted'
    <2>1. RelayedNow' = RelayedNow
      BY <1>1 DEF RelayedNow
    <2> QED
      BY <1>1, <2>1 DEF BroadcastCounted, RelayCounted, Held
  <1>2. CASE UNCHANGED pipeline
    <2>1. Uncounted' = Uncounted /\ CountedNow' = CountedNow
      BY <1>2 DEF Uncounted, CountedNow, Handler, pipeline
    <2> QED
      BY <1>1, <1>2, <2>1 DEF pipeline
  <1>3. CASE RunHandler
    <2>1. Uncounted' = 0 /\ CountedNow' = {}
      BY <1>3, RunBegins
    <2>2. Uncounted = 0 /\ CountedNow = {}
      BY <1>3 DEF RunHandler, InStage, Uncounted, CountedNow
    <2> QED
      BY <1>1, <1>3, <2>1, <2>2 DEF RunHandler
  <1>4. CASE \E m \in inbox : TakeJob(m)
    <2>1. BroadcastCounted'
      BY <1>4 DEF TakeJob, InStage, BroadcastCounted, Uncounted
    <2> QED
      BY <1>4, <2>1, RelayTakeJob
  <1>5. CASE CountStep
    BY <1>5, CountedByStep, RelayCountStep
  <1>6. CASE SendStep
    BY <1>6, CountedBySend, RelaySendStep
  <1>7. CASE SendFails \/ RunBreaks
    BY <1>7, CountedByFailure, RelayFails
  <1>8. CASE HandlerRaises
    BY <1>8, CountedByStep, RelayFails
  <1>9. CASE HandlerDone
    BY <1>9, CountedByStep, RelayDone
  <1>10. CASE FinishJob
    <2>1. BroadcastCounted'
      BY <1>10 DEF FinishJob, InStage, BroadcastCounted, Uncounted, NoJob
    <2> QED
      BY <1>10, <2>1, RelayDone
  <1>11. CASE AskQuota \/ OthersSend \/ TimePasses
    BY <1>2, <1>11 DEF AskQuota, OthersSend, TimePasses
  <1>12. CASE UNCHANGED allVars
    BY <1>2, <1>12 DEF allVars, pipeline
  <1> QED
    BY <1>3, <1>4, <1>5, <1>6, <1>7, <1>8, <1>9, <1>10, <1>11, <1>12 DEF PipelineNext

\* What the counters tell follows from where they stand inside a handler.
LEMMA CountersTell == Course /\ BroadcastCounted /\ RelayCounted => CountersTellRuns
  <1> SUFFICES ASSUME Course, BroadcastCounted, RelayCounted PROVE CountersTellRuns
    OBVIOUS
  <1> DEFINE b == counters.broadcast
             c == counters.relay
             E == HandedBy(sends)
             R == RelayedBy(sends)
             A == R \cup CountedNow
  <1>1. Uncounted \in Nat
    <2>1. CASE job.stage = "steps"
      <3>1. PICK steps, p : AtStep(steps, p)
        BY <2>1 DEF Course, Progress
      <3>2. p \in Nat
        BY <2>1, <3>1, NextStepIs
      <3> QED
        BY <2>1, <3>1, <3>2, UncountedAt
    <2> QED
      BY <2>1, UncountedOutside
  <1>2. job = NoJob => Uncounted = 0 /\ CountedNow = {}
    BY DEF NoJob, Uncounted, CountedNow
  <1>3. /\ IsFiniteSet(A) /\ Held \in SUBSET A /\ Cardinality(A) \in Nat /\ c \in Nat
        /\ Cardinality(A) <= c /\ c <= Cardinality(Held) + faults + raises
        /\ IsFiniteSet(Held) /\ Cardinality(Held) \in Nat /\ faults \in Nat /\ raises \in Nat
    BY HeldIs DEF RelayCounted
  <1>4. b \in Nat /\ Cardinality(E) \in Nat
    <2>1. E \in SUBSET sends /\ IsFiniteSet(sends)
      BY DEF HandedBy, Course, PipelineType
    <2> QED
      BY <2>1, FS_Subset, FS_CardinalityType DEF Course, PipelineType
  <1>5. b + Uncounted <= Cardinality(E) /\ (faults = 0 => b + Uncounted = Cardinality(E))
    BY DEF BroadcastCounted
  <1>6. R \in SUBSET A
    OBVIOUS
  <1> HIDE DEF A
  <1>7. IsFiniteSet(R) /\ Cardinality(R) <= Cardinality(A) /\ Cardinality(R) \in Nat
    BY <1>3, <1>6, FS_Subset, FS_CardinalityType
  <1>8. job = NoJob => Cardinality(Held) <= Cardinality(R)
    <2> SUFFICES ASSUME job = NoJob PROVE Cardinality(Held) <= Cardinality(R)
      OBVIOUS
    <2>1. Held \in SUBSET R
      BY <1>2, <1>3 DEF A
    <2> QED
      BY <1>7, <2>1, FS_Subset
  <1> HIDE DEF b, c, E, R
  <1>9. b <= Cardinality(E) /\ (faults = 0 /\ job = NoJob => b = Cardinality(E))
    BY <1>1, <1>2, <1>4, <1>5
  <1>10. Cardinality(R) <= c
    BY <1>3, <1>7
  <1>11. job = NoJob => c <= Cardinality(R) + faults + raises
    BY <1>3, <1>7, <1>8
  <1> QED
    BY <1>9, <1>10, <1>11 DEF CountersTellRuns, b, c, E, R, HandedBy, RelayedBy

\* The invariant holds in every state of the pipeline.
THEOREM PipelineInvariantHolds == PipelineSpec => []PInv
  <1>1. Spec => []TypeOK
    BY TypeCorrect, PTL
  <1>2. Course /\ BroadcastCounted /\ RelayCounted /\ ReceiptAccountsForAll
        /\ TypeOK /\ [PipelineNext]_allVars
        => (Course /\ BroadcastCounted /\ RelayCounted /\ ReceiptAccountsForAll)'
    BY CourseKept, CountersKept, ReceiptsKept
  <1> QED
    BY <1>1, <1>2, PInvInit, PipelineIsLimited, PTL DEF PipelineSpec, PInv

\* A receipt names each line of its batch on one side: as sent, what the run handed to the
\* bridge and what the quota refused; as ignored, by its number, each other line; however
\* often the job is run again (broadcast.py).
THEOREM ReceiptAlwaysAccounts == PipelineSpec => []ReceiptAccountsForAll
  BY PipelineInvariantHolds, PTL DEF PInv

\* The counters never tell of more broadcasts than the sender took or the quota refused,
\* nor of fewer relays than were made, and differ from them only by the runs that were cut
\* short or raised, wherever in its handlers a run stops (broadcast.py, relay.py).
THEOREM CountersAlwaysTell == PipelineSpec => []CountersTellRuns
  BY PipelineInvariantHolds, CountersTell, PTL DEF PInv
=============================================================================
