------------------------------- MODULE Sending -------------------------------
(***************************************************************************)
(* One broadcast job of the worker, from its first send to its receipt     *)
(* (processing/handlers/broadcast.py run, worker/tasks.py run_pipeline,    *)
(* sending.py LiveSender, bridge_client.py), with the rows it writes in    *)
(* the ledger and the bridge's callback that settles them                  *)
(* (api/main.py send_status).                                              *)
(*                                                                         *)
(* The job sends to entries 1 .. Entries, then the receipt.  RQ runs it    *)
(* again from the start when it raises; every send has a new id, so an     *)
(* outbound message is a pair <<attempt, position>>.                       *)
(***************************************************************************)
EXTENDS Naturals, FiniteSets

CONSTANTS
    MaxLines,       \* bound: lines of a broadcast that resolve to a JID
    MaxRecipients,  \* broadcast_max_recipients
    PerMinute,      \* rate_limit_per_minute
    PerDay,         \* rate_limit_per_day
    Attempts,       \* runs of the job: worker_max_retries + 1
    MaxTimeouts,    \* bound: runs cut by the job's time limit
    MaxRefusals,    \* bound: calls to the bridge that fail or get no answer
    MaxLostCallbacks\* bound: callbacks the bridge gives up on

ASSUME SendingAssumption ==
    /\ {MaxLines, MaxRecipients, PerMinute, PerDay, Attempts} \subseteq Nat \ {0}
    /\ {MaxTimeouts, MaxRefusals, MaxLostCallbacks} \subseteq Nat

VARIABLES
    lines,      \* recipients the operator asked for
    pc,         \* where the job is
    attempt,    \* the run of the job
    pos,        \* the entry it is at, or the receipt
    tokens,     \* sends left in the minute the job is in
    today,      \* sends left in the day
    fresh,      \* history: this run began a full minute, with enough of the day left for it
    row,        \* the ledger's row of each outbound message
    bridge,     \* what the bridge did with it
    callback,   \* the callback that settles it
    claimed,    \* history: entries each receipt says have left
    bounds      \* history: time-outs, refusals and lost callbacks so far

vars == <<lines, pc, attempt, pos, tokens, today, fresh, row, bridge, callback, claimed, bounds>>

Lesser(a, b)  == IF a < b THEN a ELSE b
Greater(a, b) == IF a > b THEN a ELSE b

\* Fault: the receipt is not counted.
CapWithoutReceipt == Lesser(MaxRecipients, PerMinute)

EffectiveCap == Lesser(MaxRecipients, Greater(1, PerMinute - 1))

\* A batch above the cap is refused whole: only its one answer is sent.
Entries == IF lines > EffectiveCap THEN 0 ELSE lines
Receipt == Entries + 1
Outs    == (1 .. Attempts) \X (1 .. Lesser(MaxLines, EffectiveCap) + 1)
Out     == <<attempt, pos>>

Outcomes == {"sent", "failed"}

\* Other jobs may have spent the minute, or the day, that a run begins in.
QuotaIsFound(minute, day, full) ==
    /\ minute \in 0 .. PerMinute
    /\ day \in 0 .. PerDay
    /\ full = (minute = PerMinute /\ day >= Receipt)

Init ==
    /\ lines \in 1 .. MaxLines
    /\ pc = "quota" /\ attempt = 1 /\ pos = IF Entries > 0 THEN 1 ELSE Receipt
    /\ QuotaIsFound(tokens, today, fresh)
    /\ row = [o \in Outs |-> "none"]
    /\ bridge = [o \in Outs |-> "none"]
    /\ callback = [o \in Outs |-> "none"]
    /\ claimed = [a \in 1 .. Attempts |-> {}]
    /\ bounds = [timeouts |-> 0, refusals |-> 0, callbacks |-> 0]

Spend(bound, limit) == bounds[bound] < limit /\ bounds' = [bounds EXCEPT ![bound] = @ + 1]
-----------------------------------------------------------------------------
(* LiveSender, once per position *)

\* ctx.send returned: the entry counts as sent; after the last one comes the receipt.
Advance ==
    IF pos = Receipt
    THEN pc' = "done" /\ UNCHANGED <<pos, claimed>>
    ELSE /\ pc' = "quota" /\ pos' = pos + 1
         /\ claimed' = [claimed EXCEPT ![attempt] = @ \cup {pos}]

CheckQuota ==
    /\ pc = "quota"
    /\ IF tokens > 0 /\ today > 0
       THEN tokens' = tokens - 1 /\ today' = today - 1 /\ pc' = "granted"
       ELSE pc' = "refused" /\ UNCHANGED <<tokens, today>>
    /\ UNCHANGED <<lines, attempt, pos, fresh, row, bridge, callback, claimed, bounds>>

RecordRateLimited ==
    /\ pc = "refused"
    /\ row' = [row EXCEPT ![Out] = "rate_limited"]
    /\ Advance
    /\ UNCHANGED <<lines, attempt, tokens, today, fresh, bridge, callback, bounds>>

\* Fault: the row is not written before the call.
RecordNothing ==
    /\ pc = "granted"
    /\ pc' = "posting"
    /\ UNCHANGED <<lines, attempt, pos, tokens, today, fresh, row, bridge, callback, claimed, bounds>>

RecordQueued ==
    /\ pc = "granted"
    /\ row' = [row EXCEPT ![Out] = "queued"]
    /\ pc' = "posting"
    /\ UNCHANGED <<lines, attempt, pos, tokens, today, fresh, bridge, callback, claimed, bounds>>

\* POST /send reaches the bridge, which queues it before it answers.
PostReachesBridge ==
    /\ pc = "posting" /\ bridge[Out] = "none"
    /\ bridge' = [bridge EXCEPT ![Out] = "held"]
    /\ UNCHANGED <<lines, pc, attempt, pos, tokens, today, fresh, row, callback, claimed, bounds>>

\* Fault: the row is written once the bridge has answered.
PostThenRecord ==
    /\ pc = "posting" /\ bridge[Out] # "none"
    /\ row' = [row EXCEPT ![Out] = "queued"]
    /\ Advance
    /\ UNCHANGED <<lines, attempt, tokens, today, fresh, bridge, callback, bounds>>

PostAnswered ==
    /\ pc = "posting" /\ bridge[Out] # "none"
    /\ Advance
    /\ UNCHANGED <<lines, attempt, tokens, today, fresh, row, bridge, callback, bounds>>

\* The bridge is down or refuses, or its 202 does not come within the time limit.
PostFails ==
    /\ pc = "posting"
    /\ Spend("refusals", MaxRefusals)
    /\ pc' = "broken"
    /\ UNCHANGED <<lines, attempt, pos, tokens, today, fresh, row, bridge, callback, claimed>>

\* Fault: the BridgeError is not raised again.
SwallowBridgeError ==
    /\ pc = "broken"
    /\ row' = [row EXCEPT ![Out] = "failed"]
    /\ Advance
    /\ UNCHANGED <<lines, attempt, tokens, today, fresh, bridge, callback, bounds>>

\* INSERT OR REPLACE, whatever the row says by now; the error goes up to RQ.
RecordFailed ==
    /\ pc = "broken"
    /\ row' = [row EXCEPT ![Out] = "failed"]
    /\ pc' = "raised"
    /\ UNCHANGED <<lines, attempt, pos, tokens, today, fresh, bridge, callback, claimed, bounds>>

JobTimesOut ==
    /\ pc \notin {"raised", "done", "dead"}
    /\ Spend("timeouts", MaxTimeouts)
    /\ pc' = "raised"
    /\ UNCHANGED <<lines, attempt, pos, tokens, today, fresh, row, bridge, callback, claimed>>

\* RQ runs the job again after its interval.
RunAgain ==
    /\ pc = "raised"
    /\ IF attempt < Attempts
       THEN /\ attempt' = attempt + 1
            /\ pos' = IF Entries > 0 THEN 1 ELSE Receipt
            /\ pc' = "quota"
            /\ QuotaIsFound(tokens', today', fresh')
       ELSE pc' = "dead" /\ UNCHANGED <<attempt, pos, tokens, today, fresh>>
    /\ UNCHANGED <<lines, row, bridge, callback, claimed, bounds>>

\* The wall clock enters a new minute, which may be the first of a day; only the next
\* look at the quota can tell.
MinuteTurns ==
    /\ pc = "quota"
    /\ tokens < PerMinute \/ today < PerDay
    /\ tokens' = PerMinute
    /\ today' \in {today, PerDay}
    /\ UNCHANGED <<lines, pc, attempt, pos, fresh, row, bridge, callback, claimed, bounds>>
-----------------------------------------------------------------------------
(* The bridge and its callback *)

BridgeSettles(o, outcome) ==
    /\ bridge[o] = "held"
    /\ bridge' = [bridge EXCEPT ![o] = outcome]
    /\ callback' = [callback EXCEPT ![o] = "due"]
    /\ UNCHANGED <<lines, pc, attempt, pos, tokens, today, fresh, row, claimed, bounds>>

\* POST /internal/send-status: mark_status is an UPDATE of a row that exists.
SendStatus(o) ==
    /\ callback[o] = "due"
    /\ callback' = [callback EXCEPT ![o] = "done"]
    /\ row' = IF row[o] = "none" THEN row ELSE [row EXCEPT ![o] = bridge[o]]
    /\ UNCHANGED <<lines, pc, attempt, pos, tokens, today, fresh, bridge, claimed, bounds>>

SendStatusLost(o) ==
    /\ callback[o] = "due"
    /\ Spend("callbacks", MaxLostCallbacks)
    /\ callback' = [callback EXCEPT ![o] = "lost"]
    /\ UNCHANGED <<lines, pc, attempt, pos, tokens, today, fresh, row, bridge, claimed>>

Step ==
    \/ CheckQuota \/ RecordRateLimited \/ RecordQueued \/ PostReachesBridge
    \/ PostAnswered \/ RecordFailed \/ RunAgain

Next ==
    \/ Step \/ PostFails \/ JobTimesOut \/ MinuteTurns
    \/ \E o \in Outs :
        \/ \E outcome \in Outcomes : BridgeSettles(o, outcome)
        \/ SendStatus(o) \/ SendStatusLost(o)

Spec == Init /\ [][Next]_vars

\* The worker runs, the bridge drains its queue and calls back.
FairSpec ==
    /\ Spec /\ WF_vars(Step)
    /\ \A o \in Outs :
        /\ WF_vars(\E outcome \in Outcomes : BridgeSettles(o, outcome))
        /\ WF_vars(SendStatus(o))
-----------------------------------------------------------------------------
(* Properties *)

Targets == IF Entries = 0 THEN {Receipt} ELSE 1 .. Receipt

\* A job that ends well has handed every message of its last run to the bridge, or left
\* a rate_limited row for it: nothing disappears silently (sending.py).
NothingSilent ==
    pc = "done" => \A p \in Targets :
        \/ bridge[<<attempt, p>>] # "none"
        \/ row[<<attempt, p>>] = "rate_limited"

\* A call whose 202 comes too late makes the ledger wrong about one message at most, the
\* one its run stopped at, and never about a message of the run that ended well: that run
\* sent the entry again under another identifier (sending.py, the except branch).
LateAnswerCostsOneRow ==
    LET Wrong(o) == callback[o] = "done" /\ row[o] # bridge[o] IN
    /\ \A a \in 1 .. Attempts : \A o, q \in Outs :
          o[1] = a /\ q[1] = a /\ Wrong(o) /\ Wrong(q) => o = q
    /\ pc = "done" => \A p \in Targets : ~Wrong(<<attempt, p>>)

\* The cap leaves room for the receipt: a run that begins a full minute, with enough of
\* the day left for the batch and its receipt, hands them all to the bridge, and the
\* receipt lists what really left (broadcast.py, _effective_cap).  Otherwise it may list
\* refused sends as sent; a quota of one a minute leaves no room for the receipt.
FullMinuteSuffices ==
    pc = "done" /\ fresh =>
        /\ claimed[attempt] = 1 .. Entries
        /\ \A p \in Targets : bridge[<<attempt, p>>] # "none"

\* Once the callback is in, the row has the final status (README.md), but for one case:
\* a call whose 202 came too late leaves "failed", whatever the bridge did.
SettledRowIsFinal ==
    \A o \in Outs :
        callback[o] = "done" /\ pc \in {"done", "dead"} =>
            row[o] = bridge[o] \/ (row[o] = "failed" /\ bounds.refusals > 0)

\* Every row the bridge holds a message for ends with a verdict, unless its callback
\* was lost: a job that died or was retried leaves no row at "queued" for ever.
RowsSettle ==
    \A o \in Outs : bridge[o] = "held" ~> row[o] \in Outcomes \/ callback[o] = "lost"
=============================================================================
