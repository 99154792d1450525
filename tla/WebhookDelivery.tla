--------------------------- MODULE WebhookDelivery ---------------------------
(***************************************************************************)
(* How the bridge hands inbound messages to the api                        *)
(* (bridge/src/api-client.js): a few posts in a row, then a buffer in      *)
(* memory that a timer flushes.  setInterval does not wait for the flush   *)
(* it started, so flushes may overlap; each await on a post is a step.     *)
(***************************************************************************)
EXTENDS Naturals, SequencesExt

CONSTANTS
    Msgs,           \* messages Baileys hands over, each one once
    Refused,        \* those the api refuses for good: InboundMessage does not validate
    Flushes,        \* bound: activations of flush that may overlap
    Attempts,       \* webhookAttempts
    PendingLimit,   \* PENDING_LIMIT
    MaxFailures,    \* bound: posts that fail
    MaxExits        \* bound: exits of the bridge

ASSUME WebhookAssumption ==
    /\ Refused \subseteq Msgs
    /\ Attempts \in Nat \ {0} /\ PendingLimit \in Nat \ {0}
    /\ {MaxFailures, MaxExits} \subseteq Nat

VARIABLES
    sender,     \* each sendWebhook: its step and the attempt it makes
    pending,    \* #pending
    timer,      \* #timer is set
    flusher,    \* each activation of flush: its step and its payload
    received,   \* history: messages the api stored, whatever the bridge heard of it
    buffered,   \* history: messages in the order they were buffered
    flushed,    \* history: messages in the order flush saw them delivered
    overflowed, \* history: messages dropped for newer ones
    exited,     \* history: messages in memory when the bridge exited
    raced,      \* history: two flushes overlapped, or the buffer overflowed under one
    failures,   \* posts that failed so far
    exits       \* exits so far

history == <<received, buffered, flushed, overflowed, exited>>
bounds  == <<failures, exits>>
vars    == <<sender, pending, timer, flusher, history, raced, bounds>>

NotSent == [pc |-> "none", attempt |-> 0]
Resting == [pc |-> "idle"]

Init ==
    /\ sender = [m \in Msgs |-> NotSent]
    /\ pending = <<>> /\ timer = FALSE
    /\ flusher = [f \in Flushes |-> Resting]
    /\ received = {} /\ buffered = <<>> /\ flushed = <<>>
    /\ overflowed = {} /\ exited = {} /\ raced = FALSE
    /\ failures = 0 /\ exits = 0

\* A post that fails may have reached the api: the time limit hides its answer.  One
\* the api refuses fails each time, and is taken for an api that is down.
PostFails(m) ==
    IF m \in Refused THEN UNCHANGED <<failures, received>>
    ELSE /\ failures < MaxFailures /\ failures' = failures + 1
         /\ received' \in {received, received \cup {m}}
-----------------------------------------------------------------------------
(* sendWebhook *)

SendWebhook(m) ==
    /\ sender[m].pc = "none"
    /\ sender' = [sender EXCEPT ![m] = [pc |-> "posting", attempt |-> 1]]
    /\ UNCHANGED <<pending, timer, flusher, history, raced, bounds>>

Delivered(m) ==
    /\ sender[m].pc = "posting" /\ m \notin Refused
    /\ sender' = [sender EXCEPT ![m].pc = "done"]
    /\ received' = received \cup {m}
    /\ UNCHANGED <<pending, timer, flusher, buffered, flushed, overflowed, exited, raced, bounds>>

RetryLater(m) ==
    /\ sender[m].pc = "posting" /\ sender[m].attempt < Attempts
    /\ PostFails(m)
    /\ sender' = [sender EXCEPT ![m].pc = "waiting"]
    /\ UNCHANGED <<pending, timer, flusher, buffered, flushed, overflowed, exited, raced, exits>>

PostAgain(m) ==
    /\ sender[m].pc = "waiting"
    /\ sender' = [sender EXCEPT ![m] = [pc |-> "posting", attempt |-> @.attempt + 1]]
    /\ UNCHANGED <<pending, timer, flusher, history, raced, bounds>>

\* Fault: the timer is not started.
BufferAsleep(m) == pending' = Append(pending, m) /\ UNCHANGED <<timer, overflowed>>

\* Fault: the newest messages are flushed first.
BufferInFront(m) == pending' = <<m>> \o pending /\ timer' = TRUE /\ UNCHANGED overflowed

\* #buffer: a full buffer loses its oldest message.
Buffer(m) ==
    /\ IF Len(pending) >= PendingLimit
       THEN /\ pending' = Append(Tail(pending), m)
            /\ overflowed' = overflowed \cup {Head(pending)}
       ELSE pending' = Append(pending, m) /\ UNCHANGED overflowed
    /\ timer' = TRUE                                        \* startFlushing

GiveUp(m) ==
    /\ sender[m].pc = "posting" /\ sender[m].attempt = Attempts
    /\ PostFails(m)
    /\ sender' = [sender EXCEPT ![m].pc = "done"]
    /\ buffered' = Append(buffered, m)
    /\ Buffer(m)
    /\ raced' = (raced \/ (overflowed' # overflowed /\ \E f \in Flushes : flusher[f].pc = "posting"))
    /\ UNCHANGED <<flusher, flushed, exited, exits>>
-----------------------------------------------------------------------------
(* flush *)

\* The test at the top of flush's loop, on the buffer the step leaves behind.
NextPayload(f) ==
    IF pending' # <<>>
    THEN /\ flusher' = [flusher EXCEPT ![f] = [pc |-> "posting", payload |-> Head(pending')]]
         /\ UNCHANGED timer
    ELSE flusher' = [flusher EXCEPT ![f] = Resting] /\ timer' = FALSE

Tick(f) ==
    /\ timer /\ flusher[f].pc = "idle"
    /\ raced' = (raced \/ \E g \in Flushes : flusher[g].pc = "posting")
    /\ UNCHANGED <<sender, pending, history, bounds>>
    /\ NextPayload(f)

\* shift() takes whatever is at the head by then.
Flushed(f) ==
    LET m == flusher[f].payload
    IN  /\ flusher[f].pc = "posting" /\ m \notin Refused
        /\ received' = received \cup {m}
        /\ flushed' = Append(flushed, m)
        /\ pending' = IF pending = <<>> THEN <<>> ELSE Tail(pending)
        /\ NextPayload(f)
        /\ UNCHANGED <<sender, buffered, overflowed, exited, raced, bounds>>

\* Fault: a failed flush drops its payload.
FlushDrops(f) ==
    /\ flusher[f].pc = "posting"
    /\ PostFails(flusher[f].payload)
    /\ flusher' = [flusher EXCEPT ![f] = Resting]
    /\ pending' = Tail(pending)
    /\ UNCHANGED <<sender, timer, buffered, flushed, overflowed, exited, raced, exits>>

\* Fault: a failed flush clears the timer like one that ends.
FlushFailsAsleep(f) ==
    /\ flusher[f].pc = "posting"
    /\ PostFails(flusher[f].payload)
    /\ flusher' = [flusher EXCEPT ![f] = Resting]
    /\ timer' = FALSE
    /\ UNCHANGED <<sender, pending, buffered, flushed, overflowed, exited, raced, exits>>

FlushFails(f) ==
    /\ flusher[f].pc = "posting"
    /\ PostFails(flusher[f].payload)
    /\ flusher' = [flusher EXCEPT ![f] = Resting]
    /\ UNCHANGED <<sender, pending, timer, buffered, flushed, overflowed, exited, raced, exits>>
-----------------------------------------------------------------------------
\* The bridge exits and comes back: what was only in memory is gone.
Exit ==
    /\ exits < MaxExits /\ exits' = exits + 1
    /\ exited' = exited \cup ToSet(pending)
                    \cup {m \in Msgs : sender[m].pc \in {"posting", "waiting"}}
    /\ sender' = [m \in Msgs |-> IF sender[m] = NotSent THEN NotSent
                                 ELSE [sender[m] EXCEPT !.pc = "done"]]
    /\ pending' = <<>> /\ timer' = FALSE
    /\ flusher' = [f \in Flushes |-> Resting]
    /\ UNCHANGED <<received, buffered, flushed, overflowed, raced, failures>>

Send(m)  == Delivered(m) \/ RetryLater(m) \/ PostAgain(m) \/ GiveUp(m)
Flush(f) == Tick(f) \/ Flushed(f) \/ FlushFails(f)

Next ==
    \/ \E m \in Msgs : SendWebhook(m) \/ Send(m)
    \/ \E f \in Flushes : Flush(f)
    \/ Exit

Spec == Init /\ [][Next]_vars

\* Posts end, at the latest at their time limit, and the interval timer fires.
Fairness ==
    /\ \A m \in Msgs : WF_vars(Send(m))
    /\ \A f \in Flushes : WF_vars(Flush(f))

FairSpec == Spec /\ Fairness
-----------------------------------------------------------------------------
(* Properties *)

Lost(m) ==
    sender[m].pc = "done" /\ m \notin received \cup ToSet(pending) \cup overflowed \cup exited

\* A message the bridge received is at the api, on its way there, or was given up for a
\* full buffer or an exit: an api that is down delays messages, it does not lose them
\* (the header of api-client.js).
DelayedNotLost == \A m \in Msgs : ~Lost(m)

\* The two ways to lose one more are a flush that starts while another waits for the
\* api and a buffer that overflows while a flush does: shift() then drops a message
\* other than the one that was posted.
LossNeedsARace == (\E m \in Msgs : Lost(m)) => raced

\* Whatever is buffered has a timer to flush it: no order of ticks, ends of flush and
\* new failures clears the timer under a message.
BufferHasTimer == pending # <<>> => timer

\* What was buffered reaches the api in the order it was buffered, unless a race or an
\* exit takes some of it away.
FlushesInOrder == exits = 0 /\ overflowed = {} /\ ~raced => IsPrefix(flushed, buffered)

Settled(m) == m \in received \cup overflowed \cup exited \/ raced

\* Once posts stop failing every message arrives, but for one the api refuses and those
\* buffered behind it, which wait until the buffer is full.
AllArrive ==
    \A m \in Msgs :
        sender[m].pc # "none" ~>
            Settled(m) \/ (m \in ToSet(pending) /\ Head(pending) \in Refused)
=============================================================================
