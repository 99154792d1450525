---------------------------- MODULE IngestProofs ----------------------------
(***************************************************************************)
(* What the way of a message through the application keeps, for every      *)
(* number of messages, deliveries, retries, faults and replays.            *)
(*                                                                         *)
(* The invariant is proved in layers, each inductive beside those before   *)
(* it: the types; that a job is in one place; that a job exists only for a *)
(* message the ledger knows; and on these the four properties of the run.  *)
(***************************************************************************)
EXTENDS Ingest, FiniteSetTheorems, SequenceTheorems, TLAPS

-----------------------------------------------------------------------------
(* Types *)

Budgets == {"document", "text"}
Job     == [n : Nat, msg : Msgs, left : Nat, budget : Budgets]

RowStatus == {"none", "received", "queued", "processing", "processed", "failed", "dead"}
CallState == {"ready", "new", "duplicate", "enqueued", "queued", "lost"}
WorkerState ==
    [pc : {"idle", "taken", "running", "failing", "raised", "done", "parked"},
     job : Job \cup {NoJob}]
ToolState ==
    [pc : {"off", "next", "copied"}, job : Job \cup {NoJob}, todo : SUBSET Job, runs : Nat]

IngestType ==
    /\ row \in [Msgs -> RowStatus]
    /\ call \in [Calls -> CallState]
    /\ queue \in Seq(Job)
    /\ scheduled \subseteq Job /\ dlq \subseteq Job /\ abandoned \subseteq Job
    /\ worker \in WorkerState
    /\ worker.pc # "idle" => worker.job \in Job
    /\ tool \in ToolState
    /\ tool.pc = "copied" => tool.job \in Job
    /\ tool.pc # "off" => tool.runs > 0
    /\ serial \in Nat
    /\ effects \in [Msgs -> Nat]
    /\ faults \in [{"api", "redis", "worker", "tool"} -> Nat]

-----------------------------------------------------------------------------
(* Where a job is *)

\* Jobs of dead workers that RQ will run again.
Recoverable == {job \in abandoned : job.left > 0}

\* The job the worker has not let go of; a parked one is in the dead-letter queue.
Busy == IF worker.pc \in {"idle", "parked"} THEN {} ELSE {worker.job}

\* The dead-letter job that was copied and is not deleted yet.
Copied == IF tool.pc = "copied" THEN {tool.job} ELSE {}

\* Jobs that were in the dead-letter queue and may still be in it or be copied.
Retired == dlq \cup tool.todo \cup Copied

Places == [queue |-> Queued, retry |-> scheduled, registry |-> Recoverable,
           worker |-> Busy, parked |-> Retired]

\* A number is given to one job, and that job is in one place.
Alone(P) ==
    \A p, q \in DOMAIN P : \A x \in P[p], y \in P[q] : x.n = y.n => p = q /\ x = y

OnePlace ==
    /\ Alone(Places)
    /\ \A j, k \in 1 .. Len(queue) : queue[j] = queue[k] => j = k
    /\ worker.pc = "parked" => worker.job.left = 0
    /\ tool.pc = "copied" => tool.job \notin tool.todo

\* Jobs in somebody's hands, and all of them.
InFlight   == Queued \cup scheduled \cup abandoned \cup Held
Everywhere == InFlight \cup Retired

\* Numbers are given in order.
Numbered == \A job \in Everywhere : job.n < serial

-----------------------------------------------------------------------------
(* Jobs and the ledger *)

\* The ledger knows the message and the call that recorded it has made its job, or is lost.
Born(m) == row[m] # "none" /\ ~Pending(m)

CallsAreKnown == \A c \in Calls : call[c] # "ready" => row[c[1]] # "none"
NewIsReceived ==
    \A c \in Calls : call[c] = "new" => row[c[1]] = "received" /\ effects[c[1]] = 0
OneIsNew ==
    \A c, d \in Calls : c[1] = d[1] /\ call[c] = "new" /\ call[d] = "new" => c = d
EnqueuedIsBorn == \A c \in Calls : call[c] = "enqueued" => Born(c[1])
UnknownIsUnhandled == \A m \in Msgs : row[m] = "none" => effects[m] = 0
DoneIsHandled == worker.pc = "done" => effects[worker.job.msg] > 0

JobsAreBorn ==
    /\ \A job \in Everywhere : Born(job.msg)
    /\ CallsAreKnown /\ NewIsReceived /\ OneIsNew /\ EnqueuedIsBorn
    /\ UnknownIsUnhandled /\ DoneIsHandled

-----------------------------------------------------------------------------
(* What each property needs *)

\* DocumentKeepsItsBudget holds of every job that is not in the dead-letter queue.
Budgeted ==
    \A job \in InFlight : job.msg \in Documents /\ job.budget = "text" => tool.runs > 0

\* The jobs that may still run the handlers of their message.  One that the worker has run
\* is spent, and so is a dead-letter job whose copy is in the queue.
Running == IF worker.pc = "done" THEN {} ELSE Busy
Parked  == (dlq \cup tool.todo) \ Copied
CanRun  == Queued \cup scheduled \cup Recoverable \cup Parked \cup Running

Tokens(m) == {job.n : job \in {j \in CanRun : j.msg = m}}

\* Every run of the handlers of m, past or to come, is paid for by the first delivery
\* or by a fault of the worker or of the replay tool.
Fresh(m) == IF Born(m) THEN 0 ELSE 1
Cost(m)  == effects[m] + Cardinality(Tokens(m)) + Fresh(m)

RunsArePaid == \A m \in Msgs : Cost(m) <= 1 + faults["worker"] + faults["tool"]

\* Without such a fault the last mark on a handled message is the one that says so.
HandledIsMarked ==
    faults["worker"] + faults["tool"] = 0 =>
        \A m \in Msgs : effects[m] > 0 =>
            /\ ~(worker.pc = "parked" /\ worker.job.msg = m)
            /\ \/ worker.pc = "done" /\ worker.job.msg = m
               \/ row[m] \in {"processed", "queued"}

\* Jobs that stand for a message: a parked worker's is in the dead-letter queue, and the
\* copy of a dead-letter job stands for it.  A message in RQ's failed registry has no job
\* any more, but it is known what became of it.
Standing == Queued \cup scheduled \cup abandoned \cup Busy \cup (dlq \ Copied)

Covered(m) == Served(m) \/ m \in orphaned \/ \E job \in Standing : job.msg = m

\* While Redis takes the dead-letter jobs, a message whose job was made is covered, and
\* one whose job was not is in the ledger as received.
BornIsCovered ==
    \A m \in Msgs : Born(m) => Covered(m) \/ (row[m] = "received" /\ faults["api"] > 0)
EnqueuedIsCovered == \A c \in Calls : call[c] = "enqueued" => Covered(c[1])
ParkedIsCovered   == \A m \in Msgs : worker.pc = "parked" /\ worker.job.msg = m => Covered(m)

LedgerTells ==
    faults["redis"] = 0 => BornIsCovered /\ EnqueuedIsCovered /\ ParkedIsCovered

\* The ledger never claims more than was done.
ProcessedIsHandled == \A m \in Msgs : row[m] = "processed" => effects[m] > 0

-----------------------------------------------------------------------------
(* The types are kept *)

\* A new job and a job with one retry less are jobs.
LEMMA JobTypes ==
    ASSUME IngestType
    PROVE  /\ \A m \in Msgs, b \in Budgets : NewJob(m, b) \in Job
           /\ \A m \in Msgs : BudgetOf(m) \in Budgets
           /\ \A j \in Job : j.left > 0 => [j EXCEPT !.left = @ - 1] \in Job
           /\ \A j \in Job : [j EXCEPT !.budget = "text"] \in Job
  <1>1. MaxRetries \in Nat /\ serial \in Nat
    BY IngestAssumption DEF IngestType
  <1>2. \A m \in Msgs, b \in Budgets : NewJob(m, b) \in Job
    BY <1>1 DEF NewJob, Job
  <1>3. \A m \in Msgs : BudgetOf(m) \in Budgets
    BY DEF BudgetOf, Budgets
  <1>4. \A j \in Job : j.left > 0 => [j EXCEPT !.left = @ - 1] \in Job
    BY DEF Job
  <1>5. \A j \in Job : [j EXCEPT !.budget = "text"] \in Job
    BY DEF Job, Budgets
  <1> QED
    BY <1>2, <1>3, <1>4, <1>5

\* The head of the queue is a job and the rest of it a queue.
LEMMA TakeTypes ==
    ASSUME NEW q \in Seq(Job), q # <<>>
    PROVE  Head(q) \in Job /\ Tail(q) \in Seq(Job)
  BY HeadTailProperties

\* Marks are statuses.
LEMMA MarkTypes ==
    ASSUME IngestType, NEW m \in Msgs, NEW status \in RowStatus,
           Mark(m, status) \/ MarkStatus(m, status)
    PROVE  row' \in [Msgs -> RowStatus]
  BY DEF IngestType, Mark, MarkStatus

\* A fault is counted.
LEMMA FaultTypes ==
    ASSUME IngestType, NEW p \in {"api", "redis", "worker", "tool"}, Fault(p)
    PROVE  /\ faults' \in [{"api", "redis", "worker", "tool"} -> Nat]
           /\ faults' = [faults EXCEPT ![p] = faults[p] + 1]
  BY DEF IngestType, Fault

\* The worker goes on with the job it has.
LEMMA BecomeTypes ==
    ASSUME IngestType, worker.pc # "idle",
           NEW pc \in {"taken", "running", "failing", "raised", "done", "parked"}, Become(pc)
    PROVE  worker' \in WorkerState /\ worker'.pc = pc /\ worker'.job = worker.job
           /\ worker'.job \in Job
  BY DEF IngestType, WorkerState, Become

\* The idle records of the worker and of the tool are records of their types.
LEMMA IdleTypes ==
    ASSUME WorkerIdle
    PROVE  worker' \in WorkerState /\ worker'.pc = "idle"
  BY DEF WorkerIdle, WorkerState

\* A step of a webhook call keeps the types.
LEMMA WebhookTypes ==
    ASSUME IngestType, NEW c \in Calls, RecordInbound(c) \/ Answer(c) \/ CallLost(c)
    PROVE  IngestType'
  <1>1. c[1] \in Msgs
    BY DEF Calls
  <1>2. CASE RecordInbound(c)
    <2>1. call' \in [Calls -> CallState] /\ row' \in [Msgs -> RowStatus]
      BY <1>1, <1>2 DEF RecordInbound, Mark, IngestType, CallState, RowStatus
    <2> QED
      BY <1>2, <2>1 DEF RecordInbound, redis, IngestType
  <1>3. CASE EnqueueJob(c)
    <2>1. NewJob(c[1], BudgetOf(c[1])) \in Job
      BY <1>1, JobTypes
    <2>2. queue' \in Seq(Job) /\ serial' \in Nat
      BY <1>3, <2>1, AppendProperties DEF EnqueueJob, Push, IngestType
    <2>3. call' \in [Calls -> CallState]
      BY <1>3 DEF EnqueueJob, IngestType, CallState
    <2> QED
      BY <1>3, <2>2, <2>3 DEF EnqueueJob, IngestType
  <1>4. CASE MarkQueued(c)
    <2>1. row' \in [Msgs -> RowStatus]
      BY <1>1, <1>4, MarkTypes DEF MarkQueued, RowStatus
    <2>2. call' \in [Calls -> CallState]
      BY <1>4 DEF MarkQueued, IngestType, CallState
    <2> QED
      BY <1>4, <2>1, <2>2 DEF MarkQueued, redis, IngestType
  <1>5. CASE CallLost(c)
    <2>1. call' \in [Calls -> CallState]
      BY <1>5 DEF CallLost, IngestType, CallState
    <2> QED
      BY <1>5, <2>1, FaultTypes DEF CallLost, redis, IngestType
  <1> QED
    BY <1>2, <1>3, <1>4, <1>5 DEF Answer

\* A step of the worker keeps the types.
LEMMA WorkerTypes ==
    ASSUME IngestType, Work \/ JobTimesOut \/ WorkerDies
    PROVE  IngestType'
  <1>1. ASSUME worker.pc # "idle" PROVE worker.job \in Job /\ worker.job.msg \in Msgs
    BY <1>1 DEF IngestType, Job
  <1>2. CASE TakeJob
    <2>1. Head(queue) \in Job /\ Tail(queue) \in Seq(Job)
      BY <1>2, TakeTypes DEF TakeJob, IngestType
    <2>2. worker' \in WorkerState /\ worker'.job \in Job
      BY <1>2, <2>1 DEF TakeJob, WorkerState
    <2> QED
      BY <1>2, <2>1, <2>2 DEF TakeJob, IngestType
  <1>3. CASE StartProcessing
    BY <1>1, <1>3, BecomeTypes, MarkTypes DEF StartProcessing, At, redis, IngestType, RowStatus
  <1>4. CASE HandlersSucceed
    <2>1. effects' \in [Msgs -> Nat]
      BY <1>1, <1>4 DEF HandlersSucceed, At, IngestType
    <2> QED
      BY <1>4, <2>1, BecomeTypes DEF HandlersSucceed, At, redis, IngestType
  <1>5. CASE HandlersFail
    BY <1>5, BecomeTypes DEF HandlersFail, At, redis, IngestType
  <1>6. CASE MarkFailed
    BY <1>1, <1>6, BecomeTypes, MarkTypes DEF MarkFailed, At, redis, IngestType, RowStatus
  <1>7. CASE MarkProcessed
    BY <1>1, <1>7, IdleTypes, MarkTypes DEF MarkProcessed, At, redis, IngestType, RowStatus
  <1>8. CASE ScheduleRetry
    <2>1. scheduled' \subseteq Job
      BY <1>1, <1>8, JobTypes DEF ScheduleRetry, At, IngestType
    <2> QED
      BY <1>8, <2>1, IdleTypes DEF ScheduleRetry, IngestType
  <1>9. CASE ParkJob
    <2>1. dlq' \subseteq Job
      BY <1>1, <1>9, JobTypes DEF ParkJob, At, IngestType
    <2> QED
      BY <1>9, <2>1, BecomeTypes DEF ParkJob, At, IngestType
  <1>10. CASE ParkRefused
    BY <1>10, BecomeTypes, FaultTypes DEF ParkRefused, At, redis, IngestType
  <1>11. CASE MarkDead
    BY <1>1, <1>11, IdleTypes, MarkTypes DEF MarkDead, At, redis, IngestType, RowStatus
  <1>12. CASE JobTimesOut
    BY <1>12, BecomeTypes, FaultTypes DEF JobTimesOut, redis, IngestType
  <1>13. CASE WorkerDies
    BY <1>1, <1>13, IdleTypes, FaultTypes DEF WorkerDies, At, IngestType
  <1> QED
    BY <1>2, <1>3, <1>4, <1>5, <1>6, <1>7, <1>8, <1>9, <1>10, <1>11, <1>12, <1>13 DEF Work

\* A step of the queue library keeps the types.
LEMMA QueueTypes ==
    ASSUME IngestType, RetryDue \/ Recover \/ Orphan
    PROVE  IngestType'
  <1>1. CASE RetryDue
    <2>1. PICK job \in scheduled : scheduled' = scheduled \ {job} /\ queue' = Append(queue, job)
      BY <1>1 DEF RetryDue
    <2>2. queue' \in Seq(Job) /\ scheduled' \subseteq Job
      BY <2>1, AppendProperties DEF IngestType
    <2> QED
      BY <1>1, <2>2 DEF RetryDue, IngestType
  <1>2. CASE Recover
    <2>1. PICK job \in abandoned :
              /\ job.left > 0 /\ abandoned' = abandoned \ {job}
              /\ queue' = Append(queue, [job EXCEPT !.left = @ - 1])
      BY <1>2 DEF Recover
    <2>2. [job EXCEPT !.left = @ - 1] \in Job
      BY <2>1, JobTypes DEF IngestType
    <2>3. queue' \in Seq(Job) /\ abandoned' \subseteq Job
      BY <2>1, <2>2, AppendProperties DEF IngestType
    <2> QED
      BY <1>2, <2>3 DEF Recover, IngestType
  <1>3. CASE Orphan
    BY <1>3 DEF Orphan, IngestType
  <1> QED
    BY <1>1, <1>2, <1>3

\* A step of the dead-letter tool keeps the types.
LEMMA ToolTypes ==
    ASSUME IngestType, ReplayStart \/ Replay \/ ReplayDies \/ Purge
    PROVE  IngestType'
  <1>1. CASE ReplayStart
    <2>1. tool \in ToolState /\ dlq \in SUBSET Job
      BY DEF IngestType
    <2>2. tool' = [tool EXCEPT !.pc = "next", !.todo = dlq, !.runs = @ + 1]
      BY <1>1 DEF ReplayStart
    <2>3. tool.runs \in Nat /\ tool'.runs = tool.runs + 1 /\ tool'.pc = "next"
      BY <2>1, <2>2 DEF ToolState
    <2>4. tool.runs + 1 \in Nat /\ tool'.runs > 0
      BY <2>3
    <2>5. tool' \in ToolState
      BY <2>1, <2>2, <2>4 DEF ToolState
    <2> QED
      BY <1>1, <2>3, <2>4, <2>5 DEF ReplayStart, redis, IngestType
  <1>2. CASE ReplayCopy
    <2>1. PICK job \in tool.todo :
              /\ tool.pc = "next" /\ Push(NewJob(job.msg, "text"))
              /\ tool' = [tool EXCEPT !.pc = "copied", !.job = job, !.todo = @ \ {job}]
      BY <1>2 DEF ReplayCopy
    <2>2. job \in Job /\ NewJob(job.msg, "text") \in Job
      <3>1. job \in Job
        BY DEF IngestType, ToolState
      <3>2. job.msg \in Msgs
        BY <3>1 DEF Job
      <3> QED
        BY <3>1, <3>2, JobTypes DEF Budgets
    <2>3. queue' \in Seq(Job) /\ serial' \in Nat
      BY <2>1, <2>2, AppendProperties DEF Push, IngestType
    <2>4. tool' \in ToolState /\ tool'.job \in Job /\ tool'.runs > 0
      BY <2>1, <2>2 DEF IngestType, ToolState
    <2> QED
      BY <1>2, <2>3, <2>4 DEF ReplayCopy, IngestType
  <1>3. CASE ReplayDelete
    <2>1. tool' \in ToolState /\ tool'.pc = "next" /\ tool'.runs > 0
      BY <1>3 DEF ReplayDelete, IngestType, ToolState
    <2> QED
      BY <1>3, <2>1 DEF ReplayDelete, IngestType
  <1>4. CASE ReplayEnd \/ ReplayDies
    <2>1. tool' \in ToolState /\ tool'.pc = "off"
      BY <1>4 DEF ReplayEnd, ReplayDies, ReplayOff, IngestType, ToolState
    <2>2. faults' \in [{"api", "redis", "worker", "tool"} -> Nat]
      BY <1>4, FaultTypes DEF ReplayEnd, ReplayDies, IngestType
    <2> QED
      BY <1>4, <2>1, <2>2 DEF ReplayEnd, ReplayDies, redis, IngestType
  <1>5. CASE Purge
    BY <1>5 DEF Purge, IngestType
  <1> QED
    BY <1>1, <1>2, <1>3, <1>4, <1>5 DEF Replay

\* Every step keeps the types.
LEMMA TypeNext == IngestType /\ [Next]_vars => IngestType'
  <1>1. IngestType /\ UNCHANGED vars => IngestType'
    BY DEF vars, redis, IngestType
  <1> QED
    BY <1>1, WebhookTypes, WorkerTypes, QueueTypes, ToolTypes DEF Next

\* The initial state has its types.
LEMMA TypeInit == Init => IngestType
  BY EmptySeq DEF Init, IngestType, RowStatus, CallState, WorkerState, ToolState, Limits

-----------------------------------------------------------------------------
(* A job is in one place *)

Items(q)    == {q[k] : k \in DOMAIN q}
Distinct(q) == \A j, k \in 1 .. Len(q) : q[j] = q[k] => j = k

\* Taking the head of a queue of distinct jobs takes it out of the queue.
LEMMA TakeFacts ==
    ASSUME NEW q \in Seq(Job), q # <<>>
    PROVE  /\ Head(q) \in Items(q)
           /\ Items(q) = Items(Tail(q)) \cup {Head(q)}
           /\ Distinct(q) => Distinct(Tail(q)) /\ Head(q) \notin Items(Tail(q))
  <1>1. PICK n \in Nat : n = Len(q) /\ n > 0
    BY EmptySeq, LenProperties
  <1>2. /\ Tail(q) \in Seq(Job) /\ Len(Tail(q)) = n - 1
        /\ Head(q) = q[1] /\ \A k \in 1 .. n - 1 : Tail(q)[k] = q[k + 1]
    BY <1>1, HeadTailProperties
  <1>3. DOMAIN q = 1 .. n /\ DOMAIN Tail(q) = 1 .. n - 1
    BY <1>1, <1>2, LenProperties
  <1>4. \A x : x \in Items(q) <=> \E k \in 1 .. n : x = q[k]
    BY <1>3 DEF Items
  <1>5. \A x : x \in Items(Tail(q)) <=> \E k \in 1 .. n - 1 : x = q[k + 1]
    BY <1>2, <1>3 DEF Items
  <1>6. \A k \in 1 .. n : k = 1 \/ (k - 1 \in 1 .. n - 1 /\ (k - 1) + 1 = k)
    BY <1>1
  <1>7. 1 \in 1 .. n /\ \A k \in 1 .. n - 1 : k + 1 \in 1 .. n /\ k + 1 # 1
    BY <1>1
  <1>8. \A x : x \in Items(q) <=> x \in Items(Tail(q)) \/ x = q[1]
    BY <1>4, <1>5, <1>6, <1>7
  <1>9. ASSUME Distinct(q) PROVE Distinct(Tail(q)) /\ Head(q) \notin Items(Tail(q))
    <2>1. \A j, k \in 1 .. n : q[j] = q[k] => j = k
      BY <1>1, <1>9 DEF Distinct
    <2>2. \A j, k \in 1 .. n - 1 : j + 1 = k + 1 => j = k
      OBVIOUS
    <2>3. Distinct(Tail(q))
      BY <1>2, <1>7, <2>1, <2>2 DEF Distinct
    <2> QED
      BY <1>2, <1>5, <1>7, <2>1, <2>3
  <1> QED
    BY <1>2, <1>4, <1>7, <1>8, <1>9

\* Appending a job that is not in the queue keeps its jobs distinct.
LEMMA AppendFacts ==
    ASSUME NEW q \in Seq(Job), NEW x \in Job
    PROVE  /\ Items(Append(q, x)) = Items(q) \cup {x}
           /\ Distinct(q) /\ x \notin Items(q) => Distinct(Append(q, x))
  <1>1. PICK n \in Nat : n = Len(q)
    BY LenProperties
  <1>2. /\ Append(q, x) \in Seq(Job) /\ Len(Append(q, x)) = n + 1
        /\ \A k \in 1 .. n : Append(q, x)[k] = q[k]
        /\ Append(q, x)[n + 1] = x
    BY <1>1, AppendProperties
  <1>3. DOMAIN q = 1 .. n /\ DOMAIN Append(q, x) = 1 .. n + 1
    BY <1>1, <1>2, LenProperties
  <1>4. \A y : y \in Items(q) <=> \E k \in 1 .. n : y = q[k]
    BY <1>3 DEF Items
  <1>5. \A y : y \in Items(Append(q, x)) <=> \E k \in 1 .. n + 1 : y = Append(q, x)[k]
    BY <1>3 DEF Items
  <1>6. \A k \in 1 .. n + 1 : k \in 1 .. n \/ k = n + 1
    BY <1>1
  <1>7. n + 1 \in 1 .. n + 1 /\ \A k \in 1 .. n : k \in 1 .. n + 1
    BY <1>1
  <1>8. \A y : y \in Items(Append(q, x)) <=> y \in Items(q) \/ y = x
    BY <1>2, <1>4, <1>5, <1>6, <1>7
  <1>9. ASSUME Distinct(q), x \notin Items(q) PROVE Distinct(Append(q, x))
    <2>1. \A j, k \in 1 .. n : q[j] = q[k] => j = k
      BY <1>1, <1>9 DEF Distinct
    <2>2. \A k \in 1 .. n : q[k] # x
      BY <1>4, <1>9
    <2>3. \A j, k \in 1 .. n + 1 : Append(q, x)[j] = Append(q, x)[k] => j = k
      BY <1>2, <1>6, <2>1, <2>2
    <2> QED
      BY <1>2, <2>3 DEF Distinct
  <1> QED
    BY <1>8, <1>9

\* Jobs that go nowhere, or out of sight, leave every other job alone.
LEMMA AloneStays ==
    ASSUME Alone(Places), \A p \in DOMAIN Places : Places'[p] \subseteq Places[p]
    PROVE  Alone(Places)'
  <1>1. DOMAIN Places' = DOMAIN Places
    BY DEF Places
  <1> QED
    BY <1>1 DEF Alone

\* A job that moves keeps its number and leaves the place it was in.
LEMMA AloneMoves ==
    ASSUME Alone(Places), NEW from \in DOMAIN Places, NEW to \in DOMAIN Places,
           NEW old \in Places[from], NEW job, job.n = old.n,
           \A p \in DOMAIN Places : \A x \in Places'[p] :
               \/ p = to /\ x = job
               \/ x \in Places[p] /\ (p = from => x # old)
    PROVE  Alone(Places)'
  <1>1. DOMAIN Places' = DOMAIN Places
    BY DEF Places
  <1>2. \A p \in DOMAIN Places : \A x \in Places'[p] : x.n = job.n => p = to /\ x = job
    BY DEF Alone
  <1>3. \A p \in DOMAIN Places : \A x \in Places'[p] : x.n # job.n => x \in Places[p]
    OBVIOUS
  <1> QED
    BY <1>1, <1>2, <1>3 DEF Alone

\* A new job has a number of its own.
LEMMA AloneGrows ==
    ASSUME Alone(Places), NEW to \in DOMAIN Places, NEW job,
           \A p \in DOMAIN Places : \A x \in Places[p] : x.n # job.n,
           \A p \in DOMAIN Places : \A x \in Places'[p] : (p = to /\ x = job) \/ x \in Places[p]
    PROVE  Alone(Places)'
  <1>1. DOMAIN Places' = DOMAIN Places
    BY DEF Places
  <1> QED
    BY <1>1 DEF Alone

-----------------------------------------------------------------------------
(* What the actions do to the places of jobs *)

\* The queue as a set, before and after a step.
LEMMA QueuedItems == Queued = Items(queue) /\ Queued' = Items(queue')
  BY DEF Queued, Items

\* The queue after a job was appended to it.
LEMMA AppendEffect ==
    ASSUME IngestType, NEW job \in Job, queue' = Append(queue, job)
    PROVE  /\ Queued' = Queued \cup {job}
           /\ Distinct(queue) /\ job \notin Queued => Distinct(queue')
  <1>1. queue \in Seq(Job)
    BY DEF IngestType
  <1> QED
    BY <1>1, QueuedItems, AppendFacts

\* The webhook without its enqueue touches no job.
LEMMA CallEffect ==
    ASSUME NEW c \in Calls, RecordInbound(c) \/ MarkQueued(c) \/ CallLost(c)
    PROVE  UNCHANGED <<queue, scheduled, dlq, abandoned, worker, tool, serial, effects, purged>>
  BY DEF RecordInbound, MarkQueued, CallLost, redis

\* The enqueue puts a new job at the end of the queue.
LEMMA EnqueueEffect ==
    ASSUME IngestType, NEW c \in Calls, EnqueueJob(c)
    PROVE  LET job == NewJob(c[1], BudgetOf(c[1]))
           IN  /\ job \in Job /\ job.n = serial /\ job.msg = c[1] /\ job.budget = BudgetOf(c[1])
               /\ queue' = Append(queue, job) /\ Queued' = Queued \cup {job}
               /\ serial' = serial + 1
               /\ UNCHANGED <<scheduled, dlq, abandoned, worker, tool, effects, purged>>
  <1> DEFINE job == NewJob(c[1], BudgetOf(c[1]))
  <1>1. job \in Job
    BY JobTypes DEF Calls
  <1>2. queue' = Append(queue, job) /\ serial' = serial + 1
    BY DEF EnqueueJob, Push
  <1>3. Queued' = Queued \cup {job}
    BY <1>1, <1>2, AppendEffect
  <1>4. job.n = serial /\ job.msg = c[1] /\ job.budget = BudgetOf(c[1])
    BY DEF NewJob
  <1> QED
    BY <1>1, <1>2, <1>3, <1>4 DEF EnqueueJob

\* The worker takes the head of the queue.
LEMMA TakeEffect ==
    ASSUME IngestType, TakeJob
    PROVE  /\ worker'.job = Head(queue) /\ worker'.pc = "taken" /\ queue' = Tail(queue)
           /\ Queued = Queued' \cup {worker'.job}
           /\ Distinct(queue) => Distinct(queue') /\ worker'.job \notin Queued'
           /\ Busy = {} /\ Busy' = {worker'.job} /\ Held = {} /\ Held' = {worker'.job}
           /\ UNCHANGED <<scheduled, dlq, abandoned, serial, tool, row, call, effects, purged,
                          faults>>
  <1>1. worker.pc = "idle" /\ queue # <<>> /\ queue' = Tail(queue)
        /\ worker' = [pc |-> "taken", job |-> Head(queue)]
    BY DEF TakeJob, At
  <1>2. /\ Queued = Queued' \cup {Head(queue)}
        /\ Distinct(queue) => Distinct(queue') /\ Head(queue) \notin Queued'
    <2>1. queue \in Seq(Job)
      BY DEF IngestType
    <2> QED
      BY <1>1, <2>1, QueuedItems, TakeFacts
  <1> QED
    BY <1>1, <1>2 DEF TakeJob, Busy, Held

\* The worker goes on with its job.
LEMMA GoOnEffect ==
    ASSUME IngestType,
           StartProcessing \/ HandlersSucceed \/ HandlersFail \/ MarkFailed \/ JobTimesOut
    PROVE  /\ worker'.job = worker.job
           /\ Held' = Held /\ Busy' = Busy /\ Busy = {worker.job}
           /\ UNCHANGED <<queue, scheduled, dlq, abandoned, serial, tool, call, purged>>
  <1>1. worker.pc \in {"taken", "running", "failing", "done"}
    BY DEF StartProcessing, HandlersSucceed, HandlersFail, MarkFailed, JobTimesOut, At
  <1>2. \E pc \in {"running", "done", "failing", "raised"} : Become(pc)
    BY DEF StartProcessing, HandlersSucceed, HandlersFail, MarkFailed, JobTimesOut
  <1>3. worker'.job = worker.job /\ worker'.pc \in {"running", "done", "failing", "raised"}
    BY <1>1, <1>2, BecomeTypes
  <1>4. UNCHANGED <<queue, scheduled, dlq, abandoned, serial, tool, call, purged>>
    BY DEF StartProcessing, HandlersSucceed, HandlersFail, MarkFailed, JobTimesOut, redis
  <1> QED
    BY <1>1, <1>3, <1>4 DEF Held, Busy

\* The worker lets go of its job: it is done with, scheduled again, parked, or lost.
LEMMA LetGoEffect ==
    ASSUME IngestType, MarkProcessed \/ ScheduleRetry \/ ParkJob \/ ParkRefused
    PROVE  /\ Busy = {worker.job} /\ Busy' = {} /\ Held = {worker.job}
           /\ Held' \subseteq Held
           /\ UNCHANGED <<queue, abandoned, serial, tool, call, effects, purged>>
           /\ MarkProcessed \/ ParkRefused => UNCHANGED <<scheduled, dlq>>
  <1>1. worker.pc \in {"done", "raised"}
    BY DEF MarkProcessed, ScheduleRetry, ParkJob, ParkRefused, At
  <1>2. worker'.pc \in {"idle", "parked"} /\ (worker'.pc = "parked" => worker'.job = worker.job)
    <2>1. WorkerIdle \/ Become("parked")
      BY DEF MarkProcessed, ScheduleRetry, ParkJob, ParkRefused
    <2> QED
      BY <1>1, <2>1, BecomeTypes DEF WorkerIdle
  <1>3. /\ UNCHANGED <<queue, abandoned, serial, tool, call, effects, purged>>
        /\ MarkProcessed \/ ParkRefused => UNCHANGED <<scheduled, dlq>>
    BY DEF MarkProcessed, ScheduleRetry, ParkJob, ParkRefused, redis
  <1> QED
    BY <1>1, <1>2, <1>3 DEF Busy, Held

\* A parked job is out of the worker's hands already.
LEMMA MarkDeadEffect ==
    ASSUME MarkDead
    PROVE  /\ worker.pc = "parked" /\ Busy = {} /\ Busy' = {} /\ Held = {worker.job} /\ Held' = {}
           /\ UNCHANGED <<queue, scheduled, dlq, abandoned, serial, tool, call, effects, purged,
                          faults>>
  BY DEF MarkDead, At, WorkerIdle, redis, Busy, Held

\* A worker that dies leaves its job in RQ's registry.
LEMMA DieEffect ==
    ASSUME WorkerDies
    PROVE  /\ worker.pc # "idle" /\ Busy \subseteq {worker.job} /\ Busy' = {}
           /\ Held = {worker.job} /\ Held' = {} /\ abandoned' = abandoned \cup {worker.job}
           /\ worker'.pc = "idle"
           /\ UNCHANGED <<queue, scheduled, dlq, serial, tool, row, call, effects, purged>>
  BY DEF WorkerDies, At, WorkerIdle, Busy, Held

\* A retry that is due, and the job of a dead worker, go to the end of the queue.
LEMMA RequeueEffect ==
    ASSUME IngestType, RetryDue \/ Recover
    PROVE  /\ UNCHANGED <<dlq, serial, worker, tool, row, call, effects, purged, faults>>
           /\ \E old, job \in Job :
                /\ job.n = old.n /\ job.msg = old.msg /\ job.budget = old.budget
                /\ queue' = Append(queue, job) /\ Queued' = Queued \cup {job}
                /\ \/ /\ RetryDue /\ old \in scheduled /\ scheduled' = scheduled \ {old}
                      /\ UNCHANGED abandoned
                   \/ /\ Recover /\ old \in Recoverable /\ abandoned' = abandoned \ {old}
                      /\ UNCHANGED scheduled
  <1>1. UNCHANGED <<dlq, serial, worker, tool, row, call, effects, purged, faults>>
    BY DEF RetryDue, Recover
  <1>3. CASE RetryDue
    <2>1. PICK job \in scheduled : scheduled' = scheduled \ {job} /\ queue' = Append(queue, job)
      BY <1>3 DEF RetryDue
    <2>2. job \in Job /\ UNCHANGED abandoned
      BY <1>3, <2>1 DEF RetryDue, IngestType
    <2> QED
      BY <1>1, <1>3, <2>1, <2>2, AppendEffect
  <1>4. CASE Recover
    <2>1. PICK old \in abandoned :
              /\ old.left > 0 /\ abandoned' = abandoned \ {old}
              /\ queue' = Append(queue, [old EXCEPT !.left = @ - 1])
      BY <1>4 DEF Recover
    <2> DEFINE job == [old EXCEPT !.left = @ - 1]
    <2>2. old \in Job /\ UNCHANGED scheduled
      BY <1>4, <2>1 DEF Recover, IngestType
    <2>3. job \in Job /\ job.n = old.n /\ job.msg = old.msg /\ job.budget = old.budget
      BY <2>1, <2>2, JobTypes DEF Job
    <2>4. old \in Recoverable
      BY <2>1 DEF Recoverable
    <2>5. Queued' = Queued \cup {job}
      BY <2>1, <2>3, AppendEffect
    <2> QED
      BY <1>1, <1>4, <2>1, <2>2, <2>3, <2>4, <2>5
  <1> QED
    BY <1>3, <1>4

\* A job whose runs are used up leaves RQ's registry of dead workers, and takes its message
\* out of everybody's sight.
LEMMA OrphanEffect ==
    ASSUME Orphan
    PROVE  /\ UNCHANGED <<queue, scheduled, dlq, serial, worker, tool, row, call, effects, purged>>
           /\ Queued' = Queued /\ Recoverable' = Recoverable /\ Busy' = Busy
           /\ Retired' = Retired /\ Copied' = Copied /\ Held' = Held
           /\ abandoned' \subseteq abandoned
           /\ \E job \in abandoned : /\ abandoned \subseteq abandoned' \cup {job}
                                    /\ job.msg \in orphaned'
  <1>1. /\ UNCHANGED <<queue, scheduled, dlq, serial, worker, tool, row, call, effects, purged>>
        /\ \E job \in abandoned : /\ job.left = 0 /\ abandoned' = abandoned \ {job}
                                 /\ orphaned' = orphaned \cup {job.msg}
    BY DEF Orphan
  <1> QED
    BY <1>1 DEF Queued, Recoverable, Busy, Retired, Copied, Held

\* A replay copies a dead-letter job it has to do: the copy is a new job.
LEMMA CopyEffect ==
    ASSUME IngestType, ReplayCopy
    PROVE  \E old, job \in Job :
             /\ old \in tool.todo /\ tool.pc = "next" /\ tool.runs > 0
             /\ job.n = serial /\ job.msg = old.msg
             /\ queue' = Append(queue, job) /\ Queued' = Queued \cup {job}
             /\ serial' = serial + 1
             /\ tool'.pc = "copied" /\ tool'.job = old /\ tool'.todo = tool.todo \ {old}
             /\ tool'.runs = tool.runs
             /\ Copied = {} /\ Copied' = {old} /\ Retired' = Retired
             /\ UNCHANGED <<scheduled, dlq, abandoned, worker, row, call, effects, purged, faults>>
  <1>1. PICK old \in tool.todo :
            /\ tool.pc = "next" /\ Push(NewJob(old.msg, "text"))
            /\ tool' = [tool EXCEPT !.pc = "copied", !.job = old, !.todo = @ \ {old}]
    BY DEF ReplayCopy
  <1> DEFINE job == NewJob(old.msg, "text")
  <1>2. old \in Job /\ tool \in ToolState /\ tool.runs > 0
    BY <1>1 DEF IngestType, ToolState
  <1>3. old.msg \in Msgs
    BY <1>2 DEF Job
  <1>4. job \in Job
    BY <1>3, JobTypes DEF Budgets
  <1>5. job.n = serial /\ job.msg = old.msg
    BY DEF NewJob
  <1>6. queue' = Append(queue, job) /\ serial' = serial + 1
    BY <1>1 DEF Push
  <1>7. Queued' = Queued \cup {job}
    BY <1>4, <1>6, AppendEffect
  <1>8. /\ tool'.pc = "copied" /\ tool'.job = old /\ tool'.todo = tool.todo \ {old}
        /\ tool'.runs = tool.runs
    BY <1>1, <1>2 DEF ToolState
  <1>9. UNCHANGED <<scheduled, dlq, abandoned, worker, row, call, effects, purged, faults>>
    BY DEF ReplayCopy
  <1>10. Copied = {} /\ Copied' = {old} /\ Retired' = Retired
    BY <1>1, <1>8, <1>9 DEF Copied, Retired
  <1> QED
    BY <1>1, <1>2, <1>4, <1>5, <1>6, <1>7, <1>8, <1>9, <1>10

\* The rest of the tool moves no job; the dead-letter queue only loses some.
LEMMA ToolEffect ==
    ASSUME IngestType, ReplayStart \/ ReplayDelete \/ ReplayEnd \/ ReplayDies \/ Purge
    PROVE  /\ UNCHANGED <<queue, scheduled, abandoned, serial, worker, row, call, effects>>
           /\ dlq' \subseteq dlq /\ Retired' \subseteq Retired
           /\ (tool.runs > 0 => tool'.runs > 0)
           /\ tool'.pc = "copied" => tool' = tool
  <1>1. UNCHANGED <<queue, scheduled, abandoned, serial, worker, row, call, effects>>
    BY DEF ReplayStart, ReplayDelete, ReplayEnd, ReplayDies, Purge, redis
  <1>2. tool \in ToolState
    BY DEF IngestType
  <1>3. CASE ReplayStart
    <2>1. tool'.pc = "next" /\ tool'.todo = dlq /\ tool'.runs = tool.runs + 1 /\ dlq' = dlq
      BY <1>2, <1>3 DEF ReplayStart, redis, ToolState
    <2>2. tool.runs \in Nat
      BY <1>2 DEF ToolState
    <2>3. Retired' \subseteq Retired
      BY <2>1 DEF Retired, Copied
    <2> QED
      BY <1>1, <2>1, <2>2, <2>3
  <1>4. CASE ReplayDelete
    <2>1. /\ tool.pc = "copied" /\ tool'.pc = "next" /\ tool'.todo = tool.todo
          /\ tool'.runs = tool.runs /\ dlq' = dlq \ {tool.job}
      BY <1>2, <1>4 DEF ReplayDelete, ToolState
    <2>2. Retired' \subseteq Retired
      BY <2>1 DEF Retired, Copied
    <2> QED
      BY <1>1, <2>1, <2>2
  <1>5. CASE ReplayEnd \/ ReplayDies
    <2>1. tool'.pc = "off" /\ tool'.todo = {} /\ tool'.runs = tool.runs /\ dlq' = dlq
      BY <1>2, <1>5 DEF ReplayEnd, ReplayDies, ReplayOff, redis, ToolState
    <2>2. Retired' \subseteq Retired
      BY <2>1 DEF Retired, Copied
    <2> QED
      BY <1>1, <2>1, <2>2
  <1>6. CASE Purge
    BY <1>1, <1>6 DEF Purge, Retired, Copied
  <1> QED
    BY <1>3, <1>4, <1>5, <1>6

-----------------------------------------------------------------------------
(* A job is in one place, and numbers are given in order *)

\* The places by name.
LEMMA PlacesFacts ==
    /\ DOMAIN Places = {"queue", "retry", "registry", "worker", "parked"}
    /\ Places["queue"] = Queued /\ Places["retry"] = scheduled
    /\ Places["registry"] = Recoverable /\ Places["worker"] = Busy
    /\ Places["parked"] = Retired
    /\ Places'["queue"] = Queued' /\ Places'["retry"] = scheduled'
    /\ Places'["registry"] = Recoverable' /\ Places'["worker"] = Busy'
    /\ Places'["parked"] = Retired'
  BY DEF Places

\* Numbers in use are below the serial.
LEMMA NumberedPlaces ==
    ASSUME Numbered
    PROVE  \A p \in DOMAIN Places : \A x \in Places[p] : x.n < serial
  <1>1. Recoverable \subseteq abandoned /\ Busy \subseteq Held
    BY DEF Recoverable, Busy, Held
  <1> QED
    BY <1>1, PlacesFacts DEF Numbered, Everywhere, InFlight

\* A webhook call creates at most one job, with a number nobody had.
LEMMA OnePlaceCalls ==
    ASSUME IngestType, OnePlace, Numbered, NEW c \in Calls,
           RecordInbound(c) \/ Answer(c) \/ CallLost(c)
    PROVE  OnePlace'
  <1>1. CASE RecordInbound(c) \/ MarkQueued(c) \/ CallLost(c)
    <2>1. UNCHANGED <<queue, scheduled, dlq, abandoned, worker, tool>>
      BY <1>1, CallEffect
    <2>2. /\ Queued' = Queued /\ Recoverable' = Recoverable /\ Busy' = Busy
          /\ Retired' = Retired
      BY <2>1 DEF Queued, Recoverable, Busy, Retired, Copied
    <2>3. Alone(Places)'
      BY <2>1, <2>2, PlacesFacts, AloneStays DEF OnePlace
    <2> QED
      BY <2>1, <2>3 DEF OnePlace
  <1>2. CASE EnqueueJob(c)
    <2>1. PICK job \in Job :
              /\ job.n = serial /\ queue' = Append(queue, job) /\ Queued' = Queued \cup {job}
              /\ UNCHANGED <<scheduled, dlq, abandoned, worker, tool>>
      BY <1>2, EnqueueEffect
    <2>2. serial \in Nat
      BY DEF IngestType
    <2>3. \A p \in DOMAIN Places : \A x \in Places[p] : x.n # job.n
      <3>1. \A p \in DOMAIN Places : \A x \in Places[p] : x.n < serial
        BY NumberedPlaces
      <3>2. \A x : x < serial => x # serial
        BY <2>2
      <3> QED
        BY <2>1, <3>1, <3>2
    <2>4. Recoverable' = Recoverable /\ Busy' = Busy /\ Retired' = Retired
      BY <2>1 DEF Recoverable, Busy, Retired, Copied
    <2>5. \A p \in DOMAIN Places : \A x \in Places'[p] :
              (p = "queue" /\ x = job) \/ x \in Places[p]
      BY <2>1, <2>4, PlacesFacts
    <2>6. Alone(Places)'
      BY <2>3, <2>5, AloneGrows, PlacesFacts DEF OnePlace
    <2>7. job \notin Queued
      BY <2>3, PlacesFacts
    <2>8. Distinct(queue')
      BY <2>1, <2>7, AppendEffect DEF OnePlace, Distinct
    <2> QED
      BY <2>1, <2>6, <2>8 DEF OnePlace, Distinct
  <1> QED
    BY <1>1, <1>2 DEF Answer

\* The worker moves a job, or drops it.
LEMMA OnePlaceWorker ==
    ASSUME IngestType, OnePlace, Work \/ JobTimesOut \/ WorkerDies
    PROVE  OnePlace'
  <1>1. CASE TakeJob
    <2>1. /\ Distinct(queue') /\ worker'.job \notin Queued' /\ Queued = Queued' \cup {worker'.job}
          /\ Busy' = {worker'.job} /\ worker'.pc = "taken"
          /\ UNCHANGED <<scheduled, dlq, abandoned, tool>>
      BY <1>1, TakeEffect DEF OnePlace, Distinct
    <2>2. Recoverable' = Recoverable /\ Retired' = Retired
      BY <2>1 DEF Recoverable, Retired, Copied
    <2>3. \A p \in DOMAIN Places : \A x \in Places'[p] :
              \/ p = "worker" /\ x = worker'.job
              \/ x \in Places[p] /\ (p = "queue" => x # worker'.job)
      BY <2>1, <2>2, PlacesFacts
    <2>4. Alone(Places)'
      BY <2>1, <2>3, PlacesFacts, AloneMoves DEF OnePlace
    <2> QED
      BY <2>1, <2>4 DEF OnePlace, Distinct
  <1>2. CASE StartProcessing \/ HandlersSucceed \/ HandlersFail \/ MarkFailed \/ JobTimesOut
    <2>1. /\ UNCHANGED <<queue, scheduled, dlq, abandoned, tool>> /\ Busy' = Busy
          /\ worker'.job = worker.job
      BY <1>2, GoOnEffect
    <2>2. Queued' = Queued /\ Recoverable' = Recoverable /\ Retired' = Retired
      BY <2>1 DEF Queued, Recoverable, Retired, Copied
    <2>3. Alone(Places)'
      BY <2>1, <2>2, PlacesFacts, AloneStays DEF OnePlace
    <2>4. worker'.pc # "parked"
      <3>1. Busy = {worker.job}
        BY <1>2, GoOnEffect
      <3> QED
        BY <2>1, <3>1 DEF Busy
    <2> QED
      BY <2>1, <2>3, <2>4 DEF OnePlace
  <1>3. CASE MarkProcessed \/ ParkRefused \/ MarkDead
    <2>1. UNCHANGED <<queue, scheduled, dlq, abandoned, tool>> /\ Busy' = {}
      <3>1. CASE MarkProcessed \/ ParkRefused
        BY <3>1, LetGoEffect
      <3>2. CASE MarkDead
        BY <3>2, MarkDeadEffect
      <3> QED
        BY <1>3, <3>1, <3>2
    <2>2. Queued' = Queued /\ Recoverable' = Recoverable /\ Retired' = Retired
      BY <2>1 DEF Queued, Recoverable, Retired, Copied
    <2>3. Alone(Places)'
      BY <2>1, <2>2, PlacesFacts, AloneStays DEF OnePlace
    <2>4. worker'.pc = "parked" => worker'.job.left = 0
      BY <1>3, BecomeTypes DEF MarkProcessed, ParkRefused, MarkDead, WorkerIdle, At
    <2> QED
      BY <2>1, <2>3, <2>4 DEF OnePlace
  <1>4. CASE ScheduleRetry
    <2>1. PICK job : /\ job.n = worker.job.n /\ scheduled' = scheduled \cup {job}
                     /\ worker'.pc = "idle" /\ UNCHANGED dlq
      <3>1. worker.job \in Job
        BY <1>4 DEF ScheduleRetry, At, IngestType
      <3>2. [worker.job EXCEPT !.left = @ - 1].n = worker.job.n
        BY <3>1 DEF Job
      <3> QED
        BY <1>4, <3>2 DEF ScheduleRetry, WorkerIdle
    <2>2. Busy = {worker.job} /\ Busy' = {} /\ UNCHANGED <<queue, abandoned, tool>>
      BY <1>4, LetGoEffect
    <2>3. Queued' = Queued /\ Recoverable' = Recoverable /\ Retired' = Retired
      BY <2>1, <2>2 DEF Queued, Recoverable, Retired, Copied
    <2>4. \A p \in DOMAIN Places : \A x \in Places'[p] :
              \/ p = "retry" /\ x = job
              \/ x \in Places[p] /\ (p = "worker" => x # worker.job)
      BY <2>1, <2>2, <2>3, PlacesFacts
    <2>5. Alone(Places)'
      BY <2>1, <2>2, <2>4, PlacesFacts, AloneMoves DEF OnePlace
    <2> QED
      BY <2>1, <2>2, <2>5 DEF OnePlace
  <1>5. CASE ParkJob
    <2>1. PICK job : job.n = worker.job.n /\ dlq' = dlq \cup {job} /\ UNCHANGED scheduled
      <3>1. worker.job \in Job
        BY <1>5 DEF ParkJob, At, IngestType
      <3>2. [worker.job EXCEPT !.budget = "text"].n = worker.job.n
        BY <3>1 DEF Job
      <3> QED
        BY <1>5, <3>2 DEF ParkJob
    <2>2. Busy = {worker.job} /\ Busy' = {} /\ UNCHANGED <<queue, abandoned, tool>>
      BY <1>5, LetGoEffect
    <2>3. Queued' = Queued /\ Recoverable' = Recoverable /\ Retired' = Retired \cup {job}
      BY <2>1, <2>2 DEF Queued, Recoverable, Retired, Copied
    <2>4. \A p \in DOMAIN Places : \A x \in Places'[p] :
              \/ p = "parked" /\ x = job
              \/ x \in Places[p] /\ (p = "worker" => x # worker.job)
      BY <2>1, <2>2, <2>3, PlacesFacts
    <2>5. Alone(Places)'
      BY <2>1, <2>2, <2>4, PlacesFacts, AloneMoves DEF OnePlace
    <2>6. worker'.job.left = 0
      BY <1>5, BecomeTypes DEF ParkJob, At
    <2> QED
      BY <2>2, <2>5, <2>6 DEF OnePlace
  <1>6. CASE WorkerDies
    <2>1. /\ worker.pc # "idle" /\ Busy' = {} /\ abandoned' = abandoned \cup {worker.job}
          /\ worker'.pc = "idle" /\ UNCHANGED <<queue, scheduled, dlq, tool>>
      BY <1>6, DieEffect
    <2>2. Queued' = Queued /\ Retired' = Retired
      BY <2>1 DEF Queued, Retired, Copied
    <2>3. Recoverable' \subseteq Recoverable \cup {worker.job}
      BY <2>1 DEF Recoverable
    <2>4. CASE worker.pc = "parked"
      <3>1. ~(worker.job.left > 0)
        BY <2>4 DEF OnePlace
      <3>2. Recoverable' \subseteq Recoverable
        BY <2>1, <3>1 DEF Recoverable
      <3>3. Alone(Places)'
        BY <2>1, <2>2, <3>2, PlacesFacts, AloneStays DEF OnePlace
      <3> QED
        BY <2>1, <3>3 DEF OnePlace
    <2>5. CASE worker.pc # "parked"
      <3>1. Busy = {worker.job}
        BY <2>1, <2>5 DEF Busy
      <3>2. \A p \in DOMAIN Places : \A x \in Places'[p] :
                \/ p = "registry" /\ x = worker.job
                \/ x \in Places[p] /\ (p = "worker" => x # worker.job)
        BY <2>1, <2>2, <2>3, PlacesFacts
      <3>3. Alone(Places)'
        BY <3>1, <3>2, PlacesFacts, AloneMoves DEF OnePlace
      <3> QED
        BY <2>1, <3>3 DEF OnePlace
    <2> QED
      BY <2>4, <2>5
  <1> QED
    BY <1>1, <1>2, <1>3, <1>4, <1>5, <1>6 DEF Work

\* The queue library moves a job, or hands it to the worker.
LEMMA OnePlaceQueue ==
    ASSUME IngestType, OnePlace, RetryDue \/ Recover
    PROVE  OnePlace'
  <1>1. PICK old \in Job, job \in Job :
            /\ job.n = old.n /\ queue' = Append(queue, job) /\ Queued' = Queued \cup {job}
            /\ UNCHANGED <<dlq, worker, tool>>
            /\ \/ old \in scheduled /\ scheduled' = scheduled \ {old} /\ UNCHANGED abandoned
               \/ old \in Recoverable /\ abandoned' = abandoned \ {old} /\ UNCHANGED scheduled
    BY RequeueEffect
  <1>2. Busy' = Busy /\ Retired' = Retired
    BY <1>1 DEF Busy, Retired, Copied
  <1>3. PICK from \in {"retry", "registry"} :
            /\ old \in Places[from]
            /\ from = "retry" => scheduled' = scheduled \ {old} /\ UNCHANGED abandoned
            /\ from = "registry" => abandoned' = abandoned \ {old} /\ UNCHANGED scheduled
    BY <1>1, PlacesFacts
  <1>4. \A p \in DOMAIN Places : \A x \in Places'[p] :
            \/ p = "queue" /\ x = job
            \/ x \in Places[p] /\ (p = from => x # old)
    <2>1. /\ from = "retry" => scheduled' = scheduled \ {old} /\ Recoverable' = Recoverable
          /\ from = "registry" => scheduled' = scheduled /\ Recoverable' = Recoverable \ {old}
      BY <1>3 DEF Recoverable
    <2> QED
      BY <1>1, <1>2, <1>3, <2>1, PlacesFacts
  <1>5. Alone(Places)'
    BY <1>1, <1>3, <1>4, PlacesFacts, AloneMoves DEF OnePlace
  <1>6. job \notin Queued
    BY <1>1, <1>3, PlacesFacts DEF OnePlace, Alone
  <1>7. Distinct(queue')
    BY <1>1, <1>6, AppendEffect DEF OnePlace, Distinct
  <1> QED
    BY <1>1, <1>5, <1>7 DEF OnePlace, Distinct

\* A job that goes to the failed registry was in no place any more.
LEMMA OnePlaceOrphan ==
    ASSUME OnePlace, Orphan
    PROVE  OnePlace'
  <1>1. /\ UNCHANGED <<queue, scheduled, worker, tool>> /\ Queued' = Queued
        /\ Recoverable' = Recoverable /\ Busy' = Busy /\ Retired' = Retired
    BY OrphanEffect
  <1>2. Alone(Places)'
    BY <1>1, PlacesFacts, AloneStays DEF OnePlace
  <1> QED
    BY <1>1, <1>2 DEF OnePlace

\* The tool moves a job, and copies one under a number nobody had.
LEMMA OnePlaceTool ==
    ASSUME IngestType, OnePlace, Numbered, ReplayStart \/ Replay \/ ReplayDies \/ Purge
    PROVE  OnePlace'
  <1>1. CASE ReplayCopy
    <2>1. PICK old \in Job, job \in Job :
              /\ job.n = serial /\ queue' = Append(queue, job) /\ Queued' = Queued \cup {job}
              /\ tool'.job = old /\ tool'.todo = tool.todo \ {old} /\ Retired' = Retired
              /\ UNCHANGED <<scheduled, abandoned, worker>>
      BY <1>1, CopyEffect
    <2>2. serial \in Nat
      BY DEF IngestType
    <2>3. \A p \in DOMAIN Places : \A x \in Places[p] : x.n # job.n
      <3>1. \A p \in DOMAIN Places : \A x \in Places[p] : x.n < serial
        BY NumberedPlaces
      <3>2. \A x : x < serial => x # serial
        BY <2>2
      <3> QED
        BY <2>1, <3>1, <3>2
    <2>4. Recoverable' = Recoverable /\ Busy' = Busy
      BY <2>1 DEF Recoverable, Busy
    <2>5. \A p \in DOMAIN Places : \A x \in Places'[p] :
              (p = "queue" /\ x = job) \/ x \in Places[p]
      BY <2>1, <2>4, PlacesFacts
    <2>6. Alone(Places)'
      BY <2>3, <2>5, AloneGrows, PlacesFacts DEF OnePlace
    <2>7. job \notin Queued
      BY <2>3, PlacesFacts
    <2>8. Distinct(queue')
      BY <2>1, <2>7, AppendEffect DEF OnePlace, Distinct
    <2> QED
      BY <2>1, <2>6, <2>8 DEF OnePlace, Distinct
  <1>2. CASE ReplayStart \/ ReplayDelete \/ ReplayEnd \/ ReplayDies \/ Purge
    <2>1. /\ UNCHANGED <<queue, scheduled, abandoned, worker>>
          /\ Retired' \subseteq Retired /\ (tool'.pc = "copied" => tool' = tool)
      BY <1>2, ToolEffect
    <2>2. Queued' = Queued /\ Recoverable' = Recoverable /\ Busy' = Busy
      BY <2>1 DEF Queued, Recoverable, Busy
    <2>3. Alone(Places)'
      BY <2>1, <2>2, PlacesFacts, AloneStays DEF OnePlace
    <2> QED
      BY <2>1, <2>3 DEF OnePlace
  <1> QED
    BY <1>1, <1>2 DEF Replay

\* A job after a step is one there was, with its number and message, or the new job of the
\* webhook or of a replay.
Descends(job) ==
    \/ \E old \in Everywhere : job.n = old.n /\ job.msg = old.msg
    \/ /\ job.n = serial /\ serial' = serial + 1
       /\ \/ \E c \in Calls : EnqueueJob(c) /\ job.msg = c[1]
          \/ \E old \in Everywhere : job.msg = old.msg

\* One in flight keeps its budget too.
Inherits(job) ==
    \/ \E old \in InFlight : job.msg = old.msg /\ job.budget = old.budget
    \/ \E c \in Calls : EnqueueJob(c) /\ job.msg = c[1] /\ job.budget = BudgetOf(c[1])
    \/ tool.runs > 0

Lineage ==
    /\ serial' = serial \/ serial' = serial + 1
    /\ tool.runs > 0 => tool'.runs > 0
    /\ \A job \in Everywhere' : Descends(job)
    /\ \A job \in InFlight' : Inherits(job)

\* Nothing new where no set of jobs grows.
LEMMA LineageStays ==
    ASSUME InFlight' \subseteq InFlight, Retired' \subseteq Retired, serial' = serial,
           tool.runs > 0 => tool'.runs > 0
    PROVE  Lineage
  BY DEF Lineage, Descends, Inherits, Everywhere

\* After a step of a call, each job was there before or is the call's own.
LEMMA LineageCalls ==
    ASSUME IngestType, NEW c \in Calls, RecordInbound(c) \/ Answer(c) \/ CallLost(c)
    PROVE  Lineage
  <1>1. CASE RecordInbound(c) \/ MarkQueued(c) \/ CallLost(c)
    <2>1. UNCHANGED <<queue, scheduled, dlq, abandoned, worker, tool, serial>>
      BY <1>1, CallEffect
    <2>2. InFlight' = InFlight /\ Retired' = Retired
      BY <2>1 DEF InFlight, Queued, Held, Retired, Copied
    <2> QED
      BY <2>1, <2>2, LineageStays
  <1>2. CASE EnqueueJob(c)
    <2>1. PICK job \in Job :
              /\ job.n = serial /\ job.msg = c[1] /\ job.budget = BudgetOf(c[1])
              /\ Queued' = Queued \cup {job} /\ serial' = serial + 1
              /\ UNCHANGED <<scheduled, dlq, abandoned, worker, tool>>
      BY <1>2, EnqueueEffect
    <2>2. InFlight' = InFlight \cup {job} /\ Retired' = Retired
      BY <2>1 DEF InFlight, Held, Retired, Copied
    <2>3. Descends(job) /\ Inherits(job)
      BY <1>2, <2>1 DEF Descends, Inherits
    <2> QED
      BY <2>1, <2>2, <2>3 DEF Lineage, Descends, Inherits, Everywhere
  <1> QED
    BY <1>1, <1>2 DEF Answer

\* After a step of the worker, each job descends from one that was there.
LEMMA LineageWorker ==
    ASSUME IngestType, Work \/ JobTimesOut \/ WorkerDies
    PROVE  Lineage
  <1>1. CASE TakeJob
    <2>1. /\ Queued = Queued' \cup {worker'.job} /\ Held' = {worker'.job}
          /\ UNCHANGED <<scheduled, dlq, abandoned, tool, serial>>
      BY <1>1, TakeEffect
    <2>2. InFlight' \subseteq InFlight /\ Retired' = Retired
      BY <2>1 DEF InFlight, Retired, Copied
    <2> QED
      BY <2>1, <2>2, LineageStays
  <1>2. CASE StartProcessing \/ HandlersSucceed \/ HandlersFail \/ MarkFailed \/ JobTimesOut
    <2>1. UNCHANGED <<queue, scheduled, dlq, abandoned, tool, serial>> /\ Held' = Held
      BY <1>2, GoOnEffect
    <2>2. InFlight' = InFlight /\ Retired' = Retired
      BY <2>1 DEF InFlight, Queued, Retired, Copied
    <2> QED
      BY <2>1, <2>2, LineageStays
  <1>3. CASE MarkProcessed \/ ParkRefused \/ MarkDead \/ WorkerDies
    <2>1. /\ UNCHANGED <<queue, scheduled, dlq, tool, serial>> /\ Held' \subseteq Held
          /\ abandoned' \subseteq abandoned \cup Held
      <3>1. CASE MarkProcessed \/ ParkRefused
        BY <3>1, LetGoEffect
      <3>2. CASE MarkDead
        BY <3>2, MarkDeadEffect
      <3>3. CASE WorkerDies
        BY <3>3, DieEffect
      <3> QED
        BY <1>3, <3>1, <3>2, <3>3
    <2>2. InFlight' \subseteq InFlight /\ Retired' = Retired
      BY <2>1 DEF InFlight, Queued, Retired, Copied
    <2> QED
      BY <2>1, <2>2, LineageStays
  <1>4. CASE ScheduleRetry
    <2>1. PICK job : /\ job.n = worker.job.n /\ job.msg = worker.job.msg
                     /\ job.budget = worker.job.budget
                     /\ scheduled' = scheduled \cup {job} /\ UNCHANGED dlq
      <3>1. worker.job \in Job
        BY <1>4 DEF ScheduleRetry, At, IngestType
      <3> DEFINE job == [worker.job EXCEPT !.left = @ - 1]
      <3>2. job.n = worker.job.n /\ job.msg = worker.job.msg /\ job.budget = worker.job.budget
        BY <3>1 DEF Job
      <3> QED
        BY <1>4, <3>2 DEF ScheduleRetry
    <2>2. Held = {worker.job} /\ Held' \subseteq Held /\ UNCHANGED <<queue, abandoned, tool, serial>>
      BY <1>4, LetGoEffect
    <2>3. InFlight' \subseteq InFlight \cup {job} /\ Retired' = Retired /\ worker.job \in InFlight
      BY <2>1, <2>2 DEF InFlight, Queued, Retired, Copied
    <2> QED
      BY <2>1, <2>2, <2>3 DEF Lineage, Descends, Inherits, Everywhere
  <1>5. CASE ParkJob
    <2>1. PICK job : /\ job.n = worker.job.n /\ job.msg = worker.job.msg
                     /\ dlq' = dlq \cup {job} /\ UNCHANGED scheduled
      <3>1. worker.job \in Job
        BY <1>5 DEF ParkJob, At, IngestType
      <3> DEFINE job == [worker.job EXCEPT !.budget = "text"]
      <3>2. job.n = worker.job.n /\ job.msg = worker.job.msg
        BY <3>1 DEF Job
      <3> QED
        BY <1>5, <3>2 DEF ParkJob
    <2>2. Held = {worker.job} /\ Held' \subseteq Held /\ UNCHANGED <<queue, abandoned, tool, serial>>
      BY <1>5, LetGoEffect
    <2>3. InFlight' \subseteq InFlight /\ Retired' = Retired \cup {job} /\ worker.job \in InFlight
      BY <2>1, <2>2 DEF InFlight, Queued, Retired, Copied
    <2> QED
      BY <2>1, <2>2, <2>3 DEF Lineage, Descends, Inherits, Everywhere
  <1> QED
    BY <1>1, <1>2, <1>3, <1>4, <1>5 DEF Work

\* After a step of the queue library, each job descends from one that was there.
LEMMA LineageQueue ==
    ASSUME IngestType, RetryDue \/ Recover \/ Orphan
    PROVE  Lineage
  <1> SUFFICES ASSUME ~Orphan PROVE Lineage
    <2>1. CASE Orphan
      <3>1. InFlight' \subseteq InFlight /\ Retired' = Retired /\ UNCHANGED <<serial, tool>>
        BY <2>1, OrphanEffect DEF InFlight
      <3> QED
        BY <3>1, LineageStays
    <2> QED
      BY <2>1
  <1>1. PICK old \in Job, job \in Job :
            /\ job.n = old.n /\ job.msg = old.msg /\ job.budget = old.budget
            /\ Queued' = Queued \cup {job} /\ old \in scheduled \cup Recoverable
            /\ scheduled' \subseteq scheduled /\ abandoned' \subseteq abandoned
            /\ UNCHANGED <<dlq, worker, tool, serial>>
    BY RequeueEffect
  <1>2. /\ InFlight' \subseteq InFlight \cup {job} /\ Retired' = Retired /\ old \in InFlight
    BY <1>1 DEF InFlight, Held, Retired, Copied, Recoverable
  <1> QED
    BY <1>1, <1>2 DEF Lineage, Descends, Inherits, Everywhere

\* After a step of the tool, each job descends from one that was there.
LEMMA LineageTool ==
    ASSUME IngestType, ReplayStart \/ Replay \/ ReplayDies \/ Purge
    PROVE  Lineage
  <1>1. CASE ReplayCopy
    <2>1. PICK old \in Job, job \in Job :
              /\ job.n = serial /\ job.msg = old.msg /\ old \in tool.todo /\ tool.runs > 0
              /\ Queued' = Queued \cup {job} /\ serial' = serial + 1
              /\ Retired' = Retired /\ tool'.runs = tool.runs
              /\ UNCHANGED <<scheduled, abandoned, worker>>
      BY <1>1, CopyEffect
    <2>2. InFlight' = InFlight \cup {job} /\ old \in Retired
      BY <2>1 DEF InFlight, Held, Retired
    <2> QED
      BY <2>1, <2>2 DEF Lineage, Descends, Inherits, Everywhere
  <1>2. CASE ReplayStart \/ ReplayDelete \/ ReplayEnd \/ ReplayDies \/ Purge
    <2>1. /\ UNCHANGED <<queue, scheduled, abandoned, worker, serial>>
          /\ Retired' \subseteq Retired /\ (tool.runs > 0 => tool'.runs > 0)
      BY <1>2, ToolEffect
    <2>2. InFlight' = InFlight
      BY <2>1 DEF InFlight, Queued, Held
    <2> QED
      BY <2>1, <2>2, LineageStays
  <1> QED
    BY <1>1, <1>2 DEF Replay

\* After every step, each job descends from an old one or a call has just created it.
LEMMA LineageNext == IngestType /\ Next => Lineage
  BY LineageCalls, LineageWorker, LineageQueue, LineageTool DEF Next

\* Numbers stay below the serial.
LEMMA NumberedNext ==
    ASSUME IngestType, Numbered, Lineage
    PROVE  Numbered'
  <1>1. serial \in Nat
    BY DEF IngestType
  <1>2. ASSUME NEW job \in Everywhere' PROVE job.n < serial'
    <2>1. CASE job.n = serial /\ serial' = serial + 1
      BY <1>1, <2>1
    <2>2. CASE \E old \in Everywhere : job.n = old.n /\ job.msg = old.msg
      <3>1. PICK old \in Everywhere : job.n = old.n
        BY <2>2
      <3>2. old.n < serial
        BY <3>1 DEF Numbered
      <3>3. old \in Job
        BY DEF Everywhere, InFlight, Queued, Held, Retired, Copied, IngestType, ToolState
      <3>4. old.n \in Nat
        BY <3>3 DEF Job
      <3>5. serial' = serial \/ serial' = serial + 1
        BY DEF Lineage
      <3> QED
        BY <1>1, <3>1, <3>2, <3>4, <3>5
    <2> QED
      BY <2>1, <2>2 DEF Lineage, Descends
  <1> QED
    BY <1>2 DEF Numbered

\* No job before the first delivery.
LEMMA NothingAtFirst ==
    ASSUME Init
    PROVE  /\ Queued = {} /\ InFlight = {} /\ Everywhere = {} /\ Retired = {} /\ Busy = {}
           /\ Recoverable = {} /\ Copied = {} /\ queue = <<>> /\ worker.pc = "idle"
           /\ scheduled = {} /\ dlq = {} /\ tool.todo = {} /\ tool.pc = "off"
  BY DEF Init, Queued, InFlight, Everywhere, Retired, Copied, Busy, Held, Recoverable

\* A step hands no job in flight a text budget, but for those of a replay.
LEMMA BudgetedNext ==
    ASSUME IngestType, Budgeted, Next
    PROVE  Budgeted'
  <1>1. Lineage
    BY LineageNext
  <1>2. ASSUME NEW job \in InFlight', job.msg \in Documents, job.budget = "text"
        PROVE  tool.runs > 0
    <2>1. \A c \in Calls : c[1] \in Documents => BudgetOf(c[1]) # "text"
      BY DEF BudgetOf
    <2> QED
      BY <1>1, <1>2, <2>1 DEF Lineage, Inherits, Budgeted
  <1> QED
    BY <1>1, <1>2 DEF Budgeted, Lineage

-----------------------------------------------------------------------------
(* A job exists only for a message the ledger knows *)

\* What a step does to a webhook call.
LEMMA CallMoves ==
    ASSUME IngestType, Next, NEW c \in Calls
    PROVE  /\ RecordInbound(c) => \A d \in Calls \ {c} : call'[d] = call[d]
           /\ EnqueueJob(c) => call[c] = "new" /\ call'[c] = "enqueued"
           /\ call'[c] = "new" => call[c] = "new" \/ (RecordInbound(c) /\ row[c[1]] = "none")
           /\ call'[c] = "enqueued" => call[c] = "enqueued" \/ EnqueueJob(c)
           /\ call'[c] # "ready" => call[c] # "ready" \/ row'[c[1]] # "none"
           /\ call[c] = "new" => call'[c] = "new" \/ EnqueueJob(c) \/ CallLost(c)
  <1>1. call \in [Calls -> CallState] /\ row \in [Msgs -> RowStatus] /\ c[1] \in Msgs
    BY DEF IngestType, Calls
  <1>2. RecordInbound(c) => \A d \in Calls \ {c} : call'[d] = call[d]
    BY <1>1 DEF RecordInbound
  <1>3. EnqueueJob(c) => call[c] = "new" /\ call'[c] = "enqueued"
    BY <1>1 DEF EnqueueJob
  <1>4. CASE call' = call
    BY <1>2, <1>3, <1>4
  <1>5. CASE \E d \in Calls : RecordInbound(d) \/ Answer(d) \/ CallLost(d)
    <2>1. PICK d \in Calls : RecordInbound(d) \/ Answer(d) \/ CallLost(d)
      BY <1>5
    <2>2. CASE d # c
      <3>1. call'[c] = call[c]
        BY <1>1, <2>1, <2>2 DEF RecordInbound, Answer, EnqueueJob, MarkQueued, CallLost
      <3> QED
        BY <1>2, <1>3, <3>1
    <2>3. CASE d = c /\ RecordInbound(c)
      BY <1>1, <1>2, <1>3, <2>3 DEF RecordInbound, Mark
    <2>4. CASE d = c /\ EnqueueJob(c)
      BY <1>2, <1>3, <2>4
    <2>5. CASE d = c /\ (MarkQueued(c) \/ CallLost(c))
      BY <1>1, <1>2, <1>3, <2>5 DEF MarkQueued, CallLost
    <2> QED
      BY <2>1, <2>2, <2>3, <2>4, <2>5 DEF Answer
  <1>6. CASE Work \/ JobTimesOut \/ WorkerDies
    BY <1>4, <1>6 DEF Work, TakeJob, StartProcessing, HandlersSucceed, HandlersFail, MarkFailed,
         MarkProcessed, ScheduleRetry, ParkJob, ParkRefused, MarkDead, JobTimesOut, WorkerDies
  <1>7. CASE RetryDue \/ Recover \/ Orphan \/ ReplayStart \/ Replay \/ ReplayDies \/ Purge
    BY <1>4, <1>7 DEF RetryDue, Recover, Orphan, ReplayStart, Replay, ReplayCopy, ReplayDelete,
         ReplayEnd, ReplayDies, Purge
  <1> QED
    BY <1>5, <1>6, <1>7 DEF Next

\* Who writes the row of a message: the call that records it, a call whose job was made, or
\* the worker that has a job of it.
Writer(m) ==
    \/ \E c \in Calls : c[1] = m /\ RecordInbound(c) /\ row[m] = "none"
    \/ \E c \in Calls : c[1] = m /\ call[c] = "enqueued"
    \/ worker.pc # "idle" /\ worker.job.msg = m

\* What each step may do to the ledger row of a message.
LEMMA RowMoves ==
    ASSUME IngestType, Next, NEW m \in Msgs
    PROVE  row'[m] = row[m] \/ (row'[m] # "none" /\ Writer(m))
  <1>1. row \in [Msgs -> RowStatus]
    BY DEF IngestType
  <1>2. CASE row' = row
    BY <1>2
  <1>3. ASSUME NEW k \in Msgs, NEW status \in RowStatus \ {"none"}, MarkStatus(k, status)
        PROVE  row'[m] = row[m] \/ (k = m /\ row'[m] # "none")
    BY <1>1, <1>3 DEF MarkStatus, Mark
  <1>4. CASE \E c \in Calls : RecordInbound(c) \/ Answer(c) \/ CallLost(c)
    <2>1. PICK c \in Calls : RecordInbound(c) \/ Answer(c) \/ CallLost(c)
      BY <1>4
    <2>2. c[1] \in Msgs
      BY DEF Calls
    <2>3. CASE RecordInbound(c)
      BY <1>1, <2>2, <2>3 DEF RecordInbound, Mark, Writer
    <2>4. CASE MarkQueued(c)
      <3>1. row'[m] = row[m] \/ (c[1] = m /\ row'[m] # "none")
        BY <1>3, <2>2, <2>4 DEF MarkQueued, RowStatus
      <3> QED
        BY <2>4, <3>1 DEF MarkQueued, Writer
    <2>5. CASE EnqueueJob(c) \/ CallLost(c)
      BY <1>2, <2>5 DEF EnqueueJob, CallLost
    <2> QED
      BY <2>1, <2>3, <2>4, <2>5 DEF Answer
  <1>5. CASE StartProcessing \/ MarkFailed \/ MarkProcessed \/ MarkDead
    <2>1. worker.pc # "idle"
      BY <1>5 DEF StartProcessing, MarkFailed, MarkProcessed, MarkDead, At
    <2>2. worker.job.msg \in Msgs
      BY <2>1 DEF IngestType, Job
    <2>3. PICK status \in RowStatus \ {"none"} : MarkStatus(worker.job.msg, status)
      BY <1>5 DEF StartProcessing, MarkFailed, MarkProcessed, MarkDead, RowStatus
    <2> QED
      BY <1>3, <2>1, <2>2, <2>3 DEF Writer
  <1>6. CASE \/ TakeJob \/ HandlersSucceed \/ HandlersFail \/ ScheduleRetry \/ ParkJob
             \/ ParkRefused \/ JobTimesOut \/ WorkerDies
    BY <1>2, <1>6 DEF TakeJob, HandlersSucceed, HandlersFail, ScheduleRetry, ParkJob,
                      ParkRefused, JobTimesOut, WorkerDies
  <1>7. CASE RetryDue \/ Recover \/ Orphan \/ ReplayStart \/ Replay \/ ReplayDies \/ Purge
    BY <1>2, <1>7 DEF RetryDue, Recover, Orphan, ReplayStart, Replay, ReplayCopy, ReplayDelete,
         ReplayEnd, ReplayDies, Purge
  <1> QED
    BY <1>4, <1>5, <1>6, <1>7 DEF Next, Work

\* The handlers run to the end only in HandlersSucceed.
LEMMA EffectMoves ==
    ASSUME IngestType, Next
    PROVE  \/ effects' = effects
           \/ /\ HandlersSucceed /\ worker.job \in Job /\ worker.pc = "running"
              /\ effects' = [effects EXCEPT ![worker.job.msg] = @ + 1]
  <1>1. CASE HandlersSucceed
    BY <1>1 DEF HandlersSucceed, At, IngestType
  <1>2. CASE \E c \in Calls : RecordInbound(c) \/ Answer(c) \/ CallLost(c)
    BY <1>2 DEF RecordInbound, Answer, EnqueueJob, MarkQueued, CallLost
  <1>3. CASE (Work \/ JobTimesOut \/ WorkerDies) /\ ~HandlersSucceed
    BY <1>3 DEF Work, TakeJob, StartProcessing, HandlersFail, MarkFailed,
         MarkProcessed, ScheduleRetry, ParkJob, ParkRefused, MarkDead, JobTimesOut, WorkerDies
  <1>4. CASE RetryDue \/ Recover \/ Orphan \/ ReplayStart \/ Replay \/ ReplayDies \/ Purge
    BY <1>4 DEF RetryDue, Recover, Orphan, ReplayStart, Replay, ReplayCopy, ReplayDelete,
         ReplayEnd, ReplayDies, Purge
  <1> QED
    BY <1>1, <1>2, <1>3, <1>4 DEF Next

\* A worker is done only after its handlers ran.
LEMMA DoneMoves ==
    ASSUME IngestType, Next, worker'.pc = "done"
    PROVE  HandlersSucceed \/ worker' = worker
  <1>1. CASE \E c \in Calls : RecordInbound(c) \/ Answer(c) \/ CallLost(c)
    BY <1>1 DEF RecordInbound, Answer, EnqueueJob, MarkQueued, CallLost
  <1>2. CASE TakeJob
    BY <1>2, TakeEffect
  <1>3. CASE StartProcessing \/ HandlersFail \/ MarkFailed \/ JobTimesOut \/ ParkJob \/ ParkRefused
    <2>1. worker.pc # "idle"
      BY <1>3 DEF StartProcessing, HandlersFail, MarkFailed, JobTimesOut, ParkJob, ParkRefused, At
    <2>2. PICK pc \in {"running", "failing", "raised", "parked"} : Become(pc)
      BY <1>3 DEF StartProcessing, HandlersFail, MarkFailed, JobTimesOut, ParkJob, ParkRefused
    <2> QED
      BY <2>1, <2>2, BecomeTypes
  <1>4. CASE MarkProcessed \/ ScheduleRetry \/ MarkDead \/ WorkerDies
    BY <1>4 DEF MarkProcessed, ScheduleRetry, MarkDead, WorkerDies, WorkerIdle
  <1>5. CASE RetryDue \/ Recover \/ Orphan \/ ReplayStart \/ Replay \/ ReplayDies \/ Purge
    BY <1>5 DEF RetryDue, Recover, Orphan, ReplayStart, Replay, ReplayCopy, ReplayDelete,
         ReplayEnd, ReplayDies, Purge, redis
  <1> QED
    BY <1>1, <1>2, <1>3, <1>4, <1>5 DEF Next, Work

\* What is born stays so.
LEMMA BornStays ==
    ASSUME IngestType, Next, NEW m \in Msgs, Born(m)
    PROVE  Born(m)'
  <1>1. row'[m] # "none"
    BY RowMoves DEF Born
  <1>2. ASSUME NEW c \in Calls, c[1] = m, call'[c] = "new" PROVE FALSE
    <2>1. call[c] # "new" /\ row[m] # "none"
      BY <1>2 DEF Born, Pending
    <2> QED
      BY <1>2, <2>1, CallMoves
  <1> QED
    BY <1>1, <1>2 DEF Born, Pending

\* An enqueue makes its message born.
LEMMA EnqueueIsBirth ==
    ASSUME IngestType, JobsAreBorn, Next, NEW c \in Calls, EnqueueJob(c)
    PROVE  Born(c[1])'
  <1>1. call[c] = "new" /\ call'[c] = "enqueued"
    BY CallMoves
  <1>2. c[1] \in Msgs /\ row[c[1]] = "received"
    BY <1>1 DEF Calls, JobsAreBorn, NewIsReceived
  <1>3. row'[c[1]] # "none"
    BY <1>2, RowMoves
  <1>4. ASSUME NEW d \in Calls, d[1] = c[1], call'[d] = "new" PROVE FALSE
    <2>1. call[d] = "new"
      BY <1>2, <1>4, CallMoves
    <2>2. d = c
      BY <1>1, <1>4, <2>1 DEF JobsAreBorn, OneIsNew
    <2> QED
      BY <1>1, <1>4, <2>2
  <1> QED
    BY <1>3, <1>4 DEF Born, Pending

\* The worker's job is born, and while a message waits for its job nobody writes its row or
\* runs its handlers.
LEMMA NewIsLeftAlone ==
    ASSUME IngestType, JobsAreBorn, Next, NEW c \in Calls, call[c] = "new"
    PROVE  row'[c[1]] = "received" /\ effects'[c[1]] = 0
  <1>1. c[1] \in Msgs /\ row[c[1]] = "received" /\ effects[c[1]] = 0
    BY DEF Calls, JobsAreBorn, NewIsReceived
  <1>2. ~Born(c[1])
    BY DEF Born, Pending
  <1>3. worker.pc # "idle" => worker.job.msg # c[1]
    BY <1>2 DEF JobsAreBorn, Everywhere, InFlight, Held
  <1>4. ~Writer(c[1])
    BY <1>1, <1>2, <1>3 DEF Writer, JobsAreBorn, EnqueuedIsBorn
  <1>5. row'[c[1]] = "received"
    BY <1>1, <1>4, RowMoves
  <1>6. effects'[c[1]] = effects[c[1]]
    <2>1. effects \in [Msgs -> Nat]
      BY DEF IngestType
    <2> QED
      BY <1>1, <1>3, <2>1, EffectMoves
  <1> QED
    BY <1>1, <1>5, <1>6

\* Every step keeps each job under a ledger row and one new call for each message.
LEMMA JobsAreBornNext ==
    ASSUME IngestType, JobsAreBorn, Next
    PROVE  JobsAreBorn'
  <1>1. \A job \in Everywhere : job.msg \in Msgs
    <2>1. \A job \in Everywhere : job \in Job
      BY DEF Everywhere, InFlight, Queued, Held, Retired, Copied, IngestType, ToolState
    <2> QED
      BY <2>1 DEF Job
  <1>2. \A job \in Everywhere' : Born(job.msg)'
    <2> TAKE job \in Everywhere'
    <2>1. CASE \E old \in Everywhere : job.msg = old.msg
      BY <1>1, <2>1, BornStays DEF JobsAreBorn
    <2>2. CASE \E c \in Calls : EnqueueJob(c) /\ job.msg = c[1]
      BY <2>2, EnqueueIsBirth
    <2> QED
      BY <2>1, <2>2, LineageNext DEF Lineage, Descends
  <1>3. CallsAreKnown'
    <2> SUFFICES ASSUME NEW c \in Calls, call'[c] # "ready" PROVE row'[c[1]] # "none"
      BY DEF CallsAreKnown
    <2>1. c[1] \in Msgs
      BY DEF Calls
    <2> QED
      BY <2>1, CallMoves, RowMoves DEF JobsAreBorn, CallsAreKnown
  <1>4. NewIsReceived'
    <2> SUFFICES ASSUME NEW c \in Calls, call'[c] = "new"
                 PROVE  row'[c[1]] = "received" /\ effects'[c[1]] = 0
      BY DEF NewIsReceived
    <2>1. CASE call[c] = "new"
      BY <2>1, NewIsLeftAlone
    <2>2. CASE RecordInbound(c) /\ row[c[1]] = "none"
      <3>1. c[1] \in Msgs /\ row \in [Msgs -> RowStatus] /\ effects[c[1]] = 0
        BY <2>2 DEF Calls, IngestType, JobsAreBorn, UnknownIsUnhandled
      <3> QED
        BY <2>2, <3>1 DEF RecordInbound, Mark
    <2> QED
      BY <2>1, <2>2, CallMoves
  <1>5. OneIsNew'
    <2> SUFFICES ASSUME NEW c \in Calls, NEW d \in Calls, c[1] = d[1],
                        call'[c] = "new", call'[d] = "new"
                 PROVE  c = d
      BY DEF OneIsNew
    <2>1. \A e \in Calls : call[e] = "new" => row[e[1]] = "received"
      BY DEF JobsAreBorn, NewIsReceived
    <2>2. CASE call[c] = "new" /\ call[d] = "new"
      BY <2>2 DEF JobsAreBorn, OneIsNew
    <2>3. CASE RecordInbound(c) /\ row[c[1]] = "none"
      BY <2>1, <2>3, CallMoves
    <2>4. CASE RecordInbound(d) /\ row[d[1]] = "none"
      BY <2>1, <2>4, CallMoves
    <2> QED
      BY <2>2, <2>3, <2>4, CallMoves
  <1>6. EnqueuedIsBorn'
    <2> SUFFICES ASSUME NEW c \in Calls, call'[c] = "enqueued" PROVE Born(c[1])'
      BY DEF EnqueuedIsBorn
    <2>1. c[1] \in Msgs
      BY DEF Calls
    <2>2. CASE call[c] = "enqueued"
      BY <2>1, <2>2, BornStays DEF JobsAreBorn, EnqueuedIsBorn
    <2> QED
      BY <2>2, CallMoves, EnqueueIsBirth
  <1>7. UnknownIsUnhandled'
    <2> SUFFICES ASSUME NEW m \in Msgs, row'[m] = "none" PROVE effects'[m] = 0
      BY DEF UnknownIsUnhandled
    <2>1. row[m] = "none" /\ effects[m] = 0
      BY RowMoves DEF JobsAreBorn, UnknownIsUnhandled
    <2>2. worker.pc # "idle" => worker.job.msg # m
      BY <2>1 DEF JobsAreBorn, Born, Everywhere, InFlight, Held
    <2>3. effects \in [Msgs -> Nat]
      BY DEF IngestType
    <2> QED
      BY <2>1, <2>2, <2>3, EffectMoves
  <1>8. DoneIsHandled'
    <2> SUFFICES ASSUME worker'.pc = "done" PROVE effects'[worker'.job.msg] > 0
      BY DEF DoneIsHandled
    <2>1. effects \in [Msgs -> Nat]
      BY DEF IngestType
    <2>2. CASE HandlersSucceed
      <3>1. worker'.job = worker.job /\ worker.job \in Job
        BY <2>2, GoOnEffect DEF HandlersSucceed, At, IngestType
      <3>2. effects' = [effects EXCEPT ![worker.job.msg] = @ + 1] /\ worker.job.msg \in Msgs
        BY <2>2, <3>1 DEF HandlersSucceed, Job
      <3>3. effects[worker.job.msg] \in Nat
        BY <2>1, <3>2
      <3>4. effects'[worker.job.msg] = effects[worker.job.msg] + 1
        BY <2>1, <3>2
      <3> QED
        BY <3>1, <3>3, <3>4
    <2>3. CASE worker' = worker /\ ~HandlersSucceed
      BY <2>3, EffectMoves DEF JobsAreBorn, DoneIsHandled
    <2> QED
      BY <2>2, <2>3, DoneMoves
  <1> QED
    BY <1>2, <1>3, <1>4, <1>5, <1>6, <1>7, <1>8 DEF JobsAreBorn

-----------------------------------------------------------------------------
(* Every run of the handlers is paid for *)

\* Finite sets that lose and gain a member.
LEMMA CardinalityFacts ==
    ASSUME NEW S, NEW T, IsFiniteSet(S), NEW a, NEW b
    PROVE  /\ Cardinality(S) \in Nat
           /\ T \subseteq S => Cardinality(T) \in Nat /\ Cardinality(T) <= Cardinality(S)
           /\ T \subseteq S \cup {b} =>
                  Cardinality(T) \in Nat /\ Cardinality(T) <= Cardinality(S) + 1
           /\ a \in S /\ T \subseteq S \ {a} =>
                  Cardinality(T) \in Nat /\ Cardinality(T) + 1 <= Cardinality(S)
           /\ a \in S /\ T \subseteq (S \ {a}) \cup {b} =>
                  Cardinality(T) \in Nat /\ Cardinality(T) <= Cardinality(S)
  <1>1. Cardinality(S) \in Nat
    BY FS_CardinalityType
  <1>2. ASSUME NEW R, IsFiniteSet(R), T \subseteq R
        PROVE  Cardinality(T) \in Nat /\ Cardinality(T) <= Cardinality(R)
    BY <1>2, FS_Subset, FS_CardinalityType
  <1>3. ASSUME NEW R, IsFiniteSet(R)
        PROVE  /\ IsFiniteSet(R \cup {b}) /\ Cardinality(R) \in Nat
               /\ Cardinality(R \cup {b}) \in Nat
               /\ Cardinality(R \cup {b}) <= Cardinality(R) + 1
    <2>1. Cardinality(R) \in Nat
      BY <1>3, FS_CardinalityType
    <2>2. /\ IsFiniteSet(R \cup {b})
          /\ \/ Cardinality(R \cup {b}) = Cardinality(R)
             \/ Cardinality(R \cup {b}) = Cardinality(R) + 1
      BY <1>3, FS_AddElement
    <2> QED
      BY <2>1, <2>2
  <1>4. ASSUME a \in S
        PROVE  IsFiniteSet(S \ {a}) /\ Cardinality(S \ {a}) = Cardinality(S) - 1
    BY <1>4, FS_RemoveElement
  <1>5. ASSUME T \subseteq S \cup {b}
        PROVE  Cardinality(T) \in Nat /\ Cardinality(T) <= Cardinality(S) + 1
    <2>1. /\ IsFiniteSet(S \cup {b}) /\ Cardinality(S \cup {b}) \in Nat
          /\ Cardinality(S \cup {b}) <= Cardinality(S) + 1
      BY <1>3
    <2>2. Cardinality(T) \in Nat /\ Cardinality(T) <= Cardinality(S \cup {b})
      BY <1>2, <1>5, <2>1
    <2> QED
      BY <1>1, <2>1, <2>2
  <1>6. ASSUME a \in S, T \subseteq S \ {a}
        PROVE  Cardinality(T) \in Nat /\ Cardinality(T) + 1 <= Cardinality(S)
    <2>1. IsFiniteSet(S \ {a}) /\ Cardinality(S \ {a}) = Cardinality(S) - 1
      BY <1>4, <1>6
    <2>2. Cardinality(T) \in Nat /\ Cardinality(T) <= Cardinality(S \ {a})
      BY <1>2, <1>6, <2>1
    <2> QED
      BY <1>1, <2>1, <2>2
  <1>7. ASSUME a \in S, T \subseteq (S \ {a}) \cup {b}
        PROVE  Cardinality(T) \in Nat /\ Cardinality(T) <= Cardinality(S)
    <2>1. IsFiniteSet(S \ {a}) /\ Cardinality(S \ {a}) = Cardinality(S) - 1
      BY <1>4, <1>7
    <2>2. /\ IsFiniteSet((S \ {a}) \cup {b}) /\ Cardinality((S \ {a}) \cup {b}) \in Nat
          /\ Cardinality((S \ {a}) \cup {b}) <= Cardinality(S \ {a}) + 1
      BY <1>3, <2>1
    <2>3. Cardinality(T) \in Nat /\ Cardinality(T) <= Cardinality((S \ {a}) \cup {b})
      BY <1>2, <1>7, <2>2
    <2> QED
      BY <1>1, <2>1, <2>2, <2>3
  <1> QED
    BY <1>1, <1>2, <1>5, <1>6, <1>7

\* The tokens of a message are finitely many.
LEMMA TokensFinite ==
    ASSUME IngestType, Numbered, NEW m
    PROVE  IsFiniteSet(Tokens(m))
  <1>1. serial \in Nat
    BY DEF IngestType
  <1>2. CanRun \subseteq Everywhere
    BY DEF CanRun, Everywhere, InFlight, Recoverable, Parked, Retired, Running, Busy, Held
  <1>3. ASSUME NEW job \in Everywhere PROVE job.n \in 0 .. serial - 1
    <2>1. job \in Job
      BY DEF Everywhere, InFlight, Queued, Held, Retired, Copied, IngestType, ToolState
    <2>2. job.n < serial
      BY DEF Numbered
    <2>3. job.n \in Nat
      BY <2>1 DEF Job
    <2> QED
      BY <1>1, <2>2, <2>3
  <1>4. Tokens(m) \subseteq 0 .. serial - 1
    BY <1>2, <1>3 DEF Tokens
  <1>5. IsFiniteSet(0 .. serial - 1)
    BY <1>1, FS_Interval
  <1> QED
    BY <1>4, <1>5, FS_Subset

\* Faults are only counted up, and by the steps that are faults.
LEMMA FaultsGrow ==
    ASSUME IngestType, Next
    PROVE  /\ \A p \in {"api", "redis", "worker", "tool"} :
                  /\ faults[p] \in Nat /\ faults'[p] \in Nat /\ faults'[p] >= faults[p]
           /\ JobTimesOut \/ WorkerDies => faults'["worker"] >= faults["worker"] + 1
           /\ ReplayDies => faults'["tool"] >= faults["tool"] + 1
           /\ ParkRefused => faults'["redis"] > 0
           /\ \A c \in Calls : CallLost(c) => faults'["api"] > 0
  <1> DEFINE Processes == {"api", "redis", "worker", "tool"}
  <1>1. \A p \in Processes : faults[p] \in Nat
    BY DEF IngestType
  <1>2. ASSUME NEW p \in Processes, Fault(p)
        PROVE  /\ \A k \in Processes : faults'[k] \in Nat /\ faults'[k] >= faults[k]
               /\ faults'[p] = faults[p] + 1 /\ faults'[p] > 0
    <2>1. faults' = [faults EXCEPT ![p] = faults[p] + 1]
          /\ faults \in [Processes -> Nat]
      BY <1>2, FaultTypes DEF IngestType
    <2>2. faults'[p] = faults[p] + 1 /\ \A k \in Processes \ {p} : faults'[k] = faults[k]
      BY <2>1
    <2> QED
      BY <1>1, <2>2
  <1>3. UNCHANGED faults \/ \E p \in Processes : Fault(p)
    <2>1. CASE \E c \in Calls : RecordInbound(c) \/ Answer(c) \/ CallLost(c)
      BY <2>1 DEF RecordInbound, Answer, EnqueueJob, MarkQueued, CallLost
    <2>2. CASE Work \/ JobTimesOut \/ WorkerDies
      BY <2>2 DEF Work, TakeJob, StartProcessing, HandlersSucceed, HandlersFail, MarkFailed,
         MarkProcessed, ScheduleRetry, ParkJob, ParkRefused, MarkDead, JobTimesOut, WorkerDies
    <2>3. CASE RetryDue \/ Recover \/ Orphan \/ ReplayStart \/ Replay \/ ReplayDies \/ Purge
      BY <2>3 DEF RetryDue, Recover, Orphan, ReplayStart, Replay, ReplayCopy, ReplayDelete,
         ReplayEnd, ReplayDies, Purge
    <2> QED
      BY <2>1, <2>2, <2>3 DEF Next
  <1>4. \A p \in Processes : faults'[p] \in Nat /\ faults'[p] >= faults[p]
    BY <1>1, <1>2, <1>3
  <1>5. JobTimesOut \/ WorkerDies => faults'["worker"] >= faults["worker"] + 1
    BY <1>1, <1>2 DEF JobTimesOut, WorkerDies
  <1>6. ReplayDies => faults'["tool"] >= faults["tool"] + 1
    BY <1>1, <1>2 DEF ReplayDies
  <1>7. ParkRefused => faults'["redis"] > 0
    BY <1>2 DEF ParkRefused
  <1>8. \A c \in Calls : CallLost(c) => faults'["api"] > 0
    BY <1>2 DEF CallLost
  <1> QED
    BY <1>1, <1>4, <1>5, <1>6, <1>7, <1>8

\* Jobs that can run handlers after a step and could before it.
LEMMA TokensShrink ==
    ASSUME \A job \in CanRun' : \E old \in CanRun : job.n = old.n /\ job.msg = old.msg, NEW m
    PROVE  Tokens(m)' \subseteq Tokens(m)
  BY DEF Tokens

\* The worker passes its job on; the handlers run to the end in HandlersSucceed only.
LEMMA WorkerTokens ==
    ASSUME IngestType, OnePlace, NEW m,
           Work /\ ~HandlersSucceed
    PROVE  Tokens(m)' \subseteq Tokens(m)
  <1>1. CASE TakeJob
    <2>1. /\ Queued = Queued' \cup {worker'.job} /\ Busy' = {worker'.job}
          /\ UNCHANGED <<scheduled, dlq, abandoned, tool>>
      BY <1>1, TakeEffect
    <2>2. Recoverable' = Recoverable /\ Parked' = Parked /\ Running' \subseteq {worker'.job}
      BY <2>1 DEF Recoverable, Parked, Copied, Running
    <2>3. CanRun' \subseteq CanRun
      BY <2>1, <2>2 DEF CanRun
    <2> QED
      BY <2>3, TokensShrink
  <1>2. CASE StartProcessing \/ HandlersFail \/ MarkFailed
    <2>1. /\ UNCHANGED <<queue, scheduled, dlq, abandoned, tool>> /\ Busy' = Busy
      BY <1>2, GoOnEffect
    <2>2. worker.pc # "done"
      BY <1>2 DEF StartProcessing, HandlersFail, MarkFailed, At
    <2>3. /\ Queued' = Queued /\ Recoverable' = Recoverable /\ Parked' = Parked
          /\ Running' \subseteq Running
      BY <2>1, <2>2 DEF Queued, Recoverable, Parked, Copied, Running
    <2>4. CanRun' \subseteq CanRun
      BY <2>1, <2>3 DEF CanRun
    <2> QED
      BY <2>4, TokensShrink
  <1>3. CASE MarkProcessed \/ ParkRefused \/ MarkDead
    <2>1. /\ UNCHANGED <<queue, scheduled, dlq, abandoned, tool>> /\ Busy' = {}
      <3>1. CASE MarkProcessed \/ ParkRefused
        BY <3>1, LetGoEffect
      <3>2. CASE MarkDead
        BY <3>2, MarkDeadEffect
      <3> QED
        BY <1>3, <3>1, <3>2
    <2>2. /\ Queued' = Queued /\ Recoverable' = Recoverable /\ Parked' = Parked /\ Running' = {}
      BY <2>1 DEF Queued, Recoverable, Parked, Copied, Running
    <2>3. CanRun' \subseteq CanRun
      BY <2>1, <2>2 DEF CanRun
    <2> QED
      BY <2>3, TokensShrink
  <1>4. CASE ScheduleRetry \/ ParkJob
    <2>1. /\ Busy = {worker.job} /\ Busy' = {} /\ UNCHANGED <<queue, abandoned, tool>>
          /\ worker.pc = "raised"
      BY <1>4, LetGoEffect DEF ScheduleRetry, ParkJob, At
    <2>2. PICK job : /\ job.n = worker.job.n /\ job.msg = worker.job.msg
                     /\ scheduled' \subseteq scheduled \cup {job} /\ dlq' \subseteq dlq \cup {job}
      <3>1. worker.job \in Job
        BY <2>1 DEF IngestType
      <3> DEFINE retry == [worker.job EXCEPT !.left = @ - 1]
                 dead  == [worker.job EXCEPT !.budget = "text"]
      <3>2. /\ retry.n = worker.job.n /\ retry.msg = worker.job.msg
            /\ dead.n = worker.job.n /\ dead.msg = worker.job.msg
        BY <3>1 DEF Job
      <3>3. CASE ScheduleRetry
        <4>1. scheduled' = scheduled \cup {retry} /\ dlq' = dlq
          BY <3>3 DEF ScheduleRetry
        <4> QED
          BY <3>2, <4>1
      <3>4. CASE ParkJob
        <4>1. dlq' = dlq \cup {dead} /\ scheduled' = scheduled
          BY <3>4 DEF ParkJob
        <4> QED
          BY <3>2, <4>1
      <3> QED
        BY <1>4, <3>3, <3>4
    <2>3. /\ Queued' = Queued /\ Recoverable' = Recoverable /\ Running = {worker.job}
          /\ Running' = {} /\ Parked' \subseteq Parked \cup {job}
      BY <2>1, <2>2 DEF Queued, Recoverable, Parked, Copied, Running
    <2>4. CanRun' \subseteq CanRun \cup {job} /\ worker.job \in CanRun
      BY <2>2, <2>3 DEF CanRun
    <2>5. \A x \in CanRun' : \E old \in CanRun : x.n = old.n /\ x.msg = old.msg
      BY <2>2, <2>4
    <2> QED
      BY <2>5, TokensShrink
  <1> QED
    BY <1>1, <1>2, <1>3, <1>4 DEF Work

\* A step that touches no job, one that puts a job back, and the replay tool but for its
\* copies and its death.
LEMMA QuietTokens ==
    ASSUME IngestType, OnePlace, NEW m,
           \/ \E c \in Calls : RecordInbound(c) \/ MarkQueued(c) \/ CallLost(c)
           \/ RetryDue \/ Recover \/ Orphan
           \/ ReplayStart \/ ReplayDelete \/ ReplayEnd \/ Purge
    PROVE  Tokens(m)' \subseteq Tokens(m)
  <1>1. CASE \E c \in Calls : RecordInbound(c) \/ MarkQueued(c) \/ CallLost(c)
    <2>1. UNCHANGED <<queue, scheduled, dlq, abandoned, worker, tool>>
      BY <1>1, CallEffect
    <2>2. CanRun' = CanRun
      BY <2>1 DEF CanRun, Queued, Recoverable, Parked, Copied, Running, Busy
    <2> QED
      BY <2>2, TokensShrink
  <1>2. CASE RetryDue \/ Recover
    <2>1. PICK old \in Job, job \in Job :
              /\ job.n = old.n /\ job.msg = old.msg /\ Queued' = Queued \cup {job}
              /\ old \in scheduled \cup Recoverable
              /\ scheduled' \subseteq scheduled /\ abandoned' \subseteq abandoned
              /\ UNCHANGED <<dlq, worker, tool>>
      BY <1>2, RequeueEffect
    <2>2. /\ Recoverable' \subseteq Recoverable /\ Parked' = Parked /\ Running' = Running
      BY <2>1 DEF Recoverable, Parked, Copied, Running, Busy
    <2>3. CanRun' \subseteq CanRun \cup {job} /\ old \in CanRun
      BY <2>1, <2>2 DEF CanRun
    <2>4. \A x \in CanRun' : \E o \in CanRun : x.n = o.n /\ x.msg = o.msg
      BY <2>1, <2>3
    <2> QED
      BY <2>4, TokensShrink
  <1>3. CASE ReplayStart \/ ReplayDelete \/ ReplayEnd \/ Purge
    <2>1. UNCHANGED <<queue, scheduled, abandoned, worker>>
      BY <1>3, ToolEffect
    <2>2. tool \in ToolState
      BY DEF IngestType
    <2>3. Parked' \subseteq Parked
      <3>1. CASE ReplayStart
        BY <2>2, <3>1 DEF ReplayStart, redis, ToolState, Parked, Copied
      <3>2. CASE ReplayDelete
        <4>1. /\ tool.pc = "copied" /\ tool'.pc = "next" /\ tool'.todo = tool.todo
              /\ dlq' = dlq \ {tool.job}
          BY <2>2, <3>2 DEF ReplayDelete, ToolState
        <4>2. tool.job \notin tool.todo
          BY <4>1 DEF OnePlace
        <4> QED
          BY <4>1, <4>2 DEF Parked, Copied
      <3>3. CASE ReplayEnd
        <4>1. tool.pc = "next" /\ tool'.pc = "off" /\ tool'.todo = {} /\ dlq' = dlq
          BY <2>2, <3>3 DEF ReplayEnd, ReplayOff, redis, ToolState
        <4> QED
          BY <4>1 DEF Parked, Copied
      <3>4. CASE Purge
        BY <3>4 DEF Purge, Parked, Copied
      <3> QED
        BY <1>3, <3>1, <3>2, <3>3, <3>4
    <2>4. CanRun' \subseteq CanRun
      BY <2>1, <2>3 DEF CanRun, Queued, Recoverable, Running, Busy
    <2> QED
      BY <2>4, TokensShrink
  <1>4. CASE Orphan
    <2>1. CanRun' = CanRun
      BY <1>4, OrphanEffect DEF CanRun, Parked, Running
    <2> QED
      BY <2>1, TokensShrink
  <1> QED
    BY <1>1, <1>2, <1>3, <1>4

\* A fault may bring one job back that was spent.
LEMMA FaultTokens ==
    ASSUME IngestType, JobTimesOut \/ WorkerDies \/ ReplayDies
    PROVE  \E x : \A m : Tokens(m)' \subseteq Tokens(m) \cup {x}
  <1>1. ASSUME NEW job, CanRun' \subseteq CanRun \cup {job}
        PROVE  \E x : \A m : Tokens(m)' \subseteq Tokens(m) \cup {x}
    <2>1. \A m : Tokens(m)' \subseteq Tokens(m) \cup {job.n}
      BY <1>1 DEF Tokens
    <2> QED
      BY <2>1
  <1>2. CASE JobTimesOut
    <2>1. /\ UNCHANGED <<queue, scheduled, dlq, abandoned, tool>> /\ Busy' = {worker.job}
      BY <1>2, GoOnEffect
    <2>2. Running' \subseteq {worker.job}
      BY <2>1 DEF Running
    <2>3. CanRun' \subseteq CanRun \cup {worker.job}
      BY <2>1, <2>2 DEF CanRun, Queued, Recoverable, Parked, Copied
    <2> QED
      BY <1>1, <2>3
  <1>3. CASE WorkerDies
    <2>1. /\ UNCHANGED <<queue, scheduled, dlq, tool>> /\ Busy' = {}
          /\ abandoned' = abandoned \cup {worker.job}
      BY <1>3, DieEffect
    <2>2. Running' = {} /\ Recoverable' \subseteq Recoverable \cup {worker.job}
      BY <2>1 DEF Running, Recoverable
    <2>3. CanRun' \subseteq CanRun \cup {worker.job}
      BY <2>1, <2>2 DEF CanRun, Queued, Parked, Copied
    <2> QED
      BY <1>1, <2>3
  <1>4. CASE ReplayDies
    <2>1. UNCHANGED <<queue, scheduled, dlq, abandoned, worker>>
      BY <1>4 DEF ReplayDies, redis
    <2>2. tool'.pc = "off" /\ tool'.todo = {}
      BY <1>4 DEF ReplayDies, ReplayOff, IngestType, ToolState
    <2>3. Parked' \subseteq Parked \cup {tool.job}
      BY <2>1, <2>2 DEF Parked, Copied
    <2>4. CanRun' \subseteq CanRun \cup {tool.job}
      BY <2>1, <2>3 DEF CanRun, Queued, Recoverable, Running, Busy
    <2> QED
      BY <1>1, <2>4
  <1> QED
    BY <1>2, <1>3, <1>4

\* The handlers that ran spend the token of the worker's job.
LEMMA RunTokens ==
    ASSUME IngestType, OnePlace, HandlersSucceed, NEW m
    PROVE  /\ Tokens(m)' \subseteq Tokens(m)
           /\ m = worker.job.msg => /\ worker.job.n \in Tokens(m)
                                    /\ Tokens(m)' \subseteq Tokens(m) \ {worker.job.n}
  <1>1. /\ UNCHANGED <<queue, scheduled, dlq, abandoned, tool>>
        /\ Busy = {worker.job}
    BY GoOnEffect
  <1>2. worker.pc = "running" /\ worker'.pc = "done"
    BY BecomeTypes DEF HandlersSucceed, At
  <1>3. /\ Queued' = Queued /\ Recoverable' = Recoverable /\ Parked' = Parked
        /\ Running = {worker.job} /\ Running' = {} /\ Parked \subseteq Retired
    BY <1>1, <1>2 DEF Queued, Recoverable, Parked, Copied, Running, Retired
  <1>4. CanRun' \subseteq CanRun /\ worker.job \in CanRun
        /\ CanRun' \subseteq Queued \cup scheduled \cup Recoverable \cup Retired
    BY <1>1, <1>3 DEF CanRun
  <1>5. \A x \in Queued \cup scheduled \cup Recoverable \cup Retired : x.n # worker.job.n
    BY <1>1, PlacesFacts DEF OnePlace, Alone
  <1>6. Tokens(m)' \subseteq Tokens(m)
    BY <1>4 DEF Tokens
  <1>7. m = worker.job.msg => worker.job.n \in Tokens(m)
    BY <1>4 DEF Tokens
  <1>8. \A x \in CanRun' : x.n # worker.job.n
    BY <1>4, <1>5
  <1>9. worker.job.n \notin Tokens(m)'
    BY <1>8 DEF Tokens
  <1> QED
    BY <1>6, <1>7, <1>9

\* A copy takes the token of the dead-letter job over.
LEMMA CopyTokens ==
    ASSUME IngestType, OnePlace, ReplayCopy, NEW m
    PROVE  \/ Tokens(m)' \subseteq Tokens(m)
           \/ \E x \in Tokens(m) : Tokens(m)' \subseteq (Tokens(m) \ {x}) \cup {serial}
  <1>1. PICK old \in Job, job \in Job :
            /\ old \in tool.todo /\ job.msg = old.msg /\ job.n = serial
            /\ Queued' = Queued \cup {job} /\ tool'.todo = tool.todo \ {old}
            /\ Copied = {} /\ Copied' = {old}
            /\ UNCHANGED <<scheduled, dlq, abandoned, worker>>
    BY CopyEffect
  <1>2. /\ Recoverable' = Recoverable /\ Running' = Running /\ Parked' = Parked \ {old}
        /\ old \in Parked /\ Parked \subseteq Retired /\ Running \subseteq Busy
    BY <1>1 DEF Recoverable, Running, Busy, Parked, Retired
  <1>3. ASSUME NEW x \in CanRun', x # job PROVE x \in CanRun /\ x.n # old.n
    <2>1. /\ x \in Queued \cup scheduled \cup Recoverable \cup Running \/ x \in Parked \ {old}
          /\ x \in CanRun
      BY <1>1, <1>2, <1>3 DEF CanRun
    <2>2. x \in Queued \cup scheduled \cup Recoverable \cup Busy => x.n # old.n
      BY <1>2, PlacesFacts DEF OnePlace, Alone
    <2>3. x \in Retired \ {old} => x.n # old.n
      BY <1>2, PlacesFacts DEF OnePlace, Alone
    <2> QED
      BY <1>2, <2>1, <2>2, <2>3
  <1>4. CASE m = old.msg
    <2>1. old.n \in Tokens(m)
      BY <1>2, <1>4 DEF CanRun, Tokens
    <2>2. Tokens(m)' \subseteq (Tokens(m) \ {old.n}) \cup {serial}
      BY <1>1, <1>3 DEF Tokens
    <2> QED
      BY <2>1, <2>2
  <1>5. CASE m # old.msg
    BY <1>1, <1>3, <1>5 DEF Tokens
  <1> QED
    BY <1>4, <1>5

\* An enqueue makes one token, for a message that becomes born by it.
LEMMA EnqueueTokens ==
    ASSUME IngestType, NEW c \in Calls, EnqueueJob(c)
    PROVE  \E x : \A m : Tokens(m)' \subseteq IF m = c[1] THEN Tokens(m) \cup {x} ELSE Tokens(m)
  <1>1. PICK job \in Job : /\ job.msg = c[1] /\ Queued' = Queued \cup {job}
                           /\ UNCHANGED <<scheduled, dlq, abandoned, worker, tool>>
    BY EnqueueEffect
  <1>2. CanRun' \subseteq CanRun \cup {job}
    BY <1>1 DEF CanRun, Recoverable, Parked, Copied, Running, Busy
  <1>3. \A m : Tokens(m)' \subseteq IF m = c[1] THEN Tokens(m) \cup {job.n} ELSE Tokens(m)
    BY <1>1, <1>2 DEF Tokens
  <1> QED
    BY <1>3

\* A step does not cost more than the faults it adds.
LEMMA CostMoves ==
    ASSUME IngestType, OnePlace, Numbered, JobsAreBorn, Next, NEW m \in Msgs
    PROVE  /\ Cost(m) \in Int /\ Cost(m)' \in Int
           /\ Cost(m)' <= Cost(m) \/ (/\ Cost(m)' <= Cost(m) + 1
                                      /\ JobTimesOut \/ WorkerDies \/ ReplayDies)
  <1>1. IsFiniteSet(Tokens(m))
    BY TokensFinite
  <1>2. /\ Fresh(m) \in {0, 1} /\ Fresh(m)' \in {0, 1} /\ Fresh(m)' <= Fresh(m)
    <2>1. Born(m) => Born(m)'
      BY BornStays
    <2> QED
      BY <2>1 DEF Fresh
  <1>3. effects[m] \in Nat
    BY DEF IngestType
  <1>4. Cardinality(Tokens(m)) \in Nat
    BY <1>1, FS_CardinalityType
  <1>5. ASSUME effects' = effects, Tokens(m)' \subseteq Tokens(m)
        PROVE  Cost(m) \in Int /\ Cost(m)' \in Int /\ Cost(m)' <= Cost(m)
    <2>1. Cardinality(Tokens(m)') \in Nat /\ Cardinality(Tokens(m)') <= Cardinality(Tokens(m))
      BY <1>1, <1>5, CardinalityFacts
    <2> QED
      BY <1>2, <1>3, <1>4, <1>5, <2>1 DEF Cost
  <1>6. ~HandlersSucceed => effects' = effects
    BY EffectMoves
  <1>7. CASE Work /\ ~HandlersSucceed
    BY <1>5, <1>6, <1>7, WorkerTokens
  <1>8. CASE /\ ~HandlersSucceed
             /\ \/ \E c \in Calls : RecordInbound(c) \/ MarkQueued(c) \/ CallLost(c)
                \/ RetryDue \/ Recover \/ Orphan
                \/ ReplayStart \/ ReplayDelete \/ ReplayEnd \/ Purge
    BY <1>5, <1>6, <1>8, QuietTokens
  <1>9. CASE ~HandlersSucceed /\ (JobTimesOut \/ WorkerDies \/ ReplayDies)
    <2>1. PICK x : Tokens(m)' \subseteq Tokens(m) \cup {x}
      BY <1>9, FaultTokens
    <2>2. /\ Cardinality(Tokens(m)') \in Nat
          /\ Cardinality(Tokens(m)') <= Cardinality(Tokens(m)) + 1
      BY <1>1, <2>1, CardinalityFacts
    <2>3. Cost(m) \in Int /\ Cost(m)' \in Int /\ Cost(m)' <= Cost(m) + 1
      BY <1>2, <1>3, <1>4, <1>6, <1>9, <2>2 DEF Cost
    <2> QED
      BY <1>9, <2>3
  <1>10. CASE HandlersSucceed
    <2>1. worker.job.msg \in Msgs /\ effects \in [Msgs -> Nat]
          /\ effects' = [effects EXCEPT ![worker.job.msg] = @ + 1]
      <3>1. worker.job \in Job
        BY <1>10 DEF HandlersSucceed, At, IngestType
      <3> QED
        BY <1>10, <3>1 DEF HandlersSucceed, Job, IngestType
    <2>2. CASE m = worker.job.msg
      <3>1. effects'[m] = effects[m] + 1
        BY <2>1, <2>2
      <3>2. worker.job.n \in Tokens(m) /\ Tokens(m)' \subseteq Tokens(m) \ {worker.job.n}
        BY <1>10, <2>2, RunTokens
      <3>3. /\ Cardinality(Tokens(m)') \in Nat
            /\ Cardinality(Tokens(m)') + 1 <= Cardinality(Tokens(m))
        BY <1>1, <3>2, CardinalityFacts
      <3> QED
        BY <1>2, <1>3, <1>4, <3>1, <3>3 DEF Cost
    <2>3. CASE m # worker.job.msg
      <3>1. effects'[m] = effects[m]
        BY <2>1, <2>3
      <3>2. Tokens(m)' \subseteq Tokens(m)
        BY <1>10, RunTokens
      <3>3. Cardinality(Tokens(m)') \in Nat /\ Cardinality(Tokens(m)') <= Cardinality(Tokens(m))
        BY <1>1, <3>2, CardinalityFacts
      <3> QED
        BY <1>2, <1>3, <1>4, <3>1, <3>3 DEF Cost
    <2> QED
      BY <2>2, <2>3
  <1>11. CASE ~HandlersSucceed /\ ReplayCopy
    <2>1. \/ Tokens(m)' \subseteq Tokens(m)
          \/ \E x \in Tokens(m) : Tokens(m)' \subseteq (Tokens(m) \ {x}) \cup {serial}
      BY <1>11, CopyTokens
    <2>2. Cardinality(Tokens(m)') \in Nat /\ Cardinality(Tokens(m)') <= Cardinality(Tokens(m))
      BY <1>1, <2>1, CardinalityFacts
    <2> QED
      BY <1>2, <1>3, <1>4, <1>6, <1>11, <2>2 DEF Cost
  <1>12. CASE ~HandlersSucceed /\ \E c \in Calls : EnqueueJob(c)
    <2>1. PICK c \in Calls : EnqueueJob(c)
      BY <1>12
    <2>2. PICK x : Tokens(m)' \subseteq IF m = c[1] THEN Tokens(m) \cup {x} ELSE Tokens(m)
      BY <2>1, EnqueueTokens
    <2>3. CASE m = c[1]
      <3>1. ~Born(m) /\ Born(m)'
        BY <2>1, <2>3, CallMoves, EnqueueIsBirth DEF Born, Pending
      <3>2. Fresh(m) = 1 /\ Fresh(m)' = 0
        BY <3>1 DEF Fresh
      <3>3. /\ Cardinality(Tokens(m)') \in Nat
            /\ Cardinality(Tokens(m)') <= Cardinality(Tokens(m)) + 1
        BY <1>1, <2>2, <2>3, CardinalityFacts
      <3> QED
        BY <1>3, <1>4, <1>6, <1>12, <3>2, <3>3 DEF Cost
    <2>4. CASE m # c[1]
      BY <1>5, <1>6, <1>12, <2>2, <2>4
    <2> QED
      BY <2>3, <2>4
  <1> QED
    BY <1>7, <1>8, <1>9, <1>10, <1>11, <1>12 DEF Next, Answer, Replay

\* Every step keeps the effects of a message paid by its call and its faults.
LEMMA RunsArePaidNext ==
    ASSUME IngestType, OnePlace, Numbered, JobsAreBorn, RunsArePaid, Next
    PROVE  RunsArePaid'
  <1> SUFFICES ASSUME NEW m \in Msgs PROVE Cost(m)' <= 1 + faults'["worker"] + faults'["tool"]
    BY DEF RunsArePaid
  <1>1. /\ faults["worker"] \in Nat /\ faults'["worker"] \in Nat
        /\ faults["tool"] \in Nat /\ faults'["tool"] \in Nat
        /\ faults'["worker"] >= faults["worker"] /\ faults'["tool"] >= faults["tool"]
    BY FaultsGrow
  <1>2. JobTimesOut \/ WorkerDies \/ ReplayDies =>
            \/ faults'["worker"] >= faults["worker"] + 1
            \/ faults'["tool"] >= faults["tool"] + 1
    BY FaultsGrow
  <1>3. Cost(m) <= 1 + faults["worker"] + faults["tool"]
    BY DEF RunsArePaid
  <1>4. /\ Cost(m) \in Int /\ Cost(m)' \in Int
        /\ Cost(m)' <= Cost(m) \/ (/\ Cost(m)' <= Cost(m) + 1
                                   /\ JobTimesOut \/ WorkerDies \/ ReplayDies)
    BY CostMoves
  <1> QED
    BY <1>1, <1>2, <1>3, <1>4

-----------------------------------------------------------------------------
(* Handled messages read as handled *)

\* Marks other than the last one come from a worker that has not run its handlers, or has
\* parked the job.
LEMMA MarkMoves ==
    ASSUME IngestType, Next, NEW m \in Msgs, row[m] # "none"
    PROVE  \/ row'[m] = row[m]
           \/ row'[m] \in {"queued", "processed"}
           \/ worker.pc \in {"taken", "failing", "parked"} /\ worker.job.msg = m
  <1>1. row \in [Msgs -> RowStatus]
    BY DEF IngestType
  <1>2. CASE \E c \in Calls : RecordInbound(c) \/ Answer(c) \/ CallLost(c)
    <2>1. PICK c \in Calls : RecordInbound(c) \/ Answer(c) \/ CallLost(c)
      BY <1>2
    <2>2. c[1] \in Msgs
      BY DEF Calls
    <2> QED
      BY <1>1, <2>1, <2>2
      DEF RecordInbound, Answer, EnqueueJob, MarkQueued, MarkStatus, Mark, CallLost
  <1>3. CASE StartProcessing \/ MarkFailed \/ MarkDead
    <2>1. worker.pc \in {"taken", "failing", "parked"}
      BY <1>3 DEF StartProcessing, MarkFailed, MarkDead, At
    <2>2. PICK status \in RowStatus : MarkStatus(worker.job.msg, status)
      BY <1>3 DEF StartProcessing, MarkFailed, MarkDead, RowStatus
    <2> QED
      BY <1>1, <2>1, <2>2 DEF MarkStatus, Mark
  <1>4. CASE MarkProcessed
    BY <1>1, <1>4 DEF MarkProcessed, MarkStatus, Mark
  <1>5. CASE \/ TakeJob \/ HandlersSucceed \/ HandlersFail \/ ScheduleRetry \/ ParkJob
             \/ ParkRefused \/ JobTimesOut \/ WorkerDies
    BY <1>5 DEF TakeJob, HandlersSucceed, HandlersFail, ScheduleRetry, ParkJob,
                ParkRefused, JobTimesOut, WorkerDies
  <1>6. CASE RetryDue \/ Recover \/ Orphan \/ ReplayStart \/ Replay \/ ReplayDies \/ Purge
    BY <1>6 DEF RetryDue, Recover, Orphan, ReplayStart, Replay, ReplayCopy, ReplayDelete,
         ReplayEnd, ReplayDies, Purge
  <1> QED
    BY <1>2, <1>3, <1>4, <1>5, <1>6 DEF Next, Work

\* A parked job was raised; a worker that is done marks the row, unless it fails.
LEMMA WorkerMoves ==
    ASSUME IngestType, Next
    PROVE  /\ worker'.pc = "parked" =>
                 \/ worker' = worker
                 \/ worker.pc = "raised" /\ worker'.job = worker.job /\ (ParkJob \/ ParkRefused)
           /\ worker.pc = "done" =>
                 worker' = worker \/ MarkProcessed \/ JobTimesOut \/ WorkerDies
  <1>1. CASE worker' = worker
    BY <1>1
  <1>2. CASE \E c \in Calls : RecordInbound(c) \/ Answer(c) \/ CallLost(c)
    BY <1>1, <1>2 DEF RecordInbound, Answer, EnqueueJob, MarkQueued, CallLost
  <1>3. CASE TakeJob
    <2>1. worker.pc = "idle" /\ worker'.pc = "taken"
      BY <1>3, TakeEffect DEF TakeJob, At
    <2> QED
      BY <2>1
  <1>4. CASE StartProcessing \/ HandlersSucceed \/ HandlersFail \/ MarkFailed \/ JobTimesOut
    <2>1. worker'.pc # "parked"
      BY <1>4, GoOnEffect DEF Busy
    <2>2. worker.pc = "done" => JobTimesOut
      BY <1>4 DEF StartProcessing, HandlersSucceed, HandlersFail, MarkFailed, At
    <2> QED
      BY <2>1, <2>2
  <1>5. CASE MarkProcessed \/ ScheduleRetry \/ MarkDead \/ WorkerDies
    BY <1>5 DEF MarkProcessed, ScheduleRetry, MarkDead, WorkerDies, WorkerIdle, At
  <1>6. CASE ParkJob \/ ParkRefused
    <2>1. worker.pc = "raised" /\ Become("parked")
      BY <1>6 DEF ParkJob, ParkRefused, At
    <2>2. worker'.job = worker.job
      BY <2>1, BecomeTypes
    <2> QED
      BY <1>6, <2>1, <2>2
  <1>7. CASE RetryDue \/ Recover \/ Orphan \/ ReplayStart \/ Replay \/ ReplayDies \/ Purge
    BY <1>1, <1>7 DEF RetryDue, Recover, Orphan, ReplayStart, Replay, ReplayCopy, ReplayDelete,
         ReplayEnd, ReplayDies, Purge, redis
  <1> QED
    BY <1>2, <1>3, <1>4, <1>5, <1>6, <1>7 DEF Next, Work

\* Without a fault of the worker or the tool, a handled message has no token left.
LEMMA HandledIsSpent ==
    ASSUME IngestType, Numbered, RunsArePaid, faults["worker"] + faults["tool"] = 0,
           NEW m \in Msgs, effects[m] > 0
    PROVE  Tokens(m) = {} /\ ~(worker.pc \in {"taken", "running", "failing", "raised"}
                               /\ worker.job.msg = m)
  <1>1. effects[m] \in Nat /\ Fresh(m) \in {0, 1} /\ IsFiniteSet(Tokens(m))
    BY TokensFinite DEF Fresh, IngestType
  <1>2. Cardinality(Tokens(m)) \in Nat
    BY <1>1, FS_CardinalityType
  <1>3. faults["worker"] \in Nat /\ faults["tool"] \in Nat
    BY DEF IngestType
  <1>4. Cost(m) <= 1
    BY <1>3 DEF RunsArePaid
  <1>5. Cardinality(Tokens(m)) = 0
    BY <1>1, <1>2, <1>4 DEF Cost
  <1>6. Tokens(m) = {}
    BY <1>1, <1>5, FS_EmptySet
  <1>7. worker.pc \in {"taken", "running", "failing", "raised"} => worker.job \in CanRun
    BY DEF CanRun, Running, Busy
  <1> QED
    BY <1>6, <1>7 DEF Tokens

\* Every step keeps a handled message marked, unless a fault is to blame.
LEMMA HandledIsMarkedNext ==
    ASSUME IngestType, OnePlace, Numbered, JobsAreBorn, RunsArePaid, HandledIsMarked, Next
    PROVE  HandledIsMarked'
  <1> SUFFICES ASSUME faults'["worker"] + faults'["tool"] = 0, NEW m \in Msgs, effects'[m] > 0
               PROVE  /\ ~(worker'.pc = "parked" /\ worker'.job.msg = m)
                      /\ \/ worker'.pc = "done" /\ worker'.job.msg = m
                         \/ row'[m] \in {"processed", "queued"}
    BY DEF HandledIsMarked
  <1>1. /\ faults["worker"] + faults["tool"] = 0
        /\ ~JobTimesOut /\ ~WorkerDies /\ ~ReplayDies
    <2>1. /\ faults["worker"] \in Nat /\ faults'["worker"] \in Nat
          /\ faults["tool"] \in Nat /\ faults'["tool"] \in Nat
          /\ faults'["worker"] >= faults["worker"] /\ faults'["tool"] >= faults["tool"]
      BY FaultsGrow
    <2>2. JobTimesOut \/ WorkerDies => faults'["worker"] >= faults["worker"] + 1
      BY FaultsGrow
    <2>3. ReplayDies => faults'["tool"] >= faults["tool"] + 1
      BY FaultsGrow
    <2> QED
      BY <2>1, <2>2, <2>3
  <1>2. effects \in [Msgs -> Nat]
    BY DEF IngestType
  <1>3. CASE effects[m] > 0
    <2>1. /\ ~(worker.pc = "parked" /\ worker.job.msg = m)
          /\ \/ worker.pc = "done" /\ worker.job.msg = m
             \/ row[m] \in {"processed", "queued"}
      BY <1>1, <1>3 DEF HandledIsMarked
    <2>2. ~(worker.pc \in {"taken", "running", "failing", "raised"} /\ worker.job.msg = m)
      BY <1>1, <1>3, HandledIsSpent
    <2>3. ~(worker'.pc = "parked" /\ worker'.job.msg = m)
      BY <2>1, <2>2, WorkerMoves
    <2>4. row[m] # "none"
      BY <1>3 DEF JobsAreBorn, UnknownIsUnhandled
    <2>5. row'[m] = row[m] \/ row'[m] \in {"queued", "processed"}
      BY <2>1, <2>2, <2>4, MarkMoves
    <2>6. CASE worker.pc = "done" /\ worker.job.msg = m
      <3>1. CASE MarkProcessed
        <4>1. row \in [Msgs -> RowStatus]
          BY DEF IngestType
        <4>2. row'[m] = "processed"
          BY <2>4, <2>6, <3>1, <4>1 DEF MarkProcessed, MarkStatus, Mark
        <4> QED
          BY <2>3, <4>2
      <3>2. CASE worker' = worker
        BY <2>3, <2>6, <3>2
      <3> QED
        BY <1>1, <2>6, <3>1, <3>2, WorkerMoves
    <2> QED
      BY <2>1, <2>3, <2>5, <2>6
  <1>4. CASE ~(effects[m] > 0)
    <2>1. HandlersSucceed /\ worker.job.msg = m
      BY <1>2, <1>4, EffectMoves
    <2>2. worker'.pc = "done" /\ worker'.job = worker.job
      BY <2>1, BecomeTypes DEF HandlersSucceed, At
    <2> QED
      BY <2>1, <2>2
  <1> QED
    BY <1>3, <1>4

-----------------------------------------------------------------------------
(* What is lost shows in the ledger *)

\* What was handled stays handled.
LEMMA EffectsStay ==
    ASSUME IngestType, Next, NEW m \in Msgs, effects[m] > 0
    PROVE  effects'[m] > 0
  <1>1. effects \in [Msgs -> Nat]
    BY DEF IngestType
  <1>2. CASE effects' = effects
    BY <1>2
  <1>3. CASE worker.job \in Job /\ effects' = [effects EXCEPT ![worker.job.msg] = @ + 1]
    <2>1. effects[m] \in Nat /\ (effects'[m] = effects[m] \/ effects'[m] = effects[m] + 1)
      BY <1>1, <1>3
    <2> QED
      BY <2>1
  <1> QED
    BY <1>2, <1>3, EffectMoves

\* What was served stays served.
LEMMA ServedStays ==
    ASSUME IngestType, Next, NEW m \in Msgs, Served(m)
    PROVE  Served(m)'
  <1>1. effects[m] > 0 => effects'[m] > 0
    BY EffectsStay
  <1>2. purged \subseteq purged'
    <2>1. CASE \E c \in Calls : RecordInbound(c) \/ Answer(c) \/ CallLost(c)
      BY <2>1 DEF RecordInbound, Answer, EnqueueJob, MarkQueued, CallLost
    <2>2. CASE Work \/ JobTimesOut \/ WorkerDies
      BY <2>2 DEF Work, TakeJob, StartProcessing, HandlersSucceed, HandlersFail, MarkFailed,
         MarkProcessed, ScheduleRetry, ParkJob, ParkRefused, MarkDead, JobTimesOut, WorkerDies
    <2>3. CASE RetryDue \/ Recover \/ Orphan \/ ReplayStart \/ Replay \/ ReplayDies \/ Purge
      BY <2>3 DEF RetryDue, Recover, Orphan, ReplayStart, Replay, ReplayCopy, ReplayDelete,
         ReplayEnd, ReplayDies, Purge
    <2> QED
      BY <2>1, <2>2, <2>3 DEF Next
  <1> QED
    BY <1>1, <1>2 DEF Served

\* RQ's failed registry takes no message back.
LEMMA OrphansStay ==
    ASSUME Next
    PROVE  orphaned \subseteq orphaned'
  <1>1. CASE \E c \in Calls : RecordInbound(c) \/ Answer(c) \/ CallLost(c)
    BY <1>1 DEF RecordInbound, Answer, EnqueueJob, MarkQueued, CallLost, redis
  <1>2. CASE Work \/ JobTimesOut \/ WorkerDies
    BY <1>2 DEF Work, TakeJob, StartProcessing, HandlersSucceed, HandlersFail, MarkFailed,
       MarkProcessed, ScheduleRetry, ParkJob, ParkRefused, MarkDead, JobTimesOut, WorkerDies,
       redis
  <1>3. CASE RetryDue \/ Recover \/ Orphan \/ ReplayStart \/ Replay \/ ReplayDies \/ Purge
    BY <1>3 DEF RetryDue, Recover, Orphan, ReplayStart, Replay, ReplayCopy, ReplayDelete,
       ReplayEnd, ReplayDies, Purge, redis
  <1> QED
    BY <1>1, <1>2, <1>3 DEF Next

\* A job that stands for a message goes on standing for it, or passes it on to another.
LEMMA CoverPasses ==
    ASSUME \A job \in Standing : \E next \in Standing' : next.msg = job.msg,
           NEW m, \E job \in Standing : job.msg = m
    PROVE  Covered(m)'
  BY DEF Covered

\* The worker never leaves a message that is not finished without somebody to finish it.
LEMMA WorkerCovers ==
    ASSUME IngestType, OnePlace, JobsAreBorn, Next, Work \/ JobTimesOut \/ WorkerDies,
           ~ParkRefused, NEW m \in Msgs, \E job \in Standing : job.msg = m
    PROVE  Covered(m)'
  <1>1. CASE TakeJob
    <2>1. /\ Queued = Queued' \cup {worker'.job} /\ Busy = {} /\ Busy' = {worker'.job}
          /\ UNCHANGED <<scheduled, dlq, abandoned, tool>>
      BY <1>1, TakeEffect
    <2>2. Standing \subseteq Standing'
      BY <2>1 DEF Standing, Copied
    <2> QED
      BY <2>2, CoverPasses
  <1>2. CASE StartProcessing \/ HandlersSucceed \/ HandlersFail \/ MarkFailed \/ JobTimesOut
    <2>1. UNCHANGED <<queue, scheduled, dlq, abandoned, tool>> /\ Busy' = Busy
      BY <1>2, GoOnEffect
    <2>2. Standing' = Standing
      BY <2>1 DEF Standing, Queued, Copied
    <2> QED
      BY <2>2, CoverPasses
  <1>3. CASE MarkProcessed
    <2>1. /\ UNCHANGED <<queue, scheduled, dlq, abandoned, tool>> /\ Busy = {worker.job}
      BY <1>3, LetGoEffect
    <2>2. \A job \in Standing : job \in Standing' \/ job = worker.job
      BY <2>1 DEF Standing, Queued, Copied
    <2>3. CASE \E job \in Standing' : job.msg = m
      BY <2>3 DEF Covered
    <2>4. CASE worker.job.msg = m
      <3>1. effects[m] > 0
        BY <1>3, <2>4 DEF MarkProcessed, At, JobsAreBorn, DoneIsHandled
      <3> QED
        BY <3>1, ServedStays DEF Served, Covered
    <2> QED
      BY <2>2, <2>3, <2>4
  <1>4. CASE ScheduleRetry
    <2>1. /\ UNCHANGED <<queue, abandoned, tool>> /\ Busy = {worker.job}
      BY <1>4, LetGoEffect
    <2>2. PICK job : /\ job.msg = worker.job.msg /\ scheduled' = scheduled \cup {job}
                     /\ UNCHANGED dlq
      <3>1. worker.job \in Job
        BY <1>4 DEF ScheduleRetry, At, IngestType
      <3>2. [worker.job EXCEPT !.left = @ - 1].msg = worker.job.msg
        BY <3>1 DEF Job
      <3> QED
        BY <1>4, <3>2 DEF ScheduleRetry
    <2>3. /\ \A x \in Standing : x \in Standing' \/ x = worker.job
          /\ job \in Standing'
      BY <2>1, <2>2 DEF Standing, Queued, Copied
    <2>4. \A x \in Standing : \E next \in Standing' : next.msg = x.msg
      BY <2>2, <2>3
    <2> QED
      BY <2>4, CoverPasses
  <1>5. CASE ParkJob
    <2>1. /\ UNCHANGED <<queue, abandoned, tool>> /\ Busy = {worker.job}
      BY <1>5, LetGoEffect
    <2>2. PICK job : /\ job.msg = worker.job.msg /\ job.n = worker.job.n
                     /\ dlq' = dlq \cup {job} /\ UNCHANGED scheduled
      <3>1. worker.job \in Job
        BY <1>5 DEF ParkJob, At, IngestType
      <3> DEFINE dead == [worker.job EXCEPT !.budget = "text"]
      <3>2. dead.msg = worker.job.msg /\ dead.n = worker.job.n
        BY <3>1 DEF Job
      <3> QED
        BY <1>5, <3>2 DEF ParkJob
    <2>3. job \notin Copied
      <3>1. \A x \in Copied : x.n # worker.job.n
        BY <2>1, PlacesFacts DEF OnePlace, Alone, Retired
      <3> QED
        BY <2>2, <3>1
    <2>4. /\ \A x \in Standing : x \in Standing' \/ x = worker.job
          /\ job \in Standing'
      BY <2>1, <2>2, <2>3 DEF Standing, Queued, Copied
    <2>5. \A x \in Standing : \E next \in Standing' : next.msg = x.msg
      BY <2>2, <2>4
    <2> QED
      BY <2>5, CoverPasses
  <1>6. CASE MarkDead
    <2>1. UNCHANGED <<queue, scheduled, dlq, abandoned, tool>> /\ Busy' = Busy
      BY <1>6, MarkDeadEffect
    <2>2. Standing' = Standing
      BY <2>1 DEF Standing, Queued, Copied
    <2> QED
      BY <2>2, CoverPasses
  <1>7. CASE WorkerDies
    <2>1. /\ UNCHANGED <<queue, scheduled, dlq, tool>> /\ Busy \subseteq {worker.job}
          /\ abandoned' = abandoned \cup {worker.job}
      BY <1>7, DieEffect
    <2>2. Standing \subseteq Standing'
      BY <2>1 DEF Standing, Queued, Copied
    <2> QED
      BY <2>2, CoverPasses
  <1> QED
    BY <1>1, <1>2, <1>3, <1>4, <1>5, <1>6, <1>7 DEF Work

\* Neither do the calls, the queue library and the tool.
LEMMA OthersCover ==
    ASSUME IngestType, OnePlace, Next, ~(Work \/ JobTimesOut \/ WorkerDies),
           NEW m \in Msgs, \E job \in Standing : job.msg = m
    PROVE  Covered(m)'
  <1>1. CASE \E c \in Calls : RecordInbound(c) \/ MarkQueued(c) \/ CallLost(c)
    <2>1. UNCHANGED <<queue, scheduled, dlq, abandoned, worker, tool>>
      BY <1>1, CallEffect
    <2>2. Standing' = Standing
      BY <2>1 DEF Standing, Queued, Busy, Copied
    <2> QED
      BY <2>2, CoverPasses
  <1>2. CASE \E c \in Calls : EnqueueJob(c)
    <2>1. /\ Queued \subseteq Queued'
          /\ UNCHANGED <<scheduled, dlq, abandoned, worker, tool>>
      BY <1>2, EnqueueEffect
    <2>2. Standing \subseteq Standing'
      BY <2>1 DEF Standing, Busy, Copied
    <2> QED
      BY <2>2, CoverPasses
  <1>3. CASE RetryDue \/ Recover
    <2>1. PICK old \in Job, job \in Job :
              /\ job.msg = old.msg /\ Queued' = Queued \cup {job}
              /\ scheduled \subseteq scheduled' \cup {old}
              /\ abandoned \subseteq abandoned' \cup {old}
              /\ UNCHANGED <<dlq, worker, tool>>
      BY <1>3, RequeueEffect
    <2>2. /\ \A x \in Standing : x \in Standing' \/ x = old
          /\ job \in Standing'
      BY <2>1 DEF Standing, Busy, Copied
    <2>3. \A x \in Standing : \E next \in Standing' : next.msg = x.msg
      BY <2>1, <2>2
    <2> QED
      BY <2>3, CoverPasses
  <1>4. CASE ReplayCopy
    <2>1. PICK old \in Job, job \in Job :
              /\ job.msg = old.msg /\ Queued' = Queued \cup {job}
              /\ Copied = {} /\ Copied' = {old}
              /\ UNCHANGED <<scheduled, dlq, abandoned, worker>>
      BY <1>4, CopyEffect
    <2>2. /\ \A x \in Standing : x \in Standing' \/ x = old
          /\ job \in Standing'
      BY <2>1 DEF Standing, Busy
    <2>3. \A x \in Standing : \E next \in Standing' : next.msg = x.msg
      BY <2>1, <2>2
    <2> QED
      BY <2>3, CoverPasses
  <1>5. CASE ReplayStart \/ ReplayDelete \/ ReplayEnd \/ ReplayDies
    <2>1. UNCHANGED <<queue, scheduled, abandoned, worker>>
      BY <1>5, ToolEffect
    <2>2. dlq \ Copied \subseteq dlq' \ Copied'
      <3>1. tool \in ToolState
        BY DEF IngestType
      <3>2. CASE ReplayDelete
        <4>1. tool.pc = "copied" /\ tool'.pc = "next" /\ dlq' = dlq \ {tool.job}
          BY <3>1, <3>2 DEF ReplayDelete, ToolState
        <4> QED
          BY <4>1 DEF Copied
      <3>3. CASE ReplayStart \/ ReplayEnd \/ ReplayDies
        <4>1. tool'.pc # "copied" /\ dlq' = dlq
          BY <3>1, <3>3 DEF ReplayStart, ReplayEnd, ReplayDies, ReplayOff, redis, ToolState
        <4> QED
          BY <4>1 DEF Copied
      <3> QED
        BY <1>5, <3>2, <3>3
    <2>3. Standing \subseteq Standing'
      BY <2>1, <2>2 DEF Standing, Queued, Busy
    <2> QED
      BY <2>3, CoverPasses
  <1>6. CASE Purge
    <2>1. /\ UNCHANGED <<queue, scheduled, abandoned, worker>>
      BY <1>6, ToolEffect
    <2>2. \A job \in dlq : job.msg \in purged'
      BY <1>6 DEF Purge
    <2>3. \A job \in Standing : job \in Standing' \/ job.msg \in purged'
      BY <2>1, <2>2 DEF Standing, Queued, Busy
    <2> QED
      BY <2>3 DEF Covered, Served
  <1>7. CASE Orphan
    <2>1. PICK job \in abandoned : /\ abandoned \subseteq abandoned' \cup {job}
                                  /\ job.msg \in orphaned'
      BY <1>7, OrphanEffect
    <2>2. \A x \in Standing : x \in Standing' \/ x = job
      BY <1>7, <2>1, OrphanEffect DEF Standing
    <2> QED
      BY <2>1, <2>2 DEF Covered
  <1> QED
    BY <1>1, <1>2, <1>3, <1>4, <1>5, <1>6, <1>7 DEF Next, Answer, Replay

\* A message that somebody will finish stays so, or its row says what became of it.
LEMMA CoveredStays ==
    ASSUME IngestType, OnePlace, JobsAreBorn, Next, ~ParkRefused, NEW m \in Msgs, Covered(m)
    PROVE  Covered(m)'
  <1>1. CASE Served(m)
    BY <1>1, ServedStays DEF Covered
  <1>2. CASE \E job \in Standing : job.msg = m
    BY <1>2, WorkerCovers, OthersCover
  <1>3. CASE m \in orphaned
    BY <1>3, OrphansStay DEF Covered
  <1> QED
    BY <1>1, <1>2, <1>3 DEF Covered

\* The job the webhook makes covers its message.
LEMMA EnqueueCovers ==
    ASSUME IngestType, NEW c \in Calls, EnqueueJob(c), NEW m, m = c[1]
    PROVE  Covered(m)'
  <1>1. PICK job \in Job : job.msg = c[1] /\ Queued' = Queued \cup {job}
    BY EnqueueEffect
  <1>2. job \in Standing'
    BY <1>1 DEF Standing
  <1> QED
    BY <1>1, <1>2 DEF Covered

\* Every step keeps the ledger telling of each message that was lost.
LEMMA LedgerTellsNext ==
    ASSUME IngestType, OnePlace, JobsAreBorn, LedgerTells, Next
    PROVE  LedgerTells'
  <1> SUFFICES ASSUME faults'["redis"] = 0
               PROVE  BornIsCovered' /\ EnqueuedIsCovered' /\ ParkedIsCovered'
    BY DEF LedgerTells
  <1>1. /\ BornIsCovered /\ EnqueuedIsCovered /\ ParkedIsCovered /\ ~ParkRefused
        /\ faults["api"] > 0 => faults'["api"] > 0
    <2>1. faults["redis"] \in Nat /\ faults'["redis"] >= faults["redis"]
      BY FaultsGrow
    <2>2. faults["api"] \in Nat /\ faults'["api"] \in Nat /\ faults'["api"] >= faults["api"]
      BY FaultsGrow
    <2>3. ~ParkRefused
      BY FaultsGrow
    <2> QED
      BY <2>1, <2>2, <2>3 DEF LedgerTells
  <1>2. \A c \in Calls : c[1] \in Msgs
    BY DEF Calls
  <1>3. ASSUME NEW m \in Msgs, Covered(m) PROVE Covered(m)'
    BY <1>1, <1>3, CoveredStays
  <1>4. ASSUME NEW m \in Msgs, worker.pc # "idle", worker.job.msg = m PROVE Covered(m)
    <2>1. CASE worker.pc = "parked"
      BY <1>1, <1>4, <2>1 DEF ParkedIsCovered
    <2>2. CASE worker.pc # "parked"
      BY <1>4, <2>2 DEF Covered, Standing, Busy
    <2> QED
      BY <2>1, <2>2
  <1>5. BornIsCovered'
    <2> SUFFICES ASSUME NEW m \in Msgs, Born(m)'
                 PROVE  Covered(m)' \/ (row'[m] = "received" /\ faults'["api"] > 0)
      BY DEF BornIsCovered
    <2>1. CASE Covered(m)
      BY <1>3, <2>1
    <2>2. CASE ~Covered(m) /\ Born(m)
      <3>1. row[m] = "received" /\ faults["api"] > 0
        BY <1>1, <2>2 DEF BornIsCovered
      <3>2. ~Writer(m)
        BY <1>1, <1>4, <2>2, <3>1 DEF Writer, EnqueuedIsCovered
      <3> QED
        BY <1>1, <3>1, <3>2, RowMoves
    <2>3. CASE ~Born(m) /\ row[m] = "none"
      <3>1. row'[m] # "none" /\ ~Pending(m)'
        BY DEF Born
      <3>2. Writer(m)
        BY <2>3, <3>1, RowMoves
      <3>3. ~(worker.pc # "idle" /\ worker.job.msg = m)
        BY <2>3 DEF JobsAreBorn, Everywhere, InFlight, Held
      <3>4. \A c \in Calls : c[1] = m => call[c] # "enqueued"
        BY <2>3 DEF JobsAreBorn, EnqueuedIsBorn
      <3>5. PICK c \in Calls : c[1] = m /\ RecordInbound(c)
        BY <3>2, <3>3, <3>4 DEF Writer
      <3>6. call'[c] = "new"
        BY <2>3, <3>5 DEF RecordInbound, IngestType
      <3> QED
        BY <3>1, <3>5, <3>6 DEF Pending
    <2>4. CASE ~Born(m) /\ row[m] # "none"
      <3>1. PICK c \in Calls : c[1] = m /\ call[c] = "new"
        BY <2>4 DEF Born, Pending
      <3>2. call'[c] # "new"
        BY <3>1 DEF Born, Pending
      <3>3. CASE EnqueueJob(c)
        BY <3>1, <3>3, EnqueueCovers
      <3>4. CASE CallLost(c)
        <4>1. row'[m] = "received"
          BY <3>1, NewIsLeftAlone
        <4>2. faults'["api"] > 0
          BY <3>4, FaultsGrow
        <4> QED
          BY <4>1, <4>2
      <3> QED
        BY <3>1, <3>2, <3>3, <3>4, CallMoves
    <2> QED
      BY <2>1, <2>2, <2>3, <2>4
  <1>6. EnqueuedIsCovered'
    <2> SUFFICES ASSUME NEW c \in Calls, call'[c] = "enqueued", NEW m \in Msgs, m = c[1]
                 PROVE  Covered(m)'
      BY <1>2 DEF EnqueuedIsCovered
    <2>1. CASE call[c] = "enqueued"
      BY <1>1, <1>3, <2>1 DEF EnqueuedIsCovered
    <2> QED
      BY <2>1, CallMoves, EnqueueCovers
  <1>7. ParkedIsCovered'
    <2> SUFFICES ASSUME NEW m \in Msgs, worker'.pc = "parked", worker'.job.msg = m
                 PROVE  Covered(m)'
      BY DEF ParkedIsCovered
    <2>1. worker.pc # "idle" /\ worker.job.msg = m
      BY WorkerMoves
    <2> QED
      BY <1>3, <1>4, <2>1
  <1> QED
    BY <1>5, <1>6, <1>7

\* Only the worker that ran the handlers to the end marks a message as processed.
LEMMA ProcessedMoves ==
    ASSUME IngestType, Next, NEW m \in Msgs, row'[m] = "processed"
    PROVE  row[m] = "processed" \/ (worker.pc = "done" /\ worker.job.msg = m)
  <1>1. row \in [Msgs -> RowStatus]
    BY DEF IngestType
  <1>2. CASE row' = row
    BY <1>2
  <1>3. ASSUME NEW k \in Msgs, NEW status \in RowStatus \ {"processed"}, MarkStatus(k, status)
        PROVE  row[m] = "processed"
    BY <1>1, <1>3 DEF MarkStatus, Mark
  <1>4. CASE \E c \in Calls : RecordInbound(c) \/ Answer(c) \/ CallLost(c)
    <2>1. PICK c \in Calls : RecordInbound(c) \/ Answer(c) \/ CallLost(c)
      BY <1>4
    <2>2. c[1] \in Msgs
      BY DEF Calls
    <2>3. CASE RecordInbound(c)
      BY <1>1, <2>2, <2>3 DEF RecordInbound, Mark
    <2>4. CASE MarkQueued(c)
      BY <1>3, <2>2, <2>4 DEF MarkQueued, RowStatus
    <2>5. CASE EnqueueJob(c) \/ CallLost(c)
      BY <1>2, <2>5 DEF EnqueueJob, CallLost
    <2> QED
      BY <2>1, <2>3, <2>4, <2>5 DEF Answer
  <1>5. CASE StartProcessing \/ MarkFailed \/ MarkDead
    <2>1. worker.job.msg \in Msgs
      BY <1>5 DEF StartProcessing, MarkFailed, MarkDead, At, IngestType, Job
    <2>2. PICK status \in RowStatus \ {"processed"} : MarkStatus(worker.job.msg, status)
      BY <1>5 DEF StartProcessing, MarkFailed, MarkDead, RowStatus
    <2> QED
      BY <1>3, <2>1, <2>2
  <1>6. CASE MarkProcessed
    BY <1>1, <1>6 DEF MarkProcessed, MarkStatus, Mark, At
  <1>7. CASE \/ TakeJob \/ HandlersSucceed \/ HandlersFail \/ ScheduleRetry \/ ParkJob
             \/ ParkRefused \/ JobTimesOut \/ WorkerDies
    BY <1>2, <1>7 DEF TakeJob, HandlersSucceed, HandlersFail, ScheduleRetry, ParkJob,
                      ParkRefused, JobTimesOut, WorkerDies
  <1>8. CASE RetryDue \/ Recover \/ Orphan \/ ReplayStart \/ Replay \/ ReplayDies \/ Purge
    BY <1>2, <1>8 DEF RetryDue, Recover, Orphan, ReplayStart, Replay, ReplayCopy, ReplayDelete,
         ReplayEnd, ReplayDies, Purge
  <1> QED
    BY <1>4, <1>5, <1>6, <1>7, <1>8 DEF Next, Work

\* Every step keeps the ledger from claiming more than was done.
LEMMA ProcessedIsHandledNext ==
    ASSUME IngestType, JobsAreBorn, ProcessedIsHandled, Next
    PROVE  ProcessedIsHandled'
  <1> SUFFICES ASSUME NEW m \in Msgs, row'[m] = "processed" PROVE effects'[m] > 0
    BY DEF ProcessedIsHandled
  <1>1. effects[m] > 0
    BY ProcessedMoves DEF ProcessedIsHandled, JobsAreBorn, DoneIsHandled
  <1> QED
    BY <1>1, EffectsStay

-----------------------------------------------------------------------------
(* The theorems *)

IInv ==
    /\ IngestType /\ OnePlace /\ Numbered /\ JobsAreBorn
    /\ Budgeted /\ RunsArePaid /\ HandledIsMarked /\ LedgerTells /\ ProcessedIsHandled

\* What the layers say holds before the first delivery.
LEMMA InvariantInit == Init => IInv
  <1> SUFFICES ASSUME Init PROVE IInv
    OBVIOUS
  <1>1. IngestType
    BY TypeInit
  <1>2. OnePlace
    <2>1. Alone(Places)
      BY NothingAtFirst, PlacesFacts DEF Alone
    <2> QED
      BY <2>1, NothingAtFirst, EmptySeq DEF OnePlace
  <1>3. Numbered
    BY NothingAtFirst DEF Numbered
  <1>4. /\ \A m \in Msgs : row[m] = "none" /\ effects[m] = 0
        /\ \A c \in Calls : call[c] = "ready"
        /\ faults["worker"] = 0 /\ faults["tool"] = 0
        /\ \A m \in Msgs : ~Born(m)
    BY DEF Init, Limits, Born
  <1>5. JobsAreBorn
    BY <1>4, NothingAtFirst DEF JobsAreBorn, CallsAreKnown, NewIsReceived, OneIsNew,
                                EnqueuedIsBorn, UnknownIsUnhandled, DoneIsHandled
  <1>6. RunsArePaid
    <2> SUFFICES ASSUME NEW m \in Msgs PROVE Cost(m) <= 1 + faults["worker"] + faults["tool"]
      BY DEF RunsArePaid
    <2>1. Tokens(m) = {}
      BY NothingAtFirst DEF Tokens, CanRun, Parked, Running
    <2>2. Cardinality(Tokens(m)) = 0
      BY <2>1, FS_EmptySet
    <2> QED
      BY <1>4, <2>2 DEF Cost, Fresh
  <1>7. HandledIsMarked
    BY <1>4 DEF HandledIsMarked
  <1>8. LedgerTells
    BY <1>4, NothingAtFirst DEF LedgerTells, BornIsCovered, EnqueuedIsCovered, ParkedIsCovered
  <1>9. Budgeted /\ ProcessedIsHandled
    BY <1>4, NothingAtFirst DEF Budgeted, ProcessedIsHandled
  <1> QED
    BY <1>1, <1>2, <1>3, <1>5, <1>6, <1>7, <1>8, <1>9 DEF IInv

\* A step that changes nothing keeps them.
LEMMA InvariantStutters == IInv /\ UNCHANGED vars => IInv'
  <1> SUFFICES ASSUME IInv, UNCHANGED vars PROVE IInv'
    OBVIOUS
  <1>1. /\ UNCHANGED <<row, call, queue, scheduled, dlq, abandoned, orphaned, serial>>
        /\ UNCHANGED <<worker, tool, effects, purged, faults>>
    BY DEF vars, redis
  <1>2. /\ Queued' = Queued /\ Recoverable' = Recoverable /\ Busy' = Busy /\ Copied' = Copied
        /\ Held' = Held /\ Running' = Running /\ Parked' = Parked
    BY <1>1 DEF Queued, Recoverable, Busy, Copied, Held, Running, Parked
  <1>3. /\ Retired' = Retired /\ InFlight' = InFlight /\ CanRun' = CanRun
        /\ Standing' = Standing
    BY <1>1, <1>2 DEF Retired, InFlight, CanRun, Standing
  <1>4. IngestType'
    BY <1>1 DEF IInv, IngestType
  <1>5. OnePlace'
    <2>1. Alone(Places)'
      BY <1>1, <1>2, <1>3, PlacesFacts, AloneStays DEF IInv, OnePlace
    <2> QED
      BY <1>1, <2>1 DEF IInv, OnePlace
  <1>6. Numbered' /\ Budgeted'
    BY <1>1, <1>3 DEF IInv, Numbered, Budgeted, Everywhere
  <1>7. \A m : (Born(m)' <=> Born(m)) /\ (Covered(m)' <=> Covered(m))
    BY <1>1, <1>3 DEF Born, Pending, Covered, Served
  <1>8. JobsAreBorn'
    <2>1. \A job \in Everywhere' : Born(job.msg)'
      BY <1>3, <1>7 DEF IInv, JobsAreBorn, Everywhere
    <2>2. EnqueuedIsBorn'
      BY <1>1, <1>7 DEF IInv, JobsAreBorn, EnqueuedIsBorn
    <2> QED
      BY <1>1, <2>1, <2>2 DEF IInv, JobsAreBorn, CallsAreKnown, NewIsReceived, OneIsNew,
                              UnknownIsUnhandled, DoneIsHandled
  <1>9. RunsArePaid'
    <2>1. \A m : Tokens(m)' = Tokens(m) /\ Fresh(m)' = Fresh(m)
      BY <1>3, <1>7 DEF Tokens, Fresh
    <2>2. \A m \in Msgs : Cost(m)' = Cost(m)
      BY <1>1, <2>1 DEF Cost
    <2> QED
      BY <1>1, <2>2 DEF IInv, RunsArePaid
  <1>10. HandledIsMarked' /\ ProcessedIsHandled'
    BY <1>1 DEF IInv, HandledIsMarked, ProcessedIsHandled
  <1>11. LedgerTells'
    <2>1. (BornIsCovered' <=> BornIsCovered) /\ (EnqueuedIsCovered' <=> EnqueuedIsCovered)
          /\ (ParkedIsCovered' <=> ParkedIsCovered)
      BY <1>1, <1>7 DEF BornIsCovered, EnqueuedIsCovered, ParkedIsCovered
    <2> QED
      BY <1>1, <2>1 DEF IInv, LedgerTells
  <1> QED
    BY <1>4, <1>5, <1>6, <1>8, <1>9, <1>10, <1>11 DEF IInv

\* The invariant of the way of a message, whatever fails on it and how often: types, places,
\* numbers, births, and what each property needs.
THEOREM IngestInvariantHolds == Spec => []IInv
  <1>1. IInv /\ [Next]_vars => IInv'
    <2> SUFFICES ASSUME IInv, [Next]_vars PROVE IInv'
      OBVIOUS
    <2>1. CASE UNCHANGED vars
      BY <2>1, InvariantStutters
    <2>2. CASE Next
      <3>1. /\ IngestType /\ OnePlace /\ Numbered /\ JobsAreBorn
            /\ Budgeted /\ RunsArePaid /\ HandledIsMarked /\ LedgerTells
            /\ ProcessedIsHandled
        BY DEF IInv
      <3>2. IngestType'
        BY <3>1, TypeNext
      <3>3. OnePlace'
        BY <2>2, <3>1, OnePlaceCalls, OnePlaceWorker, OnePlaceQueue, OnePlaceOrphan,
           OnePlaceTool DEF Next
      <3>4. Numbered'
        BY <2>2, <3>1, LineageNext, NumberedNext
      <3>5. JobsAreBorn'
        BY <2>2, <3>1, JobsAreBornNext
      <3>6. Budgeted'
        BY <2>2, <3>1, BudgetedNext
      <3>7. RunsArePaid' /\ HandledIsMarked'
        BY <2>2, <3>1, RunsArePaidNext, HandledIsMarkedNext
      <3>8. LedgerTells' /\ ProcessedIsHandled'
        BY <2>2, <3>1, LedgerTellsNext, ProcessedIsHandledNext
      <3> QED
        BY <3>2, <3>3, <3>4, <3>5, <3>6, <3>7, <3>8 DEF IInv
    <2> QED
      BY <2>1, <2>2
  <1> QED
    BY <1>1, InvariantInit, PTL DEF Spec

\* A message with a file runs on the document budget through every retry, worker death and
\* recovery, until an operator replays dead letters (worker/tasks.py, tools/dlq.py).
THEOREM BudgetHolds == Spec => []DocumentKeepsItsBudget
  <1>1. IInv => DocumentKeepsItsBudget
    BY DEF IInv, Budgeted, DocumentKeepsItsBudget, InFlight
  <1> QED
    BY <1>1, IngestInvariantHolds, PTL

\* Redeliveries, retries and replays never run the handlers of a message twice: every second
\* run is paid for by a fault of the worker or of the replay tool (api/main.py's INSERT OR
\* IGNORE, worker/tasks.py, tools/dlq.py).
THEOREM HandledTwiceHolds == Spec => []HandledTwiceNeedsAFault
  <1>1. IInv => HandledTwiceNeedsAFault
    <2> SUFFICES ASSUME IInv, NEW m \in Msgs
                 PROVE  effects[m] <= 1 + faults["worker"] + faults["tool"]
      BY DEF HandledTwiceNeedsAFault
    <2>1. effects[m] \in Nat /\ faults["worker"] \in Nat /\ faults["tool"] \in Nat
      BY DEF IInv, IngestType
    <2>2. Cardinality(Tokens(m)) \in Nat
      <3>1. IsFiniteSet(Tokens(m))
        BY TokensFinite DEF IInv
      <3> QED
        BY <3>1, FS_CardinalityType
    <2>3. Fresh(m) \in {0, 1} /\ Cost(m) <= 1 + faults["worker"] + faults["tool"]
      BY DEF Fresh, IInv, RunsArePaid
    <2> QED
      BY <2>1, <2>2, <2>3 DEF Cost
  <1> QED
    BY <1>1, IngestInvariantHolds, PTL

\* While neither the worker nor the tool died, a handled message without a job reads
\* "processed", or "queued" after a late mark of the webhook (worker/tasks.py, api/main.py).
THEOREM HandledReadsProcessedHolds == Spec => []HandledReadsProcessed
  <1>1. IInv => HandledReadsProcessed
    <2> SUFFICES ASSUME IInv, NEW m \in Msgs, effects[m] > 0, ~HasJob(m),
                        faults["worker"] + faults["tool"] = 0
                 PROVE  row[m] \in {"processed", "queued"}
      BY DEF HandledReadsProcessed
    <2>1. ~(worker.pc = "done" /\ worker.job.msg = m)
      BY DEF HasJob, Alive, Held
    <2> QED
      BY <2>1 DEF IInv, HandledIsMarked
  <1> QED
    BY <1>1, IngestInvariantHolds, PTL

\* Retries, redeliveries, dead letters and replays lose nothing.  What is lost was in the
\* hands of the webhook when it failed and reads "received", or Redis refused it on its way
\* to the dead-letter queue, or its worker died on its last run and RQ moved the job to its
\* failed registry; in no case does it read "processed" (api/main.py, worker/tasks.py,
\* tools/dlq.py).
THEOREM LossShowsHolds == Spec => []LossShowsInLedger
  <1>1. IInv => LossShowsInLedger
    <2> SUFFICES ASSUME IInv, NEW m \in Msgs, Lost(m)
                 PROVE  /\ row[m] # "processed"
                        /\ \/ row[m] = "received" /\ faults["api"] > 0
                           \/ faults["redis"] > 0
                           \/ m \in orphaned
      BY DEF LossShowsInLedger
    <2>1. faults["redis"] \in Nat
      BY DEF IInv, IngestType
    <2>2. row[m] # "processed"
      BY DEF IInv, ProcessedIsHandled, Lost, Served
    <2>3. CASE faults["redis"] = 0 /\ m \notin orphaned
      <3>1. PICK c \in Calls : c[1] = m /\ call[c] \in {"queued", "duplicate"}
        BY DEF Lost, Acked
      <3>2. row[m] # "none"
        BY <3>1 DEF IInv, JobsAreBorn, CallsAreKnown
      <3>3. Born(m)
        BY <3>2 DEF Born, Lost
      <3>4. ~Covered(m)
        <4>1. Standing \subseteq Alive
          BY DEF Standing, Alive, Busy, Held
        <4> QED
          BY <2>3, <4>1 DEF Lost, Covered, HasJob
      <3>5. row[m] = "received" /\ faults["api"] > 0
        BY <2>3, <3>3, <3>4 DEF IInv, LedgerTells, BornIsCovered
      <3> QED
        BY <2>2, <3>5
    <2> QED
      BY <2>1, <2>2, <2>3
  <1> QED
    BY <1>1, IngestInvariantHolds, PTL
=============================================================================
