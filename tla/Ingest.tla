------------------------------- MODULE Ingest -------------------------------
(***************************************************************************)
(* The way of an inbound message through the Python application: the       *)
(* webhook of the api, the SQLite ledger, the RQ queue in Redis, the       *)
(* worker with its retries, the dead-letter queue and the operator's       *)
(* replay tool (api/main.py, worker/tasks.py, worker/main.py,              *)
(* tools/dlq.py, db.py).                                                   *)
(*                                                                         *)
(* Each webhook call, the worker and the tool are processes of their own;  *)
(* every SQLite statement and every Redis command is one step.  RQ is      *)
(* external and modelled as the worker uses it: one job at a time, a job   *)
(* that raises goes to the exception handler before its retry is counted.  *)
(***************************************************************************)
EXTENDS Integers, Sequences

CONSTANTS
    Msgs,           \* WhatsApp message ids
    Documents,      \* those whose attachment was downloaded (has_file)
    Deliveries,     \* bound: webhook calls the bridge makes for one message
    MaxRetries,     \* worker_max_retries
    MaxApiFaults,   \* bound: api crashes and Redis errors inside the webhook
    MaxRedisFaults, \* bound: Redis errors inside the exception handler
    MaxWorkerFaults,\* bound: worker crashes and job timeouts
    MaxToolFaults,  \* bound: crashes of the replay tool
    MaxReplays      \* bound: runs of the replay tool

ASSUME IngestAssumption ==
    /\ Documents \subseteq Msgs
    /\ {Deliveries, MaxRetries, MaxReplays} \subseteq Nat
    /\ {MaxApiFaults, MaxRedisFaults, MaxWorkerFaults, MaxToolFaults} \subseteq Nat

VARIABLES
    row,        \* messages.status of each inbound message, "none" without a row
    call,       \* where each webhook call is
    queue,      \* the RQ queue
    scheduled,  \* failed jobs that wait for their retry interval
    dlq,        \* the jobs in the dead-letter queue
    abandoned,  \* jobs of a worker that died
    orphaned,   \* messages whose job RQ moved to its failed registry
    worker,     \* what the worker is doing, with which job
    tool,       \* dlq-requeue: its step, its job, the jobs it has left to replay
    serial,     \* jobs created so far
    effects,    \* history: how often the handlers of each message ran to the end
    purged,     \* history: messages the operator deleted from the dead-letter queue
    faults      \* history: faults so far, by process

ledger == <<row>>
redis  == <<queue, scheduled, dlq, abandoned, orphaned, serial>>
vars   == <<row, call, redis, worker, tool, effects, purged, faults>>

Calls   == Msgs \X (1 .. Deliveries)
NoJob == [n |-> -1]
Limits == [api |-> MaxApiFaults, redis |-> MaxRedisFaults,
           worker |-> MaxWorkerFaults, tool |-> MaxToolFaults]

Init ==
    /\ row = [m \in Msgs |-> "none"]
    /\ call = [c \in Calls |-> "ready"]
    /\ queue = <<>> /\ scheduled = {} /\ dlq = {} /\ abandoned = {} /\ orphaned = {}
    /\ worker = [pc |-> "idle", job |-> NoJob]
    /\ tool = [pc |-> "off", job |-> NoJob, todo |-> {}, runs |-> 0]
    /\ serial = 0
    /\ effects = [m \in Msgs |-> 0]
    /\ purged = {}
    /\ faults = [p \in DOMAIN Limits |-> 0]

Fault(p) == faults[p] < Limits[p] /\ faults' = [faults EXCEPT ![p] = @ + 1]
-----------------------------------------------------------------------------
(* The ledger and the queue *)

Mark(m, status) == row' = [row EXCEPT ![m] = status]

\* mark_status is an UPDATE: it touches nothing when there is no row.
MarkStatus(m, status) == IF row[m] = "none" THEN UNCHANGED row ELSE Mark(m, status)

BudgetOf(m) == IF m \in Documents THEN "document" ELSE "text"

NewJob(m, budget) == [n |-> serial, msg |-> m, left |-> MaxRetries, budget |-> budget]

Push(job) == queue' = Append(queue, job) /\ serial' = serial + 1
-----------------------------------------------------------------------------
(* POST /webhook *)

\* Fault: every delivery counts as new.
RecordInboundTwice(c) ==
    /\ call[c] = "ready"
    /\ Mark(c[1], "received") /\ call' = [call EXCEPT ![c] = "new"]
    /\ UNCHANGED <<redis, worker, tool, effects, purged, faults>>

\* INSERT OR IGNORE: only the first delivery of a message is new.
RecordInbound(c) ==
    /\ call[c] = "ready"
    /\ IF row[c[1]] = "none"
       THEN Mark(c[1], "received") /\ call' = [call EXCEPT ![c] = "new"]
       ELSE UNCHANGED row /\ call' = [call EXCEPT ![c] = "duplicate"]
    /\ UNCHANGED <<redis, worker, tool, effects, purged, faults>>

EnqueueJob(c) ==
    /\ call[c] = "new"
    /\ Push(NewJob(c[1], BudgetOf(c[1])))
    /\ call' = [call EXCEPT ![c] = "enqueued"]
    /\ UNCHANGED <<row, scheduled, dlq, abandoned, orphaned, worker, tool, effects,
                   purged, faults>>

MarkQueued(c) ==
    /\ call[c] = "enqueued"
    /\ MarkStatus(c[1], "queued")
    /\ call' = [call EXCEPT ![c] = "queued"]
    /\ UNCHANGED <<redis, worker, tool, effects, purged, faults>>

\* The call ends without an answer: the api is killed, or Redis refuses the job.
CallLost(c) ==
    /\ call[c] \in {"new", "enqueued"}
    /\ Fault("api")
    /\ call' = [call EXCEPT ![c] = "lost"]
    /\ UNCHANGED <<row, redis, worker, tool, effects, purged>>
-----------------------------------------------------------------------------
(* The worker: process_message and the exception handler *)

At(pc) == worker.pc = pc
Become(pc) == worker' = [worker EXCEPT !.pc = pc]
WorkerIdle == worker' = [pc |-> "idle", job |-> NoJob]

TakeJob ==
    /\ At("idle") /\ queue # <<>>
    /\ worker' = [pc |-> "taken", job |-> Head(queue)]
    /\ queue' = Tail(queue)
    /\ UNCHANGED <<row, call, scheduled, dlq, abandoned, orphaned, serial, tool, effects,
                   purged, faults>>

StartProcessing ==
    /\ At("taken")
    /\ MarkStatus(worker.job.msg, "processing")
    /\ Become("running")
    /\ UNCHANGED <<call, redis, tool, effects, purged, faults>>

HandlersSucceed ==
    /\ At("running")
    /\ effects' = [effects EXCEPT ![worker.job.msg] = @ + 1]
    /\ Become("done")
    /\ UNCHANGED <<row, call, redis, tool, purged, faults>>

\* A handler raises, the bridge refuses a send, or the job's time is up in the pipeline.
HandlersFail ==
    /\ At("running")
    /\ Become("failing")
    /\ UNCHANGED <<row, call, redis, tool, effects, purged, faults>>

MarkFailed ==
    /\ At("failing")
    /\ MarkStatus(worker.job.msg, "failed")
    /\ Become("raised")
    /\ UNCHANGED <<call, redis, tool, effects, purged, faults>>

\* Fault: the last mark is forgotten.
FinishUnmarked ==
    /\ At("done")
    /\ WorkerIdle
    /\ UNCHANGED <<row, call, redis, tool, effects, purged, faults>>

MarkProcessed ==
    /\ At("done")
    /\ MarkStatus(worker.job.msg, "processed")
    /\ WorkerIdle
    /\ UNCHANGED <<call, redis, tool, effects, purged, faults>>

\* The job's time is up, or SQLite refuses, outside the inner try: no "failed" mark.
JobTimesOut ==
    /\ worker.pc \in {"taken", "failing", "done"}
    /\ Fault("worker")
    /\ Become("raised")
    /\ UNCHANGED <<row, call, redis, tool, effects, purged>>

\* Fault: the retry gets the default budget.
ScheduleRetryAnew ==
    /\ At("raised") /\ worker.job.left > 0
    /\ scheduled' = scheduled \cup {[worker.job EXCEPT !.left = @ - 1, !.budget = "text"]}
    /\ WorkerIdle
    /\ UNCHANGED <<row, call, queue, dlq, abandoned, orphaned, serial, tool, effects,
                   purged, faults>>

\* should_retry: RQ counts the retry and schedules the job.
ScheduleRetry ==
    /\ At("raised") /\ worker.job.left > 0
    /\ scheduled' = scheduled \cup {[worker.job EXCEPT !.left = @ - 1]}
    /\ WorkerIdle
    /\ UNCHANGED <<row, call, queue, dlq, abandoned, orphaned, serial, tool, effects,
                   purged, faults>>

\* The dead-letter job gets worker_job_timeout whatever the message carries.
ParkJob ==
    /\ At("raised") /\ worker.job.left = 0
    /\ dlq' = dlq \cup {[worker.job EXCEPT !.budget = "text"]}
    /\ Become("parked")
    /\ UNCHANGED <<row, call, queue, scheduled, abandoned, orphaned, serial, tool, effects,
                   purged, faults>>

\* Redis refuses the dead-letter job: the error is logged and the row says dead.
ParkRefused ==
    /\ At("raised") /\ worker.job.left = 0
    /\ Fault("redis")
    /\ Become("parked")
    /\ UNCHANGED <<row, call, redis, tool, effects, purged>>

MarkDead ==
    /\ At("parked")
    /\ MarkStatus(worker.job.msg, "dead")
    /\ WorkerIdle
    /\ UNCHANGED <<call, redis, tool, effects, purged, faults>>

\* Fault: the scheduler does not run.
NoScheduler == FALSE /\ UNCHANGED vars

\* RQ's scheduler puts a job back once its interval is over.
RetryDue ==
    \E job \in scheduled :
        /\ scheduled' = scheduled \ {job}
        /\ queue' = Append(queue, job)
        /\ UNCHANGED <<row, call, dlq, abandoned, orphaned, serial, worker, tool,
                       effects, purged, faults>>

WorkerDies ==
    /\ ~At("idle")
    /\ Fault("worker")
    /\ abandoned' = abandoned \cup {worker.job}
    /\ WorkerIdle
    /\ UNCHANGED <<row, call, queue, scheduled, dlq, orphaned, serial, tool, effects, purged>>

\* RQ finds the job of a dead worker in its registry and runs it again while it has
\* retries.
Recover ==
    \E job \in abandoned :
        /\ job.left > 0
        /\ abandoned' = abandoned \ {job}
        /\ queue' = Append(queue, [job EXCEPT !.left = @ - 1])
        /\ UNCHANGED <<row, call, scheduled, dlq, orphaned, serial, worker, tool, effects,
                       purged, faults>>

\* Without any it goes to RQ's failed registry, past the exception handler and the
\* dead-letter queue: nothing of the application reads it there, and RQ deletes it when
\* its failure_ttl is over.
Orphan ==
    \E job \in abandoned :
        /\ job.left = 0
        /\ abandoned' = abandoned \ {job}
        /\ orphaned' = orphaned \cup {job.msg}
        /\ UNCHANGED <<row, call, queue, scheduled, dlq, serial, worker, tool, effects,
                       purged, faults>>
-----------------------------------------------------------------------------
(* The operator: make dlq-requeue, make dlq-purge *)

ReplayStart ==
    /\ tool.pc = "off" /\ tool.runs < MaxReplays
    /\ tool' = [tool EXCEPT !.pc = "next", !.todo = dlq, !.runs = @ + 1]
    /\ UNCHANGED <<row, call, redis, worker, effects, purged, faults>>

\* Fault: the job is deleted before it is copied.
ReplayDeletesFirst ==
    \E job \in tool.todo :
        /\ tool.pc = "next"
        /\ dlq' = dlq \ {job}
        /\ tool' = [tool EXCEPT !.pc = "copied", !.job = job, !.todo = @ \ {job}]
        /\ UNCHANGED <<row, call, queue, scheduled, abandoned, orphaned, serial, worker,
                       effects, purged, faults>>

ReplayCopy ==
    \E job \in tool.todo :
        /\ tool.pc = "next"
        /\ Push(NewJob(job.msg, "text"))
        /\ tool' = [tool EXCEPT !.pc = "copied", !.job = job, !.todo = @ \ {job}]
        /\ UNCHANGED <<row, call, scheduled, dlq, abandoned, orphaned, worker, effects,
                       purged, faults>>

ReplayDelete ==
    /\ tool.pc = "copied"
    /\ dlq' = dlq \ {tool.job}
    /\ tool' = [tool EXCEPT !.pc = "next", !.job = NoJob]
    /\ UNCHANGED <<row, call, queue, scheduled, abandoned, orphaned, serial, worker,
                   effects, purged, faults>>

ReplayOff == tool' = [tool EXCEPT !.pc = "off", !.job = NoJob, !.todo = {}]

ReplayEnd ==
    /\ tool.pc = "next" /\ tool.todo = {}
    /\ ReplayOff
    /\ UNCHANGED <<row, call, redis, worker, effects, purged, faults>>

ReplayDies ==
    /\ tool.pc # "off"
    /\ Fault("tool")
    /\ ReplayOff
    /\ UNCHANGED <<row, call, redis, worker, effects, purged>>

Purge ==
    /\ dlq # {}
    /\ purged' = purged \cup {job.msg : job \in dlq}
    /\ dlq' = {}
    /\ UNCHANGED <<row, call, queue, scheduled, abandoned, orphaned, serial, worker, tool,
                   effects, faults>>
-----------------------------------------------------------------------------
Answer(c) == EnqueueJob(c) \/ MarkQueued(c)
Work ==
    \/ TakeJob \/ StartProcessing \/ HandlersSucceed \/ HandlersFail
    \/ MarkFailed \/ MarkProcessed \/ ScheduleRetry \/ ParkJob \/ ParkRefused \/ MarkDead
Replay == ReplayCopy \/ ReplayDelete \/ ReplayEnd

Next ==
    \/ \E c \in Calls : RecordInbound(c) \/ Answer(c) \/ CallLost(c)
    \/ Work \/ RetryDue \/ Recover \/ Orphan \/ JobTimesOut \/ WorkerDies
    \/ ReplayStart \/ Replay \/ ReplayDies \/ Purge

Spec == Init /\ [][Next]_vars

\* A call that was received goes on; the worker container restarts and RQ's scheduler
\* runs in it.  Handlers may fail for ever, operators may never come.
Fairness ==
    /\ \A c \in Calls : WF_vars(Answer(c))
    /\ WF_vars(Work) /\ WF_vars(RetryDue) /\ WF_vars(Recover \/ Orphan)
    /\ WF_vars(Replay)

FairSpec == Spec /\ Fairness
-----------------------------------------------------------------------------
(* Properties *)

Queued == {queue[k] : k \in DOMAIN queue}
Held   == IF worker.pc = "idle" THEN {} ELSE {worker.job}
Alive  == Queued \cup scheduled \cup dlq \cup abandoned \cup Held

HasJob(m)  == \E job \in Alive : job.msg = m
Acked(m)   == \E c \in Calls : c[1] = m /\ call[c] \in {"queued", "duplicate"}
Pending(m) == \E c \in Calls : c[1] = m /\ call[c] = "new"
Served(m)  == effects[m] > 0 \/ m \in purged
Lost(m)    == Acked(m) /\ ~(Served(m) \/ HasJob(m) \/ Pending(m))

\* A message the bridge was told is taken (200, "queued" or "duplicate") has been
\* handled, was deleted by the operator, or is still in somebody's hands: an api that
\* restarts delays messages, it does not lose them (the header of api-client.js).
NothingLost == \A m \in Msgs : ~Lost(m)

\* Retries, redeliveries, dead-letter jobs and replays lose nothing by themselves, nor
\* does a replay tool that dies.  What a fault inside the webhook loses keeps the status
\* "received", so that the ledger shows it; the other losses are a dead-letter job that
\* Redis refused and a job whose worker died on its last run, which is never parked.
\* No lost message reads "processed".
LossShowsInLedger ==
    \A m \in Msgs : Lost(m) =>
        /\ row[m] # "processed"
        /\ \/ row[m] = "received" /\ faults["api"] > 0
           \/ faults["redis"] > 0
           \/ m \in orphaned

\* Handlers run to the end twice for one message only if the worker or the replay tool
\* failed in between; redeliveries, retries and replays alone never cause it.
HandledTwiceNeedsAFault ==
    \A m \in Msgs : effects[m] <= 1 + faults["worker"] + faults["tool"]

\* A message whose handlers ran, with no job and no webhook call left, never reads as
\* waiting, failed or dead when neither the worker nor the replay tool died: it reads
\* "processed" (test_worker.py: a command is answered and marked processed), or "queued"
\* when the webhook's last mark came after the worker's.
HandledReadsProcessed ==
    \A m \in Msgs :
        /\ effects[m] > 0 /\ ~HasJob(m) /\ faults["worker"] + faults["tool"] = 0
        /\ \A c \in Calls : c[1] = m => call[c] \notin {"new", "enqueued"}
        => row[m] \in {"processed", "queued"}

\* A message with a file runs on the document budget through every retry and recovery:
\* only what the operator replays from the dead-letter queue has the text one
\* (api/main.py: a document gets worker_document_job_timeout).
DocumentKeepsItsBudget ==
    \A job \in Queued \cup scheduled \cup abandoned \cup Held :
        job.msg \in Documents /\ job.budget = "text" => tool.runs > 0

\* Every message taken from the bridge is eventually handled, or parked where the
\* operator finds it, unless a fault of the api or of Redis lost it or its worker died
\* on its last run.
TakenIsServed ==
    \A m \in Msgs :
        Acked(m) ~> \/ Served(m) \/ \E job \in dlq : job.msg = m
                    \/ m \in orphaned
                    \/ faults["api"] + faults["redis"] > 0
=============================================================================
