----------------------------- MODULE SageImport -----------------------------
(***************************************************************************)
(* From a received spreadsheet to the Sage import file in the sender's     *)
(* chat: SageImportHandler and sage/service.py in the worker, the file in  *)
(* the shared outbox directory, and the bridge that reads that file when   *)
(* the message's turn comes.                                               *)
(*                                                                         *)
(* The output file is named after the last three digits of the order, the  *)
(* bridge only gets its path, and the operator may replace the customer    *)
(* export at any time.  The worker runs one job at a time, each in a work  *)
(* horse forked for it: the index cache starts empty with every job.       *)
(***************************************************************************)
EXTENDS Naturals, FiniteSets, Sequences

CONSTANTS
    Sheets,             \* inbound messages that carry a spreadsheet
    Suffixes,           \* last three digits of an order number
    MaxRetries,         \* worker_max_retries
    MaxAttempts,        \* outbox_max_attempts of the bridge
    MaxReplacements,    \* bound: changes of the customer export
    MaxFaults           \* bound: calls of POST /send that fail

ASSUME SageAssumption ==
    /\ Suffixes # {} /\ MaxAttempts \in Nat \ {0}
    /\ {MaxRetries, MaxReplacements, MaxFaults} \subseteq Nat

VARIABLES
    suffix,     \* order_suffix of each spreadsheet's first order
    state,      \* the job of each spreadsheet
    left,       \* the retries each job has left
    worker,     \* the job that runs: its step, its sheet, the indexes it used
    cache,      \* _clients_cache: the export's identity and what was read
    export,     \* the customer export, one number for each state of the file
    file,       \* the output directory
    outbox,     \* the bridge's queue
    buffer,     \* what the bridge has read for the head of its queue
    tries,      \* failed deliveries of that head
    sent,       \* history: what WhatsApp took
    dropped,    \* history: answers the bridge gave up, each after how many failures
    faults      \* history: failed calls of POST /send

bridgeVars == <<tries, dropped>>
vars == <<suffix, state, left, worker, cache, export, file, outbox, buffer, sent, faults, bridgeVars>>

Absent  == [kind |-> "absent"]
Torn    == [kind |-> "torn"]    \* opened for writing, not written yet
Empty   == [key |-> 0, content |-> 0]
NoSheet == [pc |-> "idle"]

Init ==
    /\ suffix \in [Sheets -> Suffixes]
    /\ state = [s \in Sheets |-> "waiting"]
    /\ left = [s \in Sheets |-> MaxRetries]
    /\ worker = NoSheet
    /\ cache = Empty /\ export = 1
    /\ file = [x \in Suffixes |-> Absent]
    /\ outbox = <<>> /\ buffer = Absent
    /\ tries = 0 /\ dropped = {} /\ sent = {} /\ faults = 0
-----------------------------------------------------------------------------
(* The handler and generate() *)

Generating == {"load", "index", "open", "write", "reload", "reindex"}
At(pc) == worker.pc = pc
Goto(pc) == worker' = [worker EXCEPT !.pc = pc]

TakeJob(s) ==
    /\ At("idle") /\ state[s] = "waiting"
    /\ state' = [state EXCEPT ![s] = "running"]
    /\ worker' = [pc |-> "load", sheet |-> s, index |-> 0, caption |-> 0, key |-> 0]
    /\ cache' = Empty
    /\ UNCHANGED <<suffix, left, export, file, outbox, buffer, sent, faults, bridgeVars>>

\* load_clients looks at the export: the cached index serves if its key is the same.
LoadClients(here, miss, hit, field) ==
    /\ At(here)
    /\ worker' = IF cache.key = export
                 THEN [worker EXCEPT !.pc = hit, ![field] = cache.content]
                 ELSE [worker EXCEPT !.pc = miss, !.key = export]
    /\ UNCHANGED <<suffix, state, left, cache, export, file, outbox, buffer, sent, faults, bridgeVars>>

\* Fault: the key is taken after the file was read.
BuildIndexFirst(here, next, field) ==
    /\ At(here)
    /\ cache' = [key |-> export, content |-> worker.key]
    /\ worker' = [worker EXCEPT !.pc = next, ![field] = worker.key]
    /\ UNCHANGED <<suffix, state, left, export, file, outbox, buffer, sent, faults, bridgeVars>>

\* build_clients_index reads it, a moment later.
BuildIndex(here, next, field) ==
    /\ At(here)
    /\ cache' = [key |-> worker.key, content |-> export]
    /\ worker' = [worker EXCEPT !.pc = next, ![field] = export]
    /\ UNCHANGED <<suffix, state, left, export, file, outbox, buffer, sent, faults, bridgeVars>>

\* fabriquer ends with write_text: the file is truncated, then filled.
OpenFile ==
    /\ At("open")
    /\ file' = [file EXCEPT ![suffix[worker.sheet]] = Torn]
    /\ Goto("write")
    /\ UNCHANGED <<suffix, state, left, cache, export, outbox, buffer, sent, faults, bridgeVars>>

WriteFile ==
    /\ At("write")
    /\ file' = [file EXCEPT ![suffix[worker.sheet]] =
                  [sheet |-> worker.sheet, index |-> worker.index]]
    /\ Goto("reload")
    /\ UNCHANGED <<suffix, state, left, cache, export, outbox, buffer, sent, faults, bridgeVars>>

\* Fault: only the generator's own errors are answered, others fail the job.
FailWithoutAnswer ==
    /\ worker.pc \in Generating
    /\ worker' = NoSheet
    /\ state' = [state EXCEPT ![worker.sheet] = IF left[worker.sheet] = 0 THEN "dead" ELSE "waiting"]
    /\ left' = [left EXCEPT ![worker.sheet] = IF @ = 0 THEN 0 ELSE @ - 1]
    /\ UNCHANGED <<suffix, cache, export, file, outbox, buffer, sent, faults, bridgeVars>>

\* Whatever generate() raises, the job's timeout included, becomes a text answer.
GenerateFails ==
    /\ worker.pc \in Generating
    /\ Goto("postReason")
    /\ UNCHANGED <<suffix, state, left, cache, export, file, outbox, buffer, sent, faults, bridgeVars>>

Answer ==
    [sheet |-> worker.sheet, caption |-> worker.caption,
     kind |-> IF At("postReason") THEN "text" ELSE "document"]

\* Fault: the answer is posted while the file is still open.
PostEarly ==
    /\ worker.pc \in {"write", "postFile", "postReason"}
    /\ outbox' = Append(outbox, Answer)
    /\ state' = [state EXCEPT ![worker.sheet] = "done"]
    /\ worker' = NoSheet
    /\ UNCHANGED <<suffix, left, cache, export, file, buffer, sent, faults, bridgeVars>>

\* POST /send: the bridge has the answer before the job is over.
Post ==
    /\ worker.pc \in {"postFile", "postReason"}
    /\ outbox' = Append(outbox, Answer)
    /\ state' = [state EXCEPT ![worker.sheet] = "done"]
    /\ worker' = NoSheet
    /\ UNCHANGED <<suffix, left, cache, export, file, buffer, sent, faults, bridgeVars>>

\* The global quota refuses the answer: LiveSender does not raise, the job ends well.
QuotaRefuses ==
    /\ worker.pc \in {"postFile", "postReason"}
    /\ state' = [state EXCEPT ![worker.sheet] = "rate_limited"]
    /\ worker' = NoSheet
    /\ UNCHANGED <<suffix, left, cache, export, file, outbox, buffer, sent, faults, bridgeVars>>

\* The call fails, whether or not the bridge took the answer: the job is retried from
\* the start, or is dead.
PostFails ==
    LET s == worker.sheet IN
    /\ worker.pc \in {"postFile", "postReason"} /\ faults < MaxFaults
    /\ faults' = faults + 1
    /\ outbox' \in {outbox, Append(outbox, Answer)}
    /\ worker' = NoSheet
    /\ IF left[s] = 0
       THEN state' = [state EXCEPT ![s] = "dead"] /\ UNCHANGED left
       ELSE state' = [state EXCEPT ![s] = "waiting"] /\ left' = [left EXCEPT ![s] = @ - 1]
    /\ UNCHANGED <<suffix, cache, export, file, buffer, sent, bridgeVars>>

Generate ==
    \/ LoadClients("load", "index", "open", "index")
    \/ BuildIndex("index", "open", "index")
    \/ OpenFile \/ WriteFile
    \/ LoadClients("reload", "reindex", "postFile", "caption")
    \/ BuildIndex("reindex", "postFile", "caption")
-----------------------------------------------------------------------------
(* The operator and the bridge *)

ReplaceExport ==
    /\ export <= MaxReplacements
    /\ export' = export + 1
    /\ UNCHANGED <<suffix, state, left, worker, cache, file, outbox, buffer, sent, faults, bridgeVars>>

\* sendDocument reads the file when the message's turn comes.
ReadDocument ==
    /\ outbox # <<>> /\ Head(outbox).kind = "document" /\ buffer = Absent
    /\ buffer' = file[suffix[Head(outbox).sheet]]
    /\ UNCHANGED <<suffix, state, left, worker, cache, export, file, outbox, sent, faults, bridgeVars>>

WhatsAppTakes ==
    /\ outbox # <<>> /\ (Head(outbox).kind = "text" \/ buffer # Absent)
    /\ sent' = sent \cup {[answer |-> Head(outbox), document |-> buffer]}

TakeOff == outbox' = Tail(outbox) /\ buffer' = Absent /\ tries' = 0

Deliver ==
    /\ WhatsAppTakes /\ TakeOff
    /\ UNCHANGED <<suffix, state, left, worker, cache, export, file, dropped, faults>>

\* settle: the row of the message will read failed.
GiveUp == TakeOff /\ dropped' = dropped \cup {[sheet |-> Head(outbox).sheet, tries |-> tries + 1]}

\* Fault: an answer is given up at its first failure.
GiveUpAtOnce ==
    /\ outbox # <<>>
    /\ WhatsAppTakes \/ UNCHANGED sent
    /\ GiveUp
    /\ UNCHANGED <<suffix, state, left, worker, cache, export, file, faults>>

\* The socket is down, the file cannot be read, or WhatsApp refuses, be it after it took
\* the message: the file is read again for the next try, and the last one gives the
\* answer up.
DeliveryFails ==
    /\ outbox # <<>>
    /\ WhatsAppTakes \/ UNCHANGED sent
    /\ IF tries + 1 < MaxAttempts
       THEN tries' = tries + 1 /\ buffer' = Absent /\ UNCHANGED <<outbox, dropped>>
       ELSE GiveUp
    /\ UNCHANGED <<suffix, state, left, worker, cache, export, file, faults>>

Next ==
    \/ \E s \in Sheets : TakeJob(s)
    \/ Generate \/ GenerateFails \/ Post \/ PostFails \/ QuotaRefuses
    \/ ReplaceExport \/ ReadDocument \/ Deliver \/ DeliveryFails

Spec == Init /\ [][Next]_vars
-----------------------------------------------------------------------------
(* Properties *)

Documents == {d \in sent : d.answer.kind = "document"}
IsOwn(d)  == d.document \notin {Absent, Torn} /\ d.document.sheet = d.answer.sheet
Alone(s)  == \A t \in Sheets \ {s} : suffix[t] # suffix[s]

\* Whoever sends an order receives the import file of that order, and all of it
\* (sage_import.py: the operator forwards the order file and receives its import file),
\* when no other order in the queue ends in the same three digits and the job ran only
\* once: a file is never read while its job still writes it.
AloneGetsOwnFile ==
    \A d \in Documents :
        Alone(d.answer.sheet) /\ left[d.answer.sheet] = MaxRetries => IsOwn(d)

Answered(s) ==
    \/ \E n \in DOMAIN outbox : outbox[n].sheet = s
    \/ \E d \in sent : d.answer.sheet = s

GivenUp(s) == \E d \in dropped : d.sheet = s /\ d.tries >= MaxAttempts

\* The sender gets an answer whatever the generator raises (sage_import.py, "never with
\* silence"): a job that is done has one on its way or in the chat, but for one the
\* bridge failed to deliver as often as it may, and a job dies only of more refusals of
\* the bridge than it has retries.  What the quota refuses is never answered.
NeverSilent ==
    \A s \in Sheets :
        /\ state[s] = "done" => Answered(s) \/ GivenUp(s)
        /\ state[s] = "dead" => faults > MaxRetries

\* The cache never takes an index for that of a newer file, however the export is
\* replaced while it is read: a replaced export is noticed by the next call, with no
\* restart (service.py, _index_key).
FreshIndex == cache.key = export => cache.content = export
=============================================================================
