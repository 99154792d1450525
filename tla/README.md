# Frilivin WhatsApp bot: TLA+ models, checks and proofs

The bot moves messages between WhatsApp and a Python application through a
Node bridge. This directory models the parts of it where order, failure and
time matter, checks them with TLC on small instances and proves, with TLAPS and for
every size of the instance, the safety of all of them. Every
definition is translated from the code; `PROJECT.json` maps each one to its lines.

## 1. The system

```
WhatsApp <-> bridge (wa.js) -> api-client.js -> POST /webhook  -> api/main.py -> SQLite row + RQ job
             bridge (outbox.js) <- http.js   <- POST /send     <- sending.py  <- worker/tasks.py <- RQ
                        \-> api-client.js    -> POST /internal/send-status -> api/main.py -> SQLite row
```

| Component | State | Operations | What makes it correct |
|---|---|---|---|
| Outbox (`bridge/src/outbox.js`) | queue in memory, draining and stopped flags, `path` and `path.tmp` on disk | enqueue, drain loop, retry and give up, persist, load, stop | one loop; the head it holds is the one it removes; what was answered 202 survives a restart; order; every duplicate has a cause |
| Api client (`api-client.js`) | pending buffer, flush timer | sendWebhook with attempts, buffer, flush, sendStatus | messages are delayed, not lost; a buffered message has a timer; order |
| WhatsApp connection (`wa.js`) | current socket, connected / loggedOut / connecting flags, reconnect timer, watchdog | connect, events, reconnect, supervise, stop; sendText and sendDocument for the outbox | one socket, and one rival for each watchdog tick that found a handshake; the flag is up only for an open socket; a dead chain is restarted; nothing replaces a revoked session |
| HTTP and wiring (`http.js`, `index.js`) | none | POST /send, /groups, /health, shutdown | 202 only after enqueue |
| Api (`api/main.py`) | none (SQLite and Redis hold it) | POST /webhook, POST /internal/send-status | each message is taken once |
| Ledger (`db.py`) | `messages` rows with a status, `state` keys | record_inbound (INSERT OR IGNORE), mark_status (UPDATE), record_outbound (INSERT OR REPLACE) | statuses say what happened |
| Queues and worker (`queues.py`, `worker/*`) | RQ queue, scheduled retries, dead-letter queue | process_message, exception handler, scheduler | what is lost shows; handlers run once unless something failed |
| Dead-letter tool (`tools/dlq.py`) | none | list, requeue, purge | a replay loses nothing, whenever it dies |
| Sending (`sending.py`, `bridge_client.py`) | row per outbound message | quota, row, POST /send | nothing disappears silently |
| Rate limiter (`ratelimit.py`) | a counter per minute and per day in Redis | check_and_consume (Lua) | quotas hold; refusals are free |
| Pipeline (`processing/registry.py`, `base.py`, `worker/tasks.py` run_pipeline) | the chain of handlers, found once per process | match and run in order, stop_propagation | a message meets the handlers meant for it; a retry repeats a run, and shows |
| Broadcast handler (`broadcast.py`, `jids.py`) | the counter and aliases in `state` | allowlist, parse, cap, send, receipt | the receipt accounts for every line and leaves; the counter tells what was handed over |
| Ping, group relay, fallback | the relay counter | one answer; a copy for each target; a log line | the counter tells what was relayed |
| Quoted-message cache (`quoted-cache.js`) | the last messages, by id | set, get | a reply loses its quote only to newer messages |
| Sage import handler (`sage_import.py`, `sage/service.py`) | index cache, output file | generate, answer | the sender gets the file of his order, whole |
| Sage generator (`sage/generator.py`) | none | read an order file, find customer and articles, VAT regime, rows, report | no line dropped or moved, no customer without a reason, mention and rates of the right region |
| Extraction, settings, logging | none | pure functions | see "Not modelled" |

How they interact, and where it is hard:

- **Interleavings.** The bridge is one event loop, but every `await` lets another
  request, timer or event in: saves of the outbox overlap, flushes overlap,
  a socket's events come after it was replaced. The api, the worker and the
  operator's tool are processes that share SQLite and Redis.
- **Crashes.** Docker restarts every container; what is in memory (webhook buffer,
  drain loop, a job being run) is gone, what is on disk or in Redis is not.
- **Handing over.** The outbox knows nothing of sockets: it calls `sendText` and
  `sendDocument` while the connection under them is closed, rebuilt or replaced.
- **Retries and duplicates.** Baileys redelivers, the bridge posts a webhook several
  times, RQ runs a job again from its start, the operator replays dead letters.
- **Late answers.** A call may have taken effect although it timed out: the webhook,
  POST /send, the status callback, a send WhatsApp took although its `await` rejected.
- **Shared names.** The import file is named after three digits and read by another
  process when the message's turn comes.
- **Order files.** Two formats, several orders in one file, fuzzy names, two tables
  of countries: what goes wrong is an invoice that looks right.

`PROJECT.json` lists each hazard at its line with the properties about it.

## 2. Modules

| Module | Models | State and actions |
|---|---|---|
| `Outbox` | `outbox.js`, with crash and restart | `queue`, `draining`, `stopped` are the fields; `loop` is where each activation of `#drain` waits; `save` is each `#persist` in flight. `Enqueue`, `Wake`, `WhatsAppAccepts`, `SendResolves`, `SendFails`, `BackoffOver` are the stretches between two awaits, and `SendFails` may come after `WhatsAppAccepts`: a timeout or a closed socket rejects a send WhatsApp took; `Stringify`, `OpenTmp`, `WriteTmp`, `Rename`, `FsError` are the file system calls of one save, and the step that ends a save also runs what awaited it (`AfterSave`: answer 202 and kick, or resume the loop). `Stop`, `Crash`, `Exit`, `Load` are the process. |
| `DurableDelivery` | what POST /send promises, without queue or file | `promised`, `held`, `copies`, `tries` |
| `OutboxRefinement` | the refinement mapping: `held` is what the queue file names | |
| `OutboxProofs` | theorems about `Outbox` and its refinement | |
| `Ingest` | `api/main.py` webhook, `db.py`, `queues.py`, `worker/*`, `tools/dlq.py` | One step per SQL statement or Redis command. `call` is each webhook call, `worker` the job that runs, `tool` the replay; `row` is the status column. RQ is external: one job at a time, exception handlers before the retry is counted, a dead worker's job recovered while it has retries (`Recover`), else moved to RQ's failed registry (`Orphan`), which no code of the repository reads. |
| `IngestProofs` | theorems about `Ingest` | |
| `WebhookDelivery` | `api-client.js` | `sender` is each `sendWebhook`, `flusher` each activation of `flush`; a post that fails may have reached the api. |
| `WebhookDeliveryProofs` | theorems about `WebhookDelivery` | |
| `Sending` | one broadcast job: `broadcast.py` run, `run_pipeline`, `sending.py`, `bridge_client.py`, `send_status` | `pc`, `attempt`, `pos` are where the job is; `tokens` and `today` what is left of the minute and of the day; `row` the ledger, `bridge` what the bridge did, `callback` the status call. |
| `SendingProofs` | theorems about `Sending` | |
| `RateLimiter` | `ratelimit.py` and Redis' expiry | The key names are made from the client's clock in one step, the script runs in a later one, or never (`Abandon`: Redis fails or the client dies). |
| `Pipeline` (extends `RateLimiter`) | `run_pipeline`, the registry, every handler's match and run, `jids.py`, the state table's counters | `chain` is what the registry found, `job` the steps the running handler still has to make. A handler's run is the sequence of its sends and counts (`Fanout`, `Relay`, `SageImport`); `AskQuota` and `SendStep` are the two halves of one `ctx.send`, with other clients in between; `SendFails`, `HandlerRaises` and `RunBreaks` (the job's time limit, an error of Redis or SQLite, a killed worker, at any step) end the run, and RQ starts it again. |
| `MCPipeline` | values for it: addresses in every form, 17 messages, one or two at a time | |
| `PipelineProofs` | theorems about `RateLimiter` and `Pipeline` | |
| `WaConnection` | the connection life cycle of `wa.js` | The fields are the variables; `building` counts calls of `#openSocket` in flight; `sock` is what each socket really does, silence included; the watchdog ticks whenever it likes, and `rivals` counts its ticks that reconnected during a handshake. |
| `BridgeSession` (extends `WaConnection`) | the outbox's head over the connection, `quoted-cache.js` | `Attempt` is a send up to its first await, `FileRead` the rest of `sendDocument`; `via` is the socket the message went to; a failure keeps its cause: no socket open (`outage`), the send `rejected`, the file `missing`, another socket involved (`rival`), or `wasted`. `Reload` is the new process that finds the head on disk and the cache empty. |
| `BridgeSessionProofs` | theorems about `WaConnection` and `BridgeSession` | |
| `SageImport` | `sage_import.py`, `sage/service.py`, the file, `sendDocument` | The export and its reads are numbers for states of the file; the output file is truncated, then filled; the bridge reads it later, and gives an answer up after `MaxAttempts` failed deliveries (`GiveUp`). |
| `SageImportProofs` | theorems about `SageImport` | |
| `SageOrders` | `generator.py` from the rows of a file to those of the import, `_warnings`, `_caption` | The reader takes one row per step (`ReadTitle` ... `ReadProduct`, `ReadLine`), `MakeInvoice` one order; scores are in hundredths, likeness of names a parameter. |
| `MCSageOrders` | values for it: exports and files | |
| `SageOrdersProofs` | theorems about `SageOrders` | |

Composition: `Pipeline` runs the worker on the limiter with other clients beside it,
`BridgeSession` the outbox's head on the connection, `OutboxRefinement` relates `Outbox`
and `DurableDelivery`. `Sending` and `SageImport` use the bridge at the level of its
promise (a message is held, then sent or failed), `Sending` the limiter as tokens of the
minute and of the day; `Pipeline` leaves the ledger's rows to `Sending` and the answer's
file to `SageImport`.

Some operators are marked `Fault:`. They are variants of the operator beside them,
with one plausible mistake; no action uses them. They serve to confirm that each
property can fail.

## 3. What the runs check

All runs are `tlc -config <run>.cfg <module>`.

| Run | Module | Shows |
|---|---|---|
| `OutboxQueue` | `Outbox` | With overlapping saves, an I/O error, a crash and sends that reject late: `OneDrain`, `HeadStable`, `NoLostWakeup`; a message goes out twice only after a crash or a send that rejected although WhatsApp had taken it (`DuplicatesAreExplained`); first deliveries keep the order of POST /send (`FirstDeliveriesInOrder`); "failed" is reported only after maxAttempts rejected sends, over all the runs of the process (`NeverGivesUpEarly`). |
| `OutboxDisk` | `OutboxRefinement` | If saves neither overlap nor fail: a message answered 202 is eventually finished, over two crashes (`AcceptedIsFinished`), and the outbox implements `DurableDelivery`, which never forgets what it promised (`KeepsThePromise`). |
| `OutboxOverlap` | `Outbox` | If two saves overlap, a message answered 202 may be missing from the queue file: `AcceptedIsDurable` fails (finding 1). |
| `Ingest` | `Ingest` | A lost message never reads processed, and was lost by the api, which leaves it at "received", by Redis, or by a worker that died on the job's last run (`LossShowsInLedger`); handlers run to the end twice only after a fault (`HandledTwiceNeedsAFault`); final statuses while neither worker nor tool dies (`HandledReadsProcessed`); retries and recoveries keep a document's time budget, replays do not (`DocumentKeepsItsBudget`); messages taken are served or parked, but for those losses (`TakenIsServed`). |
| `IngestCrash` | `Ingest` | `NothingLost` fails when the api dies between row and job (finding 2). |
| `Webhook` | `WebhookDelivery` | Only a race of flushes loses a message (`LossNeedsARace`); `BufferHasTimer`; `FlushesInOrder`; a message arrives unless the bridge stops, the buffer overflows or a payload the api refuses is before it (`AllArrive`). |
| `WebhookOverlap` | `WebhookDelivery` | `DelayedNotLost` fails when a second flush starts while one waits (finding 3). |
| `Sending` | `Sending` | `NothingSilent`; a 202 that comes too late makes the ledger wrong about one message of a run that failed, and of no other (`LateAnswerCostsOneRow`); a run that begins a full minute, with enough of the day left, delivers its batch and its receipt (`FullMinuteSuffices`); `SettledRowIsFinal` (but for that late 202); `RowsSettle`. |
| `Pipeline` | `MCPipeline` | With a handler that cannot be loaded, a send that fails or a run cut short at any step, retries and another client: `QuotaHolds`, `RefusalsAreFree`; the receipt puts every line of the batch on one side, those the quota refused among the sent (`ReceiptAccountsForAll`); the broadcast counter never exceeds the entries the bridge or the quota decided on, and equals them if no run was cut short, the relay counter has every relayed message and at most one more for each run that failed (`CountersTellRuns`). |
| `BridgeSession` | `BridgeSession` | With a watchdog that ticks at any moment: what is connected or on its way is one socket and one rival for each tick that found a handshake (`OnlyATickAddsASocket`); the flag is up only while a socket is open, and tells of the current one until there is a rival (`FlagIsAboutASocket`); after a logout only rivals may still connect (`RevokedRests`); `CorpseRevives`; an attempt is never used up beside the one open socket (`NoAttemptIsWasted`); the cache is exactly the messages received or quoted last (`CacheKeepsTheLatest`). |
| `SageImport` | `SageImport` | `AloneGetsOwnFile`, `FreshIndex`; a job that is done has its answer on the way, in the chat, or given up by the bridge after all its attempts (`NeverSilent`). |
| `SageOrders` | `MCSageOrders` | Lines stay in their order and their table (`LinesKept`), customers are attached for a reason, the best one whenever one reaches the threshold (`AttachedForAReason`), mention and rates are those of the region the address names, but for the spellings the region tables lack (`MentionMatchesRegion`), an article of the line's colour is preferred (`OwnColourFirst`), the caption shows or counts all there is to check (`NothingHidden`). |

### Findings

Each quotes its source in `PROJECT.json`.

1. **Overlapping saves** (`outbox.js:177-187`). All saves write `path.tmp`; a rename
   may publish what another save has just truncated and answer 202 for a message the
   file lacks, against the promise of lines 8-10 and 182. The run ends there; a death of
   the process before the next save would drop the message.
2. **Row before job** (`api/main.py:113-123`). A crash or a Redis error in between
   turns every redelivery into a duplicate of a message that never runs. The row
   stays "received", which is how it can be found.
3. **Overlapping flushes** (`api-client.js:121-131`). Two activations post the same
   head and shift twice; the second shift drops a message never posted.

The models reach other behaviours a reader of the code should know. They are
written into the conditions of the properties that pass:

- A send may reject although WhatsApp took the message, by a timeout or a socket that
  closes (`outbox.js:127`, `wa.js:466, 494`). The loop retries: a duplicate without a
  crash. If it was the last attempt the row reads "failed" for a message that arrived.
- A job whose worker dies on its last run goes to RQ's failed registry, past the exception
  handler, and expires there with its `failure_ttl` (`api/main.py:128`): it is not in the
  dead-letter queue, which `worker/main.py:29` says parks "every" such job and
  `tools/dlq.py:3-4` replays from. Nothing marks its row "dead". `Orphan`.
- A replay that dies after its copy leaves the job in the dead-letter queue as well
  (`tools/dlq.py:58`). A second replay runs it again, and the status then tells of the
  last of two runs: `HandledReadsProcessed` asks for a tool that does not die.
- The output file is named after three digits (`sage/service.py:148`): a second order
  that ends alike overwrites the file of the first before the bridge has read it, and
  the first sender gets it. `AloneGetsOwnFile` is about orders with a suffix of their own.
- A payload the api refuses for good (422) is buffered like one it could not take, and
  every payload behind it waits (`api-client.js:128`): the condition of `AllArrive`.
- During an outage longer than the backoffs the outbox gives messages up
  (`outbox.js:135`): `outage` is a cause `NoAttemptIsWasted` allows, as is `rival`, since
  a message goes to the current socket although another may be the open one.
- A message at the limit of a text is too long once the relay has put its title before
  it (`group_relay.py:43`), and so is a receipt that explains many lines
  (`broadcast.py:212`): `Outbound` raises, every retry counts the relay again or sends
  the whole batch again, and no receipt is ever written. `HandlerRaises`.
- A job that fails after the relay counter moved moves it again (`group_relay.py:48`),
  and one cut short between the broadcast's sends and its counter (time limit, Redis,
  SQLite, a dead worker) leaves entries handed over uncounted (`broadcast.py:169`).
- The outbox gives the answer to an order file up after its last attempt
  (`outbox.js:135-145`): the sender hears nothing, against `sage_import.py:5-6` ("never
  with silence"), and only the row tells. `GiveUp`.
- The settings' `normalise_jid` keeps any domain, a destination is read by
  `resolve_jid`, which refuses unknown ones (`jids.py:46, 75`).
- A product row of a Taylorman file one of whose cells says REFERENCE is taken for a
  header (`generator.py:529`): excluded from `LinesKept`.
- A VAT mode of a customer's card that the generator does not know is exempt, without
  category or reason (`generator.py:247`): the last conjunct of `MentionMatchesRegion`
  asks for known modes.
- A country in a spelling the region tables lack is outside the Union, although
  `_PAYS_TABLE` knows it: FRA, MQ, ITA, ITALY, NLD, NETHERLANDS and the like of the other
  members, which the model leaves out as they behave as Italy does; and the Netherlands
  under their own French name, since `norm_nom` makes "PAYS BAS" of the "PAYS-BAS" that
  `PAYS_UE` holds (`generator.py:76-91, 226`). If the customer's card gives no mode, such
  an order is invoiced without VAT and with the wrong mention. `Missed` names the
  spellings; `MentionMatchesRegion` states what they get.
- The name of an order without a customer may not fit cp1252: the order is refused and
  an empty file stays (`generator.py:661`).
- A fast worker writes "processed" before the webhook writes "queued"
  (`api/main.py:131`): `HandledReadsProcessed` has to allow both.
- The dead-letter job and its replay have the text budget, also for messages with a
  file (`worker/main.py:57`, `tools/dlq.py:58`): `ParkJob`, `ReplayCopy`.
- A buffer that overflows under a flush drops two messages for one
  (`api-client.js:105`): the second half of `raced`.
- A 202 that comes too late leaves "failed" over the final status (`sending.py:69`):
  the exception in `SettledRowIsFinal`.
- The receipt lists sends the quota refused as sent, in a minute or a day other jobs
  have used (`broadcast.py:163`), against the header ("a receipt naming what left and
  what did not", `broadcast.py:11-14`) and the comment on the cap (`110-112`); and the
  receipt is itself refused when the quota is one per minute. `ReceiptAccountsForAll`
  says on which side refused lines are; `FullMinuteSuffices` asks for a full minute with
  enough of the day left, and its run for a quota of two.
- The watchdog cannot tell a handshake that is under way from a socket that went silent:
  `#connecting` is reset as soon as the listeners are attached (`wa.js:262-271`), so a
  tick before `open`, or during a QR code nobody scans, builds a second socket beside
  the first, against the comment of `wa.js:101-103` ("Nothing pending and not connected
  is precisely that corpse"), the log line of 144 and the "rival socket" comments of 119
  and 263. Events of both go to the same handlers (`wa.js:305`): a close of one lowers
  the flag beside the other, and a rival may reconnect a session that was revoked.
  `rivals` counts these ticks; the properties bound what they do.
- The caption may be made from a newer export than the file (`service.py:161, 179`).
- The quota may refuse the answer to an order file: `NeverSilent` excuses it.

### Bounds, and why they are enough

- Outbox: two messages, two activations (one more than the code means to have), two
  overlapping saves: the smallest instance in which a head can be confused with
  another message, a second loop can exist and a rename can publish another save's
  file. Two attempts tell a retry from giving up, and each may
  reject before or after WhatsApp took the message. One crash with overlapping saves;
  two with single ones, since what is checked there is what restarts leave behind.
- Ingest: messages do not touch each other's rows, so one suffices for the statuses;
  two deliveries make a duplicate, one retry separates scheduled from exhausted, and
  one fault of each process may fall between any two steps. The replay has at most
  two jobs of that message to go through, and two replays let the second find what the
  first left when it died.
- WebhookDelivery: three messages, a buffer of two, two flushes; seven failures let
  every message use its attempts and one flush fail. One message is refused for good;
  it may be before, between or behind the others.
- Sending: two lines against a cap of one gives both a batch that is sent and one that
  is refused whole; two runs give a retry. The day's quota of three is above a batch with
  its receipt and below two of them, so that a day ends within a run and in a full minute.
- Pipeline: the quota of three tells a cap of two from the receipt's token; three
  minutes over two days let a key expire and a day's count outlive a minute's, and the
  theorems cover every other length; a time to live is the period plus the lag, as 120 s
  and 48 h more than are. Batches of up to five lines have every kind of line, a
  repeated recipient, an alias in both tables, and one entry above the cap. Two messages
  at a time share the quota and the counters. One run is cut short, at any step; a job
  is parked after two runs that raised, or one of each. The theorems cover any number of
  both.
- BridgeSession: three sockets, whose names are free again once dead and once no send
  waits for them: the one a send waits for, the current one and a rival. One tick of
  each process lands in a handshake; the theorems cover any number. Two attempts tell a
  retry from giving up; a cache of two under three messages evicts.
- SageOrders: in the table format orders of up to four rows, in the Taylorman format
  every sequence of five rows after a title and a number, and shorter ones that start
  anywhere; five customers and five articles for every outcome of the look-ups. The
  likeness of names is a function of small range: only its comparison with the
  threshold matters.
- SageImport: two spreadsheets with every choice of suffixes, one replaced export, two
  failed calls, one retry, and two attempts of the bridge to deliver each answer.

CHECK_DEADLOCK is FALSE in every run: the environment of each model is bounded, and
a system with all its messages handled has nothing to do.

### Fairness

Weak fairness only, and only on what the code or its platform drives: timers fire and
promises settle (`Drain`, `Persist`, `Send`, `Flush`, `TimerFires`, `WatchdogTick`,
`SocketBuilt` or `BuildFails`); a
worker goes on with its job and RQ's scheduler runs in it (`worker/main.py:106`); RQ
finds the job of a dead worker, to run it again or to register it as failed; a
process that stopped exits and Docker restarts it (`restart: unless-stopped`). Nothing
obliges a request to come, a send to succeed, WhatsApp to answer, a fault to happen or
an operator to look.

## 4. What is proved

A theorem holds for every value of the constants the module's named assumption allows:
any sets of messages, sockets, sheets or clients, any number of attempts, retries and
faults. Each `...Assumption` only says that bounds are naturals, that what must be
positive is, and that markers such as `NoId` are not elements; TLC evaluates it in every
run. The three hypotheses beyond that (`OneCleanSave`, a quota above one
per minute, `100 < Threshold * MinWords`) are named below where they are used.

Each proof has one lemma per action of the next-state relation, and lemmas about what
the module's operators do to sequences and sets. `Fault` operators play no part in them.

### Outbox (`OutboxProofs`)

`TypeCorrect`, `OneDrainHolds`, `HeadStableHolds`, `NoLostWakeupHolds` from

    IInv == TypeOK /\ OneDrain /\ HeadStable /\ NothingWhenDown /\ NoLostWakeup

`HeadStable` is what allows `Tail(queue)` to be called the removal of the sent item. It
is not inductive by itself: a second loop could shift the queue, so `OneDrain` is
needed; a restart could find a loop, hence `NothingWhenDown`. `OneDrain` needs that a
kick looks at `draining`, and `NoLostWakeup` that whoever clears `draining` saw an empty
queue or `stopped`.

`NeverGivesUpEarlyHolds`, `DuplicatesAreExplainedHolds`, `FirstDeliveriesHolds` need to
know what a restart can find, with any number of overlapping saves and I/O errors.
`DeliveryInv` says of the queue, every snapshot being saved and both files that they are
sorted by the order of the requests and count no attempt that did not fail
(`CopiesAreGood`); that a copy sent is paid for by a crash, by a rejection after
WhatsApp took it (`late`), or is the first (`CopiesPaid`); and that a message which left
the queue unsent is in no copy a later rename could publish (`LostStaysLost`), so that
it cannot come back and be late.

`AcceptedIsDurableHolds` and `PromiseIsKept` assume `OneCleanSave`: one save at a time
and no I/O error. That is the case the code handles; the run `OutboxOverlap` refutes the
first of them without it. `FileInv` says that the snapshot in flight is the queue, and
that the file is the queue or one change behind it, made by the loop that waits for the
save. `PromiseIsKept` is `Spec => KeepsThePromise`: every step of the outbox, a crash
included, is a step of `DurableDelivery` or none.

### Ingest (`IngestProofs`)

`LossShowsHolds`, `HandledTwiceHolds`, `HandledReadsProcessedHolds`, `BudgetHolds`, from
an invariant in layers: a job is in one place, of queue, scheduler, registry of dead
workers, worker, dead-letter queue and replay (`OnePlace`), with a number of its own
(`Numbered`); a job exists only for a message the ledger knows (`JobsAreBorn`). On these
rest the four conjuncts that carry the properties. `RunsArePaid` counts, for each
message, the runs made and the jobs that may still run it, and bounds them by one plus
the deaths of worker and tool; a retry, a recovery and a replay each pass a token on.
`LedgerTells` says a message is covered by a job, served, reads "received", or was lost
by Redis or with the worker of its last run; `ProcessedIsHandled` that a row reads
"processed" only if handlers succeeded.

### Webhook (`WebhookDeliveryProofs`)

`BufferHasTimerHolds`, `LossNeedsARaceHolds`, `FlushesInOrderHolds`, from

    WInv == WebhookType /\ BufferHasTimer /\ BufferedOnce /\ PostsTheHead /\ Accounted /\ InOrder

`PostsTheHead` is what makes the shift after the `await` remove the message that was
posted: as long as no flush overlapped another, what a flush posts is still the head.

### Sending (`SendingProofs`)

`LateAnswerCostsOneRowHolds`, `NothingSilentHolds`, `SettledRowIsFinalHolds`, and, for a
quota above one per minute, `FullMinuteSufficesHolds`: with a quota of one the cap is
one and nothing is left for the receipt (`broadcast.py:115`), so the property fails
there. The invariant has `RowFirst` (the row is written before the call, so a callback
finds it), `PostedOnly` (the bridge holds nothing of positions the job has not reached),
`CallbacksAgree`, `OneRowIsWrong` (a row that contradicts the bridge is that of the last
position of a run that failed), and `TokensSuffice` (a run that began a full minute with
enough of the day left has spent at most a token of each for each position behind it).

### Rate limiter and pipeline (`PipelineProofs`)

For the limiter: `TypeCorrect`, `QuotaAlwaysHolds`, `RefusalsAlwaysFree`.
`RateAssumption` says a window is not empty, and its counter's time to live is at least
the window plus the lag between reading the clock and running the script (in the code
120 s for a minute and 48 h for a day, so the lag may be up to one window). The quota is
not inductive: a counter that expired would start again from zero. The invariant

    IInv == TypeOK /\ Punctual /\ KeysTrue

adds that a script runs within `MaxLag` of its clock (`Punctual`), and for each key
(`KeysTrue`) that a counter equals what was granted and lives until `MaxLag` after its
window, and that a missing one was never used or can no longer be named. The arithmetic
of windows is in the lemma `Window` (`t \div len`), the two ways a counter changes in
`TimeKeepsKey` and `GrantKeepsKey`.

For the pipeline, `PipelineIsLimited` is `PipelineSpec => Spec`: each step of the worker
is a step of the limiter or leaves it alone. `PipelineKeepsQuota` and
`PipelineRefusalsFree` follow. `ReceiptAlwaysAccounts` and `CountersAlwaysTell` need

    PInv == TypeOK /\ Course /\ BroadcastCounted /\ RelayCounted /\ ReceiptAccountsForAll

`Course` says where the running handler is: its remaining steps are the rest of the
steps its run began with, and the records of this run are exactly those of the steps
made (`Progress`), the handlers that already ran are those before it in a chain without
repetition (`InTurn`, `ChainSound`). A receipt speaks of the batch its run was made
from, so it is true only because every step before it was made: that is `Progress`. The
broadcast counter moves after the sends it counts, so the invariant has the entries
handed over and not counted yet (`BroadcastCounted`): counter and these are at most all
entries, and equal to them as long as no run was cut short. The relay counter moves
first, so it lies between the messages relayed, with the one the running handler has
counted, and these plus the runs cut short or ended by a raise (`RelayCounted`). The
parsing of a batch is a set of entries and its ascending sequence; lemma `AscendingIs`
shows that this sequence has each element once, in order, by ranks instead of induction.

### Connection and session (`BridgeSessionProofs`)

`OnlyATickAddsASocketHolds`, `FlagHolds`, `RevokedRestsHolds` of `WaConnection`, and for
the session `SessionCountsItsSockets`, `NoAttemptIsWastedHolds` and
`CacheKeepsTheLatestHolds`. None has a hypothesis: the watchdog ticks at any moment. The
connection's invariant is

    IInv == ConnectionType /\ Counted /\ OneIsLost /\ FlagHasSocket /\ OnlyCurrentLives

`Counted` counts what is connected or may become so: live sockets, builds in flight and
the timer are at most one and one for each rival, and after a logout one less, since a
revoked session starts nothing. Every step but a tick takes a source away before it adds
one; `OneIsLost` is about the ticks: where the watchdog would act and no handshake is
on, a source has been lost, and the one it starts makes up for it. `OnlyCurrentLives` says
that without a rival the current socket is the only one alive: whichever socket an event
comes from, the handlers may take it for the current one. The second half of
`FlagIsAboutASocket` and `NoAttemptIsWasted` rest on it.

### Sage import (`SageImportProofs`)

`FreshIndexHolds`, `NeverSilentHolds` (an answer that left the outbox unsent was tried
`MaxAttempts` times), `AloneGetsOwnFileHolds`. The last one needs to
follow the file from the end of its write to the chat (`OwnFromThere`): in the directory
while the answer waits in the outbox, and in the bridge's buffer after it was read.

### Order files (`SageOrdersProofs`)

All five invariants of the run, for any files of any length, any exports, any function
for the likeness of names. `SageOrdersAssumption` says that rows and names are sequences
and scores naturals. The base is `CourseHolds`: the orders stay records with a sequence of
lines, no invoice is made before the file is read, and invoice k is `Invoice(orders[k])`.

- `LinesKeptHolds` is about a loop over the rows, so it needs what the reader has done at
  every row. `Kept` says that there are as many orders as heads before the row, the order
  of a head has exactly the products of that head before the row, in their order
  (`Collected`), and the reader's two flags mean what the properties of the file are
  stated with (`Tables`): an order is open iff no number or title came since some head,
  and `columns` is the last header, if none of these came since. `ProductBelongs` and
  `LineBelongs` are the heart: the guard the code tests at a row is true iff the row is a
  product of the last head. The place of a head is counted, not found by induction
  (`HeadsAre`).
- `MentionMatchesRegionHolds` compares the code's two ways to a region with the region the
  country's name stands for, `Missed` spellings apart, by cases on the address
  (`DefaultMentionIs`), `OwnColourFirstHolds` the two look-ups.
- `AttachedForAReasonHolds` assumes `100 < Threshold * MinWords`: one word in common, over
  at least `MinWords`, scores `100 \div MinWords`. In the code `MIN_MOTS_RECOUVREMENT` is
  2 and the threshold 60 by default; with a setting of 50 or less one common word would
  attach an order to a customer. The best customer exists because a finite set of scores
  has a greatest one.
- `NothingHiddenHolds` keeps the report complete for every invoice made (`Reported`), and
  counts: what is not among the n warnings shown is among the others (`HiddenAreCounted`).

### Only model-checked

- Every liveness property (`AcceptedIsFinished`, `TakenIsServed`, `AllArrive`,
  `RowsSettle`, `CorpseRevives`): temporal reasoning under fairness and ENABLED are out
  of the prover's reach.
- Durability when saves overlap, which does not hold (finding 1).

The type invariants hold by these theorems for every instance, so no run checks them.

## 5. Not modelled

- `extract.js`: a pure conversion, whose result the models start from.
- In `generator.py`: the decoding of xlsx and text files into rows, the search for a
  column by its name, quantities, prices and dates, and the fixed columns of a row.
  They compute one cell from one cell and keep no state.
- In `wa.js`: media download, group listing, dry-run mode, the QR code.
- The validations of `models.py` but for the limit of an outbound text, the parsing of
  settings (`config.py`): their results are the CONSTANTS.
- `display_name` and the texts of answers; `logging.py`, `dump_messages`, Docker and CI.
- Inside what is modelled: real time (delays are reduced to their order), message
  contents, HTTP authentication.

## 6. Plan

Done, in this order: outbox with its abstract specification and first theorems; ingest;
webhook delivery; sending; rate limiter and its theorems; connection; Sage import; the
pipeline on the limiter; the outbox's head on the connection, with the quoted cache;
order files; the theorems of section 4.

Next, in order of weight:

1. Batches of Baileys' upserts: a bridge that dies in the middle of one has not handed
   the rest to `sendWebhook` (`wa.js:396`).
2. Media: the download, its deadline and the retention of files.
