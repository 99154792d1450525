------------------------------ MODULE Pipeline ------------------------------
(***************************************************************************)
(* The worker's chain of handlers (worker/tasks.py run_pipeline,           *)
(* processing/) on top of the global quota: which handlers are loaded and *)
(* in which order, what each one matches, sends and counts, and what a     *)
(* retried job does again.  The addresses an operator types are read by    *)
(* processing/jids.py.                                                     *)
(*                                                                         *)
(* The worker runs one job at a time; the other clients of the limiter     *)
(* spend the same quota meanwhile.  The ledger's rows and the callbacks    *)
(* are in Sending, the answer of the Sage handler in SageImport.           *)
(***************************************************************************)
EXTENDS RateLimiter, SequencesExt

CONSTANTS
    Inbox,          \* the sets of messages that may be queued
    Worker,         \* the client that is the worker
    BroadcastAdmins, SageAdmins,    \* addresses as typed in the settings
    Broken,         \* the handlers one of which may fail to load
    StoredAliases,  \* aliases of the state table
    EnvAliases,     \* aliases of the settings
    RelayTargets,   \* relay_target_list
    MaxRecipients,  \* broadcast_max_recipients
    MaxRetries,     \* worker_max_retries
    MaxFaults       \* bound: runs of a job that are cut short

ASSUME PipelineAssumption ==
    /\ Worker \in Clients /\ MaxRecipients \in Nat
    /\ MaxRetries \in Nat /\ MaxFaults \in Nat
    /\ RelayTargets \in Seq(ToSet(RelayTargets))
    /\ \A box \in Inbox : \A m \in box : m.lines \in Seq(ToSet(m.lines))

VARIABLES
    chain,      \* get_handlers: the handlers the registry found, in order
    inbox,      \* the messages queued
    state,      \* the job of each message
    run,        \* how often each job was started
    job,        \* the job the worker is in
    counters,   \* the counters of the state table
    sends,      \* history: every ctx.send, with what became of it
    faults,     \* history: runs of a job that were cut short
    raises      \* history: runs that a handler ended by raising

pipeline == <<chain, inbox, state, run, job, counters, sends, faults, raises>>
allVars  == <<vars, pipeline>>
-----------------------------------------------------------------------------
(* Addresses: a token is what a human typed, [text, at, legacy, digits], where
   digits = 0 says that it is no number *)

KnownSuffixes == {"g.us", "s.whatsapp.net", "lid"}
NoJid         == <<"", "">>

ResolveJid(t) ==
    IF t.at # "" THEN IF t.at \in KnownSuffixes THEN <<t.text, t.at>> ELSE NoJid
    ELSE IF t.legacy \/ t.digits > 15 THEN <<t.text, "g.us">>
    ELSE IF t.digits >= 8 THEN <<t.text, "s.whatsapp.net">> ELSE NoJid

\* The device part is not in text: any domain is kept as it is.
NormaliseJid(t) == IF t.at # "" THEN <<t.text, t.at>> ELSE ResolveJid(t)

AdminJids(typed) == {NormaliseJid(t) : t \in typed} \ {NoJid}
-----------------------------------------------------------------------------
(* The registry *)

\* In the order of their priorities: 5, 10, 20, 50, 1000.
Order    == <<"SageImportHandler", "PingHandler", "BroadcastHandler",
              "GroupRelayHandler", "FallbackLogHandler">>
Handlers == ToSet(Order)
Stopping == {"SageImportHandler", "PingHandler", "BroadcastHandler"}

\* Broadcast without admins and relay without a target opt out.
Enabled ==
    Handlers \ ((IF AdminJids(BroadcastAdmins) = {} THEN {"BroadcastHandler"} ELSE {})
                \cup (IF RelayTargets = <<>> THEN {"GroupRelayHandler"} ELSE {}))

\* A set of numbers in increasing order.
Ascending(S) ==
    CHOOSE s \in [1 .. Cardinality(S) -> S] :
        \A i, j \in 1 .. Cardinality(S) : i < j => s[i] < s[j]

\* discover_handlers: one that cannot be imported, or is switched off, is left out.
Loaded(broken) ==
    LET places == Ascending({i \in DOMAIN Order : Order[i] \in Enabled \ {broken}})
    IN  [k \in DOMAIN places |-> Order[places[k]]]

Discover == \E broken \in Broken \cup {"none"} : chain = Loaded(broken)

NoJob == [stage |-> "idle"]

PipelineInit ==
    /\ Init
    /\ Discover
    /\ inbox \in Inbox
    /\ state = [m \in inbox |-> "waiting"]
    /\ run = [m \in inbox |-> 0]
    /\ job = NoJob
    /\ counters = [relay |-> 0, broadcast |-> 0, sage |-> 0]
    /\ sends = {} /\ faults = 0 /\ raises = 0
-----------------------------------------------------------------------------
(* The handlers: what each one matches, and the steps its run makes *)

IsSpreadsheet(m) == m.type = "document" /\ m.spreadsheet
IsPing(m)        == m.command = "!ping"
IsBroadcast(m)   == ~m.group /\ m.type = "text" /\ m.command = "!envoi"
IsRelayed(m)     == ~m.group /\ m.type = "text" /\ m.keyword
IsAnything(m)    == TRUE

Matches(h, m) ==
    CASE h = "SageImportHandler"  -> IsSpreadsheet(m)
      [] h = "PingHandler"        -> IsPing(m)
      [] h = "BroadcastHandler"   -> IsBroadcast(m)
      [] h = "GroupRelayHandler"  -> IsRelayed(m)
      [] h = "FallbackLogHandler" -> IsAnything(m)

NoReceipt == [sent |-> <<>>, failures |-> <<>>]

Count(key, n)      == [do |-> "count", key |-> key, by |-> n]
SendTo(jid, line)  == [do |-> "send", to |-> jid, line |-> line, says |-> NoReceipt]
Reply(m)           == SendTo(m.chat, 0)

\* Outbound refuses a text above MAX_TEXT_LENGTH: the handler raises.
TooLong            == [do |-> "raise"]
Receipt(m, report) == [Reply(m) EXCEPT !.says = report]

\* _alias: the state table wins over the settings.
Destination(t) ==
    ResolveJid(IF t.text \in DOMAIN StoredAliases THEN StoredAliases[t.text]
               ELSE IF t.text \in DOMAIN EnvAliases THEN EnvAliases[t.text] ELSE t)

\* parse_entries: blank lines and comments are skipped, a line is else an entry or an error.
Content(m)  == {n \in DOMAIN m.lines : m.lines[n].kind \notin {"blank", "comment"}}
IsEntry(l)  == l.kind = "entry" /\ l.to.text # "" /\ l.text
Entries(m)  == {n \in Content(m) : IsEntry(m.lines[n])}
Readable(m) == Ascending({n \in Entries(m) : Destination(m.lines[n].to) # NoJid})

EffectiveCap ==
    LET budget == IF PerMinute > 2 THEN PerMinute - 1 ELSE 1
    IN  IF MaxRecipients < budget THEN MaxRecipients ELSE budget

Sent(m) == [k \in DOMAIN Readable(m) |-> Destination(m.lines[Readable(m)[k]].to)]

\* Fault: what cannot be read is left out of the receipt.
FailuresUnread(m) == Ascending(Content(m) \ Entries(m))

Failures(m) == Ascending(Content(m) \ ToSet(Readable(m)))

\* The receipt explains each line it names: many lines of a long message make it too long.
Ending(m) ==
    IF m.long /\ Failures(m) # <<>> THEN <<TooLong>>
    ELSE <<Receipt(m, [sent |-> Sent(m), failures |-> Failures(m)])>>

\* Fault: the counter moves first, as the relay's does.
FanoutCountedFirst(m) ==
    <<Count("broadcast", Len(Readable(m)))>>
    \o [k \in DOMAIN Readable(m) |-> SendTo(Sent(m)[k], Readable(m)[k])]
    \o Ending(m)

\* The counter moves when every entry was sent, before the receipt is.
Fanout(m) ==
    [k \in DOMAIN Readable(m) |-> SendTo(Sent(m)[k], Readable(m)[k])]
    \o (IF Readable(m) = <<>> THEN <<>> ELSE <<Count("broadcast", Len(Readable(m)))>>)
    \o Ending(m)

\* A stranger is not answered; the usage and a batch above the cap have one answer.
Broadcast(m) ==
    IF NormaliseJid(m.from) \notin AdminJids(BroadcastAdmins) THEN <<>>
    ELSE IF Content(m) = {} \/ Cardinality(Entries(m)) > EffectiveCap THEN <<Reply(m)>>
    ELSE Fanout(m)

\* The text is that of the message under a title: a message at the limit is above it.
Relay(m) ==
    <<Count("relay", 1)>>
    \o (IF m.long THEN <<TooLong>>
        ELSE [k \in DOMAIN RelayTargets |-> SendTo(RelayTargets[k], k)])

\* The generation succeeds, or its failure is the answer.
SageImport(m) ==
    IF AdminJids(SageAdmins) # {} /\ NormaliseJid(m.from) \notin AdminJids(SageAdmins) THEN {<<>>}
    ELSE IF ~m.file THEN {<<Reply(m)>>}
    ELSE {<<Reply(m)>>, <<Count("sage", 1), Reply(m)>>}

Ping(m) == <<Reply(m)>>

\* Only logs.
FallbackLog(m) == <<>>

Runs(h, m) ==
    CASE h = "SageImportHandler"  -> SageImport(m)
      [] h = "PingHandler"        -> {Ping(m)}
      [] h = "BroadcastHandler"   -> {Broadcast(m)}
      [] h = "GroupRelayHandler"  -> {Relay(m)}
      [] h = "FallbackLogHandler" -> {FallbackLog(m)}
-----------------------------------------------------------------------------
(* run_pipeline *)

InStage(stage) == job.stage = stage
Handler == chain[job.at]
NextStep == Head(job.todo)

TakeJob(m) ==
    /\ InStage("idle") /\ state[m] = "waiting"
    /\ state' = [state EXCEPT ![m] = "running"]
    /\ run' = [run EXCEPT ![m] = @ + 1]
    /\ job' = [stage |-> "chain", msg |-> m, at |-> 1, todo |-> <<>>]
    /\ UNCHANGED <<vars, chain, inbox, counters, sends, faults, raises>>

\* The next handler that matches; those before it are passed over.
RunHandler ==
    /\ InStage("chain")
    /\ \E i \in job.at .. Len(chain) :
          /\ Matches(chain[i], job.msg)
          /\ \A k \in job.at .. i - 1 : ~Matches(chain[k], job.msg)
          /\ \E steps \in Runs(chain[i], job.msg) :
                job' = [job EXCEPT !.stage = "steps", !.at = i, !.todo = steps]
    /\ UNCHANGED <<vars, chain, inbox, state, run, counters, sends, faults, raises>>

CountStep ==
    /\ InStage("steps") /\ job.todo # <<>> /\ NextStep.do = "count"
    /\ counters' = [counters EXCEPT ![NextStep.key] = @ + NextStep.by]
    /\ job' = [job EXCEPT !.todo = Tail(@)]
    /\ UNCHANGED <<vars, chain, inbox, state, run, sends, faults, raises>>

AskQuota ==
    /\ InStage("steps") /\ job.todo # <<>> /\ NextStep.do = "send"
    /\ ReadClock(Worker)
    /\ UNCHANGED pipeline

Outcome(what) ==
    [msg |-> job.msg, run |-> run[job.msg], handler |-> Handler, to |-> NextStep.to,
     line |-> NextStep.line, says |-> NextStep.says, outcome |-> what]

\* LiveSender: a refusal of the quota is no error, the send counts as made.
SendStep ==
    /\ InStage("steps") /\ reading[Worker] >= 0
    /\ sends' = sends \cup {Outcome(IF Granted(MinuteOf(reading[Worker]), DayOf(reading[Worker]))
                                    THEN "accepted" ELSE "refused")}
    /\ Script(Worker)
    /\ job' = [job EXCEPT !.todo = Tail(@)]
    /\ UNCHANGED <<chain, inbox, state, run, counters, faults, raises>>

\* RQ runs the job again from the start, or parks it.
JobFails ==
    /\ job' = NoJob
    /\ state' = [state EXCEPT ![job.msg] = IF run[job.msg] > MaxRetries THEN "dead" ELSE "waiting"]

\* A BridgeError, or the run is cut short after its grant, whether or not the bridge took
\* the message.
SendFails ==
    /\ InStage("steps") /\ faults < MaxFaults
    /\ reading[Worker] >= 0 /\ Granted(MinuteOf(reading[Worker]), DayOf(reading[Worker]))
    /\ Script(Worker)
    /\ faults' = faults + 1
    /\ sends' = sends \cup {Outcome("failed")}
    /\ JobFails
    /\ UNCHANGED <<chain, inbox, run, counters, raises>>

\* Anywhere else, a handler's work, a grant or a record apart: the job's time is up, Redis
\* or SQLite fails, or the worker is killed and RQ finds its job.
RunBreaks ==
    /\ ~InStage("idle") /\ faults < MaxFaults
    /\ Abandon(Worker) \/ (reading[Worker] = -1 /\ UNCHANGED vars)
    /\ faults' = faults + 1
    /\ JobFails
    /\ UNCHANGED <<chain, inbox, run, counters, sends, raises>>

HandlerRaises ==
    /\ InStage("steps") /\ job.todo # <<>> /\ NextStep.do = "raise"
    /\ raises' = raises + 1
    /\ JobFails
    /\ UNCHANGED <<vars, chain, inbox, run, counters, sends, faults>>

HandlerDone ==
    /\ InStage("steps") /\ job.todo = <<>>
    /\ job' = [job EXCEPT !.stage = "chain",
                          !.at = IF Handler \in Stopping THEN Len(chain) + 1 ELSE @ + 1]
    /\ UNCHANGED <<vars, chain, inbox, state, run, counters, sends, faults, raises>>

FinishJob ==
    /\ InStage("chain") /\ \A i \in job.at .. Len(chain) : ~Matches(chain[i], job.msg)
    /\ state' = [state EXCEPT ![job.msg] = "done"]
    /\ job' = NoJob
    /\ UNCHANGED <<vars, chain, inbox, run, counters, sends, faults, raises>>

OthersSend ==
    /\ \E c \in Clients \ {Worker} : ReadClock(c) \/ Script(c) \/ Abandon(c)
    /\ UNCHANGED pipeline

TimePasses == Tick /\ UNCHANGED pipeline

PipelineNext ==
    \/ \E m \in inbox : TakeJob(m)
    \/ RunHandler \/ CountStep \/ AskQuota \/ SendStep \/ SendFails \/ RunBreaks
    \/ HandlerRaises \/ HandlerDone \/ FinishJob \/ OthersSend \/ TimePasses

PipelineSpec == PipelineInit /\ [][PipelineNext]_allVars
-----------------------------------------------------------------------------
(* Properties *)

SendsOf(m, handler, runs) == {s \in sends : s.msg = m /\ s.handler = handler /\ s.run \in runs}

\* The receipt names every line of the batch that is no comment, on one side: as sent, by
\* its recipient, each line that this run handed to the bridge or that the quota refused;
\* as ignored, by its number and in the order of the batch, each of the others.  So
\* "sent" is not what left, as the header of broadcast.py has it: a refused line, of which
\* nothing left, is told as one that did.
ReceiptAccountsForAll ==
    \A r \in sends : r.handler = "BroadcastHandler" /\ r.says # NoReceipt =>
        LET entries == {s \in SendsOf(r.msg, r.handler, {r.run}) : s.line # 0}
            handed  == {s \in entries : s.outcome = "accepted"}
            refused == {s \in entries : s.outcome = "refused"}
            lines   == {s.line : s \in handed \cup refused}
        IN  /\ lines \cap ToSet(r.says.failures) = {}
            /\ lines \cup ToSet(r.says.failures) = Content(r.msg)
            /\ {s.to : s \in handed \cup refused} = ToSet(r.says.sent)
            /\ Len(r.says.sent) = Cardinality(lines)
            /\ \A i, j \in DOMAIN r.says.failures : i < j => r.says.failures[i] < r.says.failures[j]

\* The broadcast counter never tells of more messages than the sender took or the quota
\* refused, and tells of all of them once the jobs are over if no run was cut short, by the
\* bridge, Redis, SQLite, its time limit or the death of the worker.  The relay counter has
\* each relayed message, and more only by runs that were cut short or that a text too long
\* to send ended.
CountersTellRuns ==
    LET entries == {s \in sends : s.handler = "BroadcastHandler" /\ s.line # 0 /\ s.outcome # "failed"}
        relayed == {s.msg : s \in {s \in sends : s.handler = "GroupRelayHandler"}}
    IN  /\ counters.broadcast <= Cardinality(entries)
        /\ faults = 0 /\ job = NoJob => counters.broadcast = Cardinality(entries)
        /\ Cardinality(relayed) <= counters.relay
        /\ job = NoJob => counters.relay <= Cardinality(relayed) + faults + raises
=============================================================================
