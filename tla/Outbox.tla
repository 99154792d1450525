------------------------------- MODULE Outbox -------------------------------
(***************************************************************************)
(* The bridge's persisted outbound queue (bridge/src/outbox.js).           *)
(*                                                                         *)
(* POST /send pushes an item, saves the queue and answers 202; one drain   *)
(* loop sends the head, with a pause before each send and a backoff after  *)
(* each failure.  Every await is a point where another request or the loop *)
(* may run, so each await is a step of its own here.  Saves are not        *)
(* serialised by the code: each one opens, writes and renames the same     *)
(* temporary file, and the file system steps of several saves interleave.  *)
(***************************************************************************)
EXTENDS Naturals, FiniteSets, SequencesExt

CONSTANTS
    Ids,            \* identifiers of the messages handed to POST /send
    Loops,          \* activations of #drain; the code means to have one alive
    NoId,           \* the item of an activation that holds none
    MaxAttempts,    \* maxAttempts of the constructor
    MaxSaves,       \* bound: how many saves the environment lets overlap
    MaxCrashes,     \* bound: exits of the process, killed or stopped
    MaxFsErrors     \* bound: saves that fail on an I/O error

ASSUME OutboxAssumption ==
    /\ MaxAttempts \in Nat \ {0}
    /\ {MaxSaves, MaxCrashes, MaxFsErrors} \subseteq Nat
    /\ Ids \cap Loops = {}
    /\ NoId \notin Ids

VARIABLES
    up,         \* the process runs
    stopped,    \* #stopped
    queue,      \* #queue
    draining,   \* #draining
    loop,       \* each activation of #drain: where it waits, the item it holds
    save,       \* each #persist in flight: its step, its snapshot, its file
    tmp,        \* the file `${path}.tmp`
    main,       \* the file at path, what load reads
    accepted,   \* history: requests answered 202
    order,      \* history: requests in the order they were pushed
    delivered,  \* history: messages WhatsApp accepted, in order
    fails,      \* history: failed sends of each message
    late,       \* history: of those, the ones WhatsApp had taken the message of
    settled,    \* history: what #settle reported
    crashes,    \* history: exits so far
    fsErrors    \* history: I/O errors so far

memory == <<stopped, queue, draining, loop>>
files  == <<tmp, main>>
ghosts == <<accepted, order, delivered, fails, late, settled>>
bounds == <<crashes, fsErrors>>
vars   == <<up, memory, save, files, ghosts, bounds>>

Item      == [id: Ids, attempts: Nat]
Writers   == Ids \cup Loops
File      == [kind: {"none", "empty", "mixed", "json"}, items: Seq(Item)]
NoFile    == [kind |-> "none",  items |-> <<>>]
EmptyFile == [kind |-> "empty", items |-> <<>>]
MixedFile == [kind |-> "mixed", items |-> <<>>]
Json(q)   == [kind |-> "json",  items |-> q]

NoSave    == [phase |-> "none",  items |-> <<>>, fd |-> "none"]
NewSave   == [phase |-> "mkdir", items |-> <<>>, fd |-> "none"]
Idle      == [pc |-> "idle", id |-> NoId]

Phases    == {"none", "mkdir", "stringified", "opened", "written"}
Fds       == {"none", "tmp", "main", "gone"}
Save      == [phase: Phases, items: Seq(Item), fd: Fds]

HeadPcs   == {"pause", "sending", "delivered", "savingRetry", "backoff"}
GonePcs   == {"savingSent", "savingFailed"}
LoopState == [pc: {"idle"} \cup HeadPcs \cup GonePcs, id: Ids \cup {NoId}]

Init ==
    /\ up = TRUE /\ stopped = FALSE /\ queue = <<>> /\ draining = FALSE
    /\ loop = [l \in Loops |-> Idle]
    /\ save = [w \in Writers |-> NoSave]
    /\ tmp = NoFile /\ main = NoFile
    /\ accepted = {} /\ order = <<>> /\ delivered = <<>>
    /\ fails = [i \in Ids |-> 0] /\ late = [i \in Ids |-> 0]
    /\ settled = [i \in Ids |-> "none"]
    /\ crashes = 0 /\ fsErrors = 0

-----------------------------------------------------------------------------
(* The drain loop and what wakes it *)

\* The test at the top of the while loop, on the queue the step leaves behind.
NextIteration(l) ==
    LET more == queue' # <<>> /\ ~stopped
    IN  /\ loop' = [loop EXCEPT ![l] =
                      IF more THEN [pc |-> "pause", id |-> Head(queue').id] ELSE Idle]
        /\ draining' = more

\* Fault: the draining flag is not looked at.
KickUnguarded ==
    IF stopped \/ queue' = <<>>
    THEN UNCHANGED <<loop, draining>>
    ELSE \E l \in Loops : loop[l].pc = "idle" /\ NextIteration(l)

Kick ==
    IF draining \/ stopped \/ queue' = <<>>
    THEN UNCHANGED <<loop, draining>>
    ELSE \E l \in Loops : loop[l].pc = "idle" /\ NextIteration(l)

SaveSlot == Cardinality({w \in Writers : save[w].phase # "none"}) < MaxSaves
StartSave(w) == save' = [save EXCEPT ![w] = NewSave]

Goto(l, pc) == loop' = [loop EXCEPT ![l].pc = pc]

\* Faults: a message that jumps the queue, a shift that is forgotten, a failed message
\* sent to the back, a send too few.
PushInFront(item) == queue' = <<item>> \o queue
NoShift           == queue' = queue
RetryLast(tried)  == queue' = Append(Tail(queue), [Head(queue) EXCEPT !.attempts = tried])
GivesUpEarly(tried) == tried + 1 >= MaxAttempts

Push(item)     == queue' = Append(queue, item)
Shift          == queue' = Tail(queue)
Retry(tried)   == queue' = [queue EXCEPT ![1].attempts = tried]
GivesUp(tried) == tried >= MaxAttempts

Enqueue(i) ==
    /\ up /\ SaveSlot
    /\ i \notin ToSet(order)
    /\ Push([id |-> i, attempts |-> 0])
    /\ order' = Append(order, i)
    /\ StartSave(i)
    /\ UNCHANGED <<up, stopped, draining, loop, files, accepted, delivered, fails,
                   late, settled, bounds>>

\* The pause before a send ends.
Wake(l) ==
    /\ loop[l].pc = "pause"
    /\ IF stopped THEN loop' = [loop EXCEPT ![l] = Idle] /\ draining' = FALSE
                  ELSE Goto(l, "sending") /\ UNCHANGED draining
    /\ UNCHANGED <<up, stopped, queue, save, files, ghosts, bounds>>

\* WhatsApp takes the message; the await on #send has not resolved yet.
WhatsAppAccepts(l) ==
    /\ loop[l].pc = "sending"
    /\ delivered' = Append(delivered, loop[l].id)
    /\ Goto(l, "delivered")
    /\ UNCHANGED <<up, stopped, queue, draining, save, files, accepted, order, fails,
                   late, settled, bounds>>

SendResolves(l) ==
    /\ loop[l].pc = "delivered" /\ SaveSlot
    /\ Shift
    /\ Goto(l, "savingSent")
    /\ StartSave(l)
    /\ UNCHANGED <<up, stopped, draining, files, ghosts, bounds>>

\* The await on #send rejects: WhatsApp refused the message, or took it and the answer
\* was lost to a timeout or a closed socket.  The loop cannot tell the two apart.
SendFails(l) ==
    LET tried == Head(queue).attempts + 1
    IN  /\ loop[l].pc \in {"sending", "delivered"} /\ SaveSlot
        /\ fails' = [fails EXCEPT ![loop[l].id] = @ + 1]
        /\ late' = IF loop[l].pc = "delivered"
                   THEN [late EXCEPT ![loop[l].id] = @ + 1] ELSE late
        /\ IF GivesUp(tried) THEN Shift /\ Goto(l, "savingFailed")
                             ELSE Retry(tried) /\ Goto(l, "savingRetry")
        /\ StartSave(l)
        /\ UNCHANGED <<up, stopped, draining, files, accepted, order, delivered,
                       settled, bounds>>

\* Fault: the loop ends after a failure, whatever is left in the queue.
BackoffEndsLoop(l) ==
    /\ loop[l].pc = "backoff"
    /\ loop' = [loop EXCEPT ![l] = Idle] /\ draining' = FALSE
    /\ UNCHANGED <<up, stopped, queue, save, files, ghosts, bounds>>

BackoffOver(l) ==
    /\ loop[l].pc = "backoff"
    /\ UNCHANGED <<up, stopped, queue, save, files, ghosts, bounds>>
    /\ NextIteration(l)
-----------------------------------------------------------------------------
(* #persist, one step per file system call *)

\* Fault: enqueue does not kick.
AnswerWithoutKick(i) ==
    /\ i \in Ids
    /\ accepted' = accepted \cup {i}
    /\ UNCHANGED <<loop, draining, settled>>

\* What runs when the await on #persist resolves, saved or not.
AnswerRequest(i) ==
    /\ i \in Ids
    /\ accepted' = accepted \cup {i}
    /\ Kick
    /\ UNCHANGED settled

ResumeLoop(l) ==
    /\ l \in Loops
    /\ UNCHANGED accepted
    /\ \/ /\ loop[l].pc = "savingRetry"
          /\ Goto(l, "backoff")
          /\ UNCHANGED <<draining, settled>>
       \/ /\ loop[l].pc \in GonePcs
          /\ settled' = [settled EXCEPT ![loop[l].id] =
                           IF loop[l].pc = "savingSent" THEN "sent" ELSE "failed"]
          /\ NextIteration(l)

AfterSave(w) ==
    /\ UNCHANGED <<up, stopped, queue, order, delivered, fails, late, crashes>>
    /\ (AnswerRequest(w) \/ ResumeLoop(w))

\* mkdir is done: the queue is serialised as it is now.
Stringify(w) ==
    /\ save[w].phase = "mkdir"
    /\ save' = [save EXCEPT ![w].phase = "stringified", ![w].items = queue]
    /\ UNCHANGED <<up, memory, files, ghosts, bounds>>

\* writeFile opens the temporary file, creating or truncating it.
OpenTmp(w) ==
    /\ save[w].phase = "stringified"
    /\ save' = [save EXCEPT ![w].phase = "opened", ![w].fd = "tmp"]
    /\ tmp' = EmptyFile
    /\ UNCHANGED <<up, memory, main, ghosts, bounds>>

\* A write from offset 0 over bytes another save left: the longer text shows through.
Over(file, q) ==
    IF file = EmptyFile \/ file = Json(q) THEN {Json(q)} ELSE {Json(q), MixedFile}

WriteTmp(w) ==
    /\ save[w].phase = "opened"
    /\ save' = [save EXCEPT ![w].phase = "written"]
    /\ CASE save[w].fd = "tmp"  -> tmp'  \in Over(tmp, save[w].items)  /\ UNCHANGED main
         [] save[w].fd = "main" -> main' \in Over(main, save[w].items) /\ UNCHANGED tmp
         [] OTHER               -> UNCHANGED files
    /\ UNCHANGED <<up, memory, ghosts, bounds>>

\* A file that is renamed keeps the descriptors open on it.
Renamed(fd) == CASE fd = "tmp" -> "main" [] fd = "main" -> "gone" [] OTHER -> fd

Rename(w) ==
    /\ save[w].phase = "written"
    /\ IF tmp = NoFile                      \* ENOENT, logged
       THEN /\ save' = [save EXCEPT ![w] = NoSave]
            /\ UNCHANGED files
       ELSE /\ save' = [v \in Writers |->
                          IF v = w THEN NoSave
                          ELSE [save[v] EXCEPT !.fd = Renamed(@)]]
            /\ main' = tmp /\ tmp' = NoFile
    /\ UNCHANGED fsErrors
    /\ AfterSave(w)

\* Any of the calls fails: the error is logged and the save is given up.
FsError(w) ==
    /\ save[w].phase # "none" /\ fsErrors < MaxFsErrors
    /\ fsErrors' = fsErrors + 1
    /\ save' = [save EXCEPT ![w] = NoSave]
    /\ UNCHANGED files
    /\ AfterSave(w)
-----------------------------------------------------------------------------
(* The process *)

Stop ==
    /\ up /\ ~stopped /\ crashes < MaxCrashes
    /\ stopped' = TRUE
    /\ UNCHANGED <<up, queue, draining, loop, save, files, ghosts, bounds>>

Halt ==
    /\ up /\ crashes < MaxCrashes
    /\ up' = FALSE /\ stopped' = FALSE /\ queue' = <<>> /\ draining' = FALSE
    /\ loop' = [l \in Loops |-> Idle]
    /\ save' = [w \in Writers |-> NoSave]
    /\ crashes' = crashes + 1
    /\ UNCHANGED <<files, ghosts, fsErrors>>

Crash == ~stopped /\ Halt      \* killed
Exit  == stopped /\ Halt       \* process.exit at the end of shutdown

\* Restart: load reads the file; a missing or unreadable one is an empty queue.
Load ==
    /\ ~up
    /\ up' = TRUE
    /\ queue' = IF main.kind = "json" THEN main.items ELSE <<>>
    /\ Kick
    /\ UNCHANGED <<stopped, save, files, ghosts, bounds>>

Persist(w) == Stringify(w) \/ OpenTmp(w) \/ WriteTmp(w) \/ Rename(w)
Drain(l)   == Wake(l) \/ WhatsAppAccepts(l) \/ SendResolves(l) \/ BackoffOver(l)

Next ==
    \/ \E i \in Ids : Enqueue(i)
    \/ \E l \in Loops : Drain(l) \/ SendFails(l)
    \/ \E w \in Writers : Persist(w) \/ FsError(w)
    \/ Stop \/ Crash \/ Exit \/ Load

Spec == Init /\ [][Next]_vars

\* Timers fire, promises resolve, a stopped process exits and docker restarts it.
\* Requests, failures and crashes are under no obligation.
Fairness ==
    /\ \A l \in Loops : WF_vars(Drain(l))
    /\ \A w \in Writers : WF_vars(Persist(w))
    /\ WF_vars(Exit) /\ WF_vars(Load)

FairSpec == Spec /\ Fairness
-----------------------------------------------------------------------------
(* Properties *)

TypeOK ==
    /\ {up, stopped, draining} \subseteq BOOLEAN
    /\ queue \in Seq(Item)
    /\ loop \in [Loops -> LoopState]
    /\ save \in [Writers -> Save]
    /\ tmp \in File /\ main \in File
    /\ accepted \subseteq Ids
    /\ order \in Seq(Ids) /\ delivered \in Seq(Ids)
    /\ fails \in [Ids -> Nat] /\ late \in [Ids -> Nat]
    /\ settled \in [Ids -> {"none", "sent", "failed"}]
    /\ crashes \in Nat /\ fsErrors \in Nat

Busy(l) == loop[l].pc # "idle"

\* At most one activation of #drain is alive and the draining flag says which:
\* kicks from several requests and from load never start a second loop.
OneDrain ==
    /\ \A l, k \in Loops : Busy(l) /\ Busy(k) => l = k
    /\ draining <=> \E l \in Loops : Busy(l)

\* While the loop sleeps, sends or backs off, the head of the queue stays the item
\* it holds: the shift() after the await removes that item and not another.
HeadStable ==
    \A l \in Loops : loop[l].pc \in HeadPcs =>
        queue # <<>> /\ Head(queue).id = loop[l].id

\* A queued item is never left with nobody to send it: a loop is alive, or a request
\* is still saving and will kick one.
NoLostWakeup ==
    up /\ ~stopped /\ queue # <<>> =>
        draining \/ \E i \in Ids : save[i].phase # "none"

CopiesOf(i) == Cardinality({n \in DOMAIN delivered : delivered[n] = i})

\* Every copy of a message after its first is accounted for: the process died between
\* two of them, or the send of one rejected after WhatsApp had taken it.  Nothing else,
\* a retry, a stale file or an overlapping save, makes a message go out twice.
DuplicatesAreExplained == \A i \in Ids : CopiesOf(i) <= 1 + crashes + late[i]

\* Messages first reach WhatsApp in the order POST /send pushed them, across
\* retries, overlapping saves and restarts; only one the outbox gave up on, brought
\* back by a stale file, may come late.
FirstDeliveriesInOrder ==
    \A m, n \in DOMAIN order :
        /\ m < n /\ fails[order[m]] < MaxAttempts
        /\ order[m] \in ToSet(delivered)
        => \A k \in DOMAIN delivered : delivered[k] = order[n] =>
               \E j \in 1 .. k - 1 : delivered[j] = order[m]

\* The outbox reports "failed" only after maxAttempts sends of that message
\* rejected, counted over all the runs of the process.
NeverGivesUpEarly ==
    \A i \in Ids : settled[i] = "failed" => fails[i] >= MaxAttempts

Finished(i) == i \in ToSet(delivered) \/ fails[i] >= MaxAttempts
OnDisk(i)   == main.kind = "json" /\ \E n \in DOMAIN main.items : main.items[n].id = i

\* A message answered 202 is in the queue file until it was sent or given up: the
\* process may die at any moment without dropping it (the promise of the header of
\* outbox.js).
AcceptedIsDurable == \A i \in accepted : Finished(i) \/ OnDisk(i)

\* Every accepted message is eventually sent or given up, whatever restarts happen.
AcceptedIsFinished == \A i \in Ids : i \in accepted ~> Finished(i)
=============================================================================
