---------------------------- MODULE OutboxProofs ----------------------------
(***************************************************************************)
(* What holds of the bridge's outbox for every number of messages, of      *)
(* overlapping saves, of retries, of crashes and of I/O errors.            *)
(***************************************************************************)
EXTENDS OutboxRefinement, SequenceTheorems, FiniteSetTheorems, TLAPS

-----------------------------------------------------------------------------
(* The queue *)

\* An item that is put at the end leaves the head where it is.
LEMMA PushKeepsHead ==
    ASSUME NEW q \in Seq(Item), NEW x \in Item
    PROVE  /\ Append(q, x) \in Seq(Item)
           /\ Append(q, x) # <<>>
           /\ q # <<>> => Head(Append(q, x)) = Head(q)
  BY AppendProperties, HeadTailProperties, LenProperties

\* Taking the head leaves a queue.
LEMMA ShiftIsQueue ==
    ASSUME NEW q \in Seq(Item), q # <<>>
    PROVE  Tail(q) \in Seq(Item) /\ Head(q) \in Item
  BY HeadTailProperties

\* Counting an attempt keeps the queue and the identity of its head.
LEMMA RetryKeepsHead ==
    ASSUME NEW q \in Seq(Item), q # <<>>, NEW n \in Nat
    PROVE  LET r == [q EXCEPT ![1].attempts = n]
           IN  r \in Seq(Item) /\ r # <<>> /\ Head(r).id = Head(q).id
  <1>1. q[1] \in Item /\ 1 \in 1 .. Len(q)
    BY SMT
  <1> DEFINE e == [q[1] EXCEPT !.attempts = n]
  <1>2. e \in Item /\ e.id = q[1].id
    BY <1>1 DEF Item
  <1> DEFINE r == [q EXCEPT ![1] = e]
  <1>3. r \in Seq(Item) /\ Len(r) = Len(q) /\ r[1] = e
    BY <1>1, <1>2, ExceptSeq
  <1>4. [q EXCEPT ![1].attempts = n] = r
    OBVIOUS
  <1>5. r # <<>> /\ Head(r) = r[1] /\ Head(q) = q[1]
    BY <1>1, <1>3
  <1> QED
    BY <1>2, <1>3, <1>4, <1>5

-----------------------------------------------------------------------------
(* The invariant: what has a type, who drains the queue, what a loop holds *)

\* A process that is down keeps nothing in memory.
NothingWhenDown ==
    ~up => /\ ~stopped /\ ~draining /\ queue = <<>>
           /\ \A l \in Loops : loop[l].pc = "idle"
           /\ \A w \in Writers : save[w].phase = "none"

IInv == TypeOK /\ OneDrain /\ HeadStable /\ NothingWhenDown /\ NoLostWakeup

\* The types of the parts of the state that the steps of the loop change.
LEMMA GotoType ==
    ASSUME TypeOK, NEW l \in Loops, NEW pc \in HeadPcs \cup GonePcs, Goto(l, pc)
    PROVE  loop' \in [Loops -> LoopState]
  BY DEF TypeOK, Goto, LoopState, HeadPcs, GonePcs

\* The top of the while loop keeps the types.
LEMMA NextIterationType ==
    ASSUME TypeOK, NEW l \in Loops, queue' \in Seq(Item), stopped \in BOOLEAN,
           NextIteration(l)
    PROVE  loop' \in [Loops -> LoopState] /\ draining' \in BOOLEAN
  <1>1. ASSUME queue' # <<>> PROVE Head(queue').id \in Ids
    <2>1. Head(queue') \in Item
      BY <1>1, ShiftIsQueue
    <2> QED
      BY <2>1 DEF Item
  <1>2. Idle \in LoopState
    BY DEF Idle, LoopState
  <1>3. queue' # <<>> => [pc |-> "pause", id |-> Head(queue').id] \in LoopState
    BY <1>1 DEF LoopState, HeadPcs
  <1> QED
    BY <1>2, <1>3 DEF TypeOK, NextIteration

\* A kick keeps the types.
LEMMA KickType ==
    ASSUME TypeOK, queue' \in Seq(Item), Kick
    PROVE  loop' \in [Loops -> LoopState] /\ draining' \in BOOLEAN
  BY NextIterationType DEF Kick, TypeOK

\* The start of a save keeps the types.
LEMMA StartSaveType ==
    ASSUME TypeOK, NEW w \in Writers, StartSave(w)
    PROVE  save' \in [Writers -> Save]
  <1>1. NewSave \in Save
    BY DEF NewSave, Save, Phases, Fds
  <1> QED
    BY <1>1 DEF TypeOK, StartSave

\* The end of a save keeps the types, and leaves the queue and the counts alone.
LEMMA AfterSaveType ==
    ASSUME TypeOK, NEW w \in Writers, AfterSave(w)
    PROVE  /\ loop' \in [Loops -> LoopState] /\ draining' \in BOOLEAN
           /\ accepted' \subseteq Ids
           /\ settled' \in [Ids -> {"none", "sent", "failed"}]
           /\ up' = up /\ stopped' = stopped /\ queue' = queue /\ order' = order
           /\ delivered' = delivered /\ fails' = fails /\ late' = late
           /\ crashes' = crashes
  <1>1. queue' = queue /\ queue' \in Seq(Item)
    BY DEF AfterSave, TypeOK
  <1>2. CASE AnswerRequest(w)
    BY <1>1, <1>2, KickType DEF AnswerRequest, AfterSave, TypeOK
  <1>3. CASE ResumeLoop(w)
    <2>1. CASE loop[w].pc = "savingRetry" /\ Goto(w, "backoff") /\ UNCHANGED <<draining, settled>>
      BY <1>3, <2>1, GotoType DEF ResumeLoop, AfterSave, TypeOK, HeadPcs
    <2>2. CASE /\ loop[w].pc \in GonePcs
               /\ settled' = [settled EXCEPT ![loop[w].id] =
                                IF loop[w].pc = "savingSent" THEN "sent" ELSE "failed"]
               /\ NextIteration(w)
      <3>1. settled' \in [Ids -> {"none", "sent", "failed"}]
        BY <2>2 DEF TypeOK
      <3> QED
        BY <1>1, <1>3, <2>2, <3>1, NextIterationType DEF ResumeLoop, AfterSave, TypeOK
    <2> QED
      BY <1>3, <2>1, <2>2 DEF ResumeLoop
  <1> QED
    BY <1>2, <1>3 DEF AfterSave

\* The initial state has its types.
LEMMA TypeInit == ASSUME Init PROVE TypeOK
  <1>1. Idle \in LoopState
    BY DEF Idle, LoopState
  <1>2. NoSave \in Save
    BY DEF NoSave, Save, Phases, Fds
  <1>3. NoFile \in File
    BY DEF NoFile, File
  <1>4. <<>> \in Seq(Item) /\ <<>> \in Seq(Ids)
    BY EmptySeq
  <1>5. up \in BOOLEAN /\ stopped \in BOOLEAN /\ draining \in BOOLEAN
    BY DEF Init
  <1>6. loop \in [Loops -> LoopState] /\ save \in [Writers -> Save]
    BY <1>1, <1>2 DEF Init
  <1> QED
    BY <1>3, <1>4, <1>5, <1>6 DEF Init, TypeOK

\* A file holds nothing, rubbish, or a queue.
LEMMA FileTypes ==
    /\ {NoFile, EmptyFile, MixedFile} \subseteq File
    /\ \A q \in Seq(Item) : Json(q) \in File
  BY DEF NoFile, EmptyFile, MixedFile, Json, File

\* What a loop holds while it sends is a message.
LEMMA HeldIsMessage ==
    ASSUME TypeOK, HeadStable, NEW l \in Loops, loop[l].pc \in HeadPcs
    PROVE  loop[l].id \in Ids
  <1>1. queue # <<>> /\ Head(queue).id = loop[l].id
    BY DEF HeadStable
  <1>2. Head(queue) \in Item
    BY <1>1, ShiftIsQueue DEF TypeOK
  <1> QED
    BY <1>1, <1>2 DEF Item

\* Every step keeps the types.
LEMMA TypeNext == ASSUME TypeOK, HeadStable, Next PROVE TypeOK'
  <1> USE OutboxAssumption
  <1>1. ASSUME NEW i \in Ids, Enqueue(i) PROVE TypeOK'
    <2>1. [id |-> i, attempts |-> 0] \in Item
      BY DEF Item
    <2>2. queue' \in Seq(Item)
      BY <1>1, <2>1, PushKeepsHead DEF Enqueue, Push, TypeOK
    <2>3. order' \in Seq(Ids)
      BY <1>1, AppendProperties DEF Enqueue, TypeOK
    <2>4. save' \in [Writers -> Save]
      BY <1>1, StartSaveType DEF Enqueue, Writers
    <2> QED
      BY <1>1, <2>2, <2>3, <2>4 DEF Enqueue, TypeOK, files, bounds
  <1>2. ASSUME NEW l \in Loops, Wake(l) PROVE TypeOK'
    <2>1. loop' \in [Loops -> LoopState] /\ draining' \in BOOLEAN
      <3>1. Idle \in LoopState
        BY DEF Idle, LoopState
      <3>2. CASE stopped
        BY <1>2, <3>1, <3>2 DEF Wake, TypeOK
      <3>3. CASE ~stopped
        <4>1. Goto(l, "sending") /\ draining' = draining
          BY <1>2, <3>3 DEF Wake
        <4> QED
          BY <4>1, GotoType DEF HeadPcs, TypeOK
      <3> QED
        BY <3>2, <3>3
    <2> QED
      BY <1>2, <2>1 DEF Wake, TypeOK, files, ghosts, bounds
  <1>3. ASSUME NEW l \in Loops, WhatsAppAccepts(l) PROVE TypeOK'
    <2>1. loop[l].id \in Ids
      BY <1>3, HeldIsMessage DEF WhatsAppAccepts, HeadPcs
    <2>2. delivered' \in Seq(Ids)
      BY <1>3, <2>1, AppendProperties DEF WhatsAppAccepts, TypeOK
    <2>3. loop' \in [Loops -> LoopState]
      BY <1>3, GotoType DEF WhatsAppAccepts, HeadPcs
    <2> QED
      BY <1>3, <2>2, <2>3 DEF WhatsAppAccepts, TypeOK, files, bounds
  <1>4. ASSUME NEW l \in Loops, SendResolves(l) PROVE TypeOK'
    <2>1. queue' \in Seq(Item)
      <3>1. queue # <<>>
        BY <1>4 DEF SendResolves, HeadStable, HeadPcs
      <3> QED
        BY <1>4, <3>1, ShiftIsQueue DEF SendResolves, Shift, TypeOK
    <2>2. loop' \in [Loops -> LoopState]
      BY <1>4, GotoType DEF SendResolves, GonePcs
    <2>3. save' \in [Writers -> Save]
      BY <1>4, StartSaveType DEF SendResolves, Writers
    <2> QED
      BY <1>4, <2>1, <2>2, <2>3 DEF SendResolves, TypeOK, files, ghosts, bounds
  <1>5. ASSUME NEW l \in Loops, SendFails(l) PROVE TypeOK'
    <2> DEFINE tried == Head(queue).attempts + 1
    <2>1. queue # <<>> /\ queue \in Seq(Item)
      BY <1>5 DEF SendFails, HeadStable, HeadPcs, TypeOK
    <2>2. tried \in Nat
      <3>1. Head(queue) \in Item
        BY <2>1, ShiftIsQueue
      <3> QED
        BY <3>1 DEF Item
    <2>3. \/ Shift /\ Goto(l, "savingFailed")
          \/ Retry(tried) /\ Goto(l, "savingRetry")
      BY <1>5 DEF SendFails
    <2>4. loop' \in [Loops -> LoopState]
      BY <2>3, GotoType DEF GonePcs, HeadPcs
    <2>5. queue' \in Seq(Item)
      BY <2>1, <2>2, <2>3, ShiftIsQueue, RetryKeepsHead DEF Shift, Retry
    <2>6. fails' \in [Ids -> Nat]
      <3>1. fails' = [fails EXCEPT ![loop[l].id] = @ + 1]
        BY <1>5 DEF SendFails
      <3>2. loop[l].id \in Ids
        BY <1>5, HeldIsMessage DEF SendFails, HeadPcs
      <3>3. fails \in [Ids -> Nat]
        BY DEF TypeOK
      <3>4. fails[loop[l].id] + 1 \in Nat
        BY <3>2, <3>3
      <3> QED
        BY <3>1, <3>3, <3>4
    <2>7. save' \in [Writers -> Save]
      BY <1>5, StartSaveType DEF SendFails, Writers
    <2>8. late' \in [Ids -> Nat]
      <3>1. \/ late' = late
            \/ late' = [late EXCEPT ![loop[l].id] = @ + 1]
        BY <1>5 DEF SendFails
      <3>2. loop[l].id \in Ids
        BY <1>5, HeldIsMessage DEF SendFails, HeadPcs
      <3>3. late \in [Ids -> Nat]
        BY DEF TypeOK
      <3>4. late[loop[l].id] + 1 \in Nat
        BY <3>2, <3>3
      <3> QED
        BY <3>1, <3>3, <3>4
    <2> QED
      BY <1>5, <2>4, <2>5, <2>6, <2>7, <2>8 DEF SendFails, TypeOK, files, bounds
  <1>6. ASSUME NEW l \in Loops, BackoffOver(l) PROVE TypeOK'
    <2>1. loop' \in [Loops -> LoopState] /\ draining' \in BOOLEAN
      BY <1>6, NextIterationType DEF BackoffOver, TypeOK
    <2> QED
      BY <1>6, <2>1 DEF BackoffOver, TypeOK, files, ghosts, bounds
  <1>7. ASSUME NEW w \in Writers, Stringify(w) PROVE TypeOK'
    <2>1. save' \in [Writers -> Save]
      BY <1>7 DEF Stringify, TypeOK, Save, Phases
    <2> QED
      BY <1>7, <2>1 DEF Stringify, TypeOK, memory, files, ghosts, bounds
  <1>8. ASSUME NEW w \in Writers, OpenTmp(w) PROVE TypeOK'
    <2>1. save' \in [Writers -> Save]
      BY <1>8 DEF OpenTmp, TypeOK, Save, Phases, Fds
    <2> QED
      BY <1>8, <2>1, FileTypes DEF OpenTmp, TypeOK, memory, ghosts, bounds
  <1>9. ASSUME NEW w \in Writers, WriteTmp(w) PROVE TypeOK'
    <2>1. save' \in [Writers -> Save]
      BY <1>9 DEF WriteTmp, TypeOK, Save, Phases
    <2>2. save[w].items \in Seq(Item)
      BY DEF TypeOK, Save
    <2>3. tmp' \in File /\ main' \in File
      BY <1>9, <2>2, FileTypes DEF WriteTmp, Over, TypeOK, files
    <2> QED
      BY <1>9, <2>1, <2>3 DEF WriteTmp, TypeOK, memory, ghosts, bounds
  <1>10. ASSUME NEW w \in Writers, Rename(w) PROVE TypeOK'
    <2>1. NoSave \in Save
      BY DEF NoSave, Save, Phases, Fds
    <2>2. \A v \in Writers : [save[v] EXCEPT !.fd = Renamed(@)] \in Save
      BY DEF TypeOK, Save, Renamed, Fds
    <2>3. save' \in [Writers -> Save]
      <3>1. \/ save' = [save EXCEPT ![w] = NoSave]
            \/ save' = [v \in Writers |->
                          IF v = w THEN NoSave ELSE [save[v] EXCEPT !.fd = Renamed(@)]]
        BY <1>10 DEF Rename
      <3>2. save \in [Writers -> Save]
        BY DEF TypeOK
      <3>3. CASE save' = [save EXCEPT ![w] = NoSave]
        BY <2>1, <3>2, <3>3
      <3>4. CASE save' = [v \in Writers |->
                            IF v = w THEN NoSave ELSE [save[v] EXCEPT !.fd = Renamed(@)]]
        BY <2>1, <2>2, <3>4, Zenon
      <3> QED
        BY <3>1, <3>3, <3>4
    <2>4. tmp' \in File /\ main' \in File
      BY <1>10, FileTypes DEF Rename, TypeOK, files
    <2>5. AfterSave(w) /\ fsErrors' = fsErrors
      BY <1>10 DEF Rename
    <2> QED
      BY <2>3, <2>4, <2>5, AfterSaveType DEF TypeOK
  <1>11. ASSUME NEW w \in Writers, FsError(w) PROVE TypeOK'
    <2>1. NoSave \in Save
      BY DEF NoSave, Save, Phases, Fds
    <2>2. save' \in [Writers -> Save]
      BY <1>11, <2>1 DEF FsError, TypeOK
    <2>3. AfterSave(w) /\ fsErrors' \in Nat /\ tmp' = tmp /\ main' = main
      BY <1>11 DEF FsError, TypeOK, files
    <2> QED
      BY <2>2, <2>3, AfterSaveType DEF TypeOK
  <1>12. ASSUME Stop PROVE TypeOK'
    BY <1>12 DEF Stop, TypeOK, files, ghosts, bounds
  <1>13. ASSUME Halt PROVE TypeOK'
    <2>1. Idle \in LoopState /\ NoSave \in Save
      BY DEF Idle, LoopState, NoSave, Save, Phases, Fds
    <2>2. loop' \in [Loops -> LoopState] /\ save' \in [Writers -> Save]
      BY <1>13, <2>1 DEF Halt
    <2>3. up' \in BOOLEAN /\ stopped' \in BOOLEAN /\ draining' \in BOOLEAN
      BY <1>13 DEF Halt
    <2>4. queue' \in Seq(Item)
      BY <1>13, EmptySeq DEF Halt
    <2>5. /\ UNCHANGED <<tmp, main, accepted, order, delivered, fails, late, settled>>
          /\ crashes' = crashes + 1 /\ fsErrors' = fsErrors
      BY <1>13 DEF Halt, files, ghosts
    <2> QED
      BY <2>2, <2>3, <2>4, <2>5 DEF TypeOK
  <1>14. ASSUME Load PROVE TypeOK'
    <2>1. queue' \in Seq(Item)
      BY <1>14 DEF Load, TypeOK, File
    <2>2. loop' \in [Loops -> LoopState] /\ draining' \in BOOLEAN
      BY <1>14, <2>1, KickType DEF Load
    <2>3. /\ UNCHANGED <<stopped, save, tmp, main, accepted, order, delivered, fails, late>>
          /\ UNCHANGED <<settled, crashes, fsErrors>> /\ up' = TRUE
      BY <1>14 DEF Load, files, ghosts, bounds
    <2> QED
      BY <2>1, <2>2, <2>3 DEF TypeOK
  <1> QED
    BY <1>1, <1>2, <1>3, <1>4, <1>5, <1>6, <1>7, <1>8, <1>9, <1>10, <1>11, <1>12,
       <1>13, <1>14 DEF Next, Drain, Persist, Crash, Exit

-----------------------------------------------------------------------------
(* One drain loop, and the item it holds *)

Resting(l) == \A k \in Loops \ {l} : loop[k].pc = "idle"

\* Beside a busy loop, or when the flag is down, every other loop rests.
LEMMA OthersRest ==
    ASSUME OneDrain, NEW l \in Loops, Busy(l) \/ ~draining
    PROVE  Resting(l)
  BY DEF OneDrain, Busy, Resting

\* Moving on from one await to the next.
LEMMA GotoKeepsOneDrain ==
    ASSUME TypeOK, OneDrain, NEW l \in Loops, Busy(l),
           NEW pc \in HeadPcs \cup GonePcs, Goto(l, pc), draining' = draining
    PROVE  OneDrain' /\ loop'[l].pc = pc /\ loop'[l].id = loop[l].id /\ Resting(l)'
  <1>1. Resting(l)
    BY OthersRest
  <1>2. loop'[l] = [loop[l] EXCEPT !.pc = pc] /\ \A k \in Loops \ {l} : loop'[k] = loop[k]
    BY DEF TypeOK, Goto
  <1>3. loop[l] \in LoopState
    BY DEF TypeOK
  <1>4. loop'[l].pc = pc /\ loop'[l].id = loop[l].id
    BY <1>2, <1>3 DEF LoopState
  <1>5. pc # "idle"
    BY DEF HeadPcs, GonePcs
  <1>6. Resting(l)'
    BY <1>1, <1>2 DEF Resting
  <1>7. draining
    BY DEF OneDrain
  <1> QED
    BY <1>4, <1>5, <1>6, <1>7 DEF OneDrain, Busy, Resting

\* The top of the while loop: the loop takes the head of the queue, or ends.
LEMMA NextIterationKeepsLoop ==
    ASSUME TypeOK, OneDrain, NEW l \in Loops, Busy(l) \/ ~draining, NextIteration(l)
    PROVE  OneDrain' /\ HeadStable' /\ (queue' # <<>> /\ ~stopped => draining')
  <1>1. Resting(l)
    BY OthersRest
  <1>2. \A k \in Loops \ {l} : loop'[k] = loop[k]
    BY DEF TypeOK, NextIteration
  <1>3. \A k \in Loops \ {l} : loop'[k].pc = "idle"
    BY <1>1, <1>2 DEF Resting
  <1>4. CASE queue' # <<>> /\ ~stopped
    <2>1. loop'[l] = [pc |-> "pause", id |-> Head(queue').id] /\ draining'
      BY <1>4 DEF TypeOK, NextIteration
    <2>2. loop'[l].pc = "pause" /\ loop'[l].id = Head(queue').id
      BY <2>1
    <2> QED
      BY <1>3, <1>4, <2>1, <2>2 DEF OneDrain, HeadStable, Busy, HeadPcs
  <1>5. CASE ~(queue' # <<>> /\ ~stopped)
    <2>1. loop'[l] = Idle /\ ~draining'
      BY <1>5 DEF TypeOK, NextIteration
    <2>2. loop'[l].pc = "idle"
      BY <2>1 DEF Idle
    <2> QED
      BY <1>3, <1>5, <2>1, <2>2 DEF OneDrain, HeadStable, Busy, HeadPcs
  <1> QED
    BY <1>4, <1>5

\* A kick starts a loop only when none is alive.
LEMMA KickKeepsLoop ==
    ASSUME TypeOK, OneDrain, HeadStable, Kick, queue' = queue \/ ~draining
    PROVE  OneDrain' /\ HeadStable' /\ (queue' # <<>> /\ ~stopped => draining')
  <1>1. CASE draining \/ stopped \/ queue' = <<>>
    <2>1. loop' = loop /\ draining' = draining
      BY <1>1 DEF Kick
    <2>2. CASE queue' = queue
      BY <1>1, <2>1, <2>2 DEF OneDrain, HeadStable, Busy
    <2>3. CASE ~draining
      <3>1. \A l \in Loops : loop[l].pc = "idle"
        BY <2>3 DEF OneDrain, Busy
      <3> QED
        BY <1>1, <2>1, <2>3, <3>1 DEF OneDrain, HeadStable, Busy, HeadPcs
    <2> QED
      BY <2>2, <2>3
  <1>2. CASE ~(draining \/ stopped \/ queue' = <<>>)
    <2>1. PICK l \in Loops : NextIteration(l)
      BY <1>2 DEF Kick
    <2> QED
      BY <1>2, <2>1, NextIterationKeepsLoop
  <1> QED
    BY <1>1, <1>2

\* The end of a save, for a request or for the loop.
LEMMA AfterSaveKeepsLoop ==
    ASSUME IInv, NEW w \in Writers, AfterSave(w), save[w].phase # "none"
    PROVE  /\ OneDrain' /\ HeadStable'
           /\ up /\ up' = up /\ stopped' = stopped /\ queue' = queue
           /\ queue # <<>> /\ ~stopped /\ (w \in Ids \/ draining) => draining'
  <1>1. TypeOK /\ OneDrain /\ HeadStable
    BY DEF IInv
  <1>2. up /\ up' = up /\ stopped' = stopped /\ queue' = queue
    BY DEF IInv, NothingWhenDown, AfterSave
  <1>3. CASE AnswerRequest(w)
    BY <1>1, <1>2, <1>3, KickKeepsLoop DEF AnswerRequest
  <1>4. CASE ResumeLoop(w)
    <2>1. w \in Loops /\ w \notin Ids
      BY <1>4, OutboxAssumption DEF ResumeLoop
    <2>2. CASE /\ loop[w].pc = "savingRetry"
               /\ Goto(w, "backoff") /\ draining' = draining
      <3>1. Busy(w) /\ "backoff" \in HeadPcs
        BY <2>2 DEF Busy, HeadPcs
      <3>2. OneDrain' /\ loop'[w].pc = "backoff" /\ loop'[w].id = loop[w].id /\ Resting(w)'
        BY <1>1, <2>1, <2>2, <3>1, GotoKeepsOneDrain
      <3>3. queue # <<>> /\ Head(queue).id = loop[w].id
        BY <1>1, <2>1, <2>2 DEF HeadStable, HeadPcs
      <3>4. HeadStable'
        BY <1>2, <3>2, <3>3 DEF HeadStable, Resting, HeadPcs
      <3> QED
        BY <1>2, <2>1, <2>2, <3>2, <3>4
    <2>3. CASE loop[w].pc \in GonePcs /\ NextIteration(w)
      <3>1. Busy(w)
        BY <2>3 DEF Busy, GonePcs
      <3> QED
        BY <1>1, <1>2, <2>1, <2>3, <3>1, NextIterationKeepsLoop
    <2> QED
      BY <1>4, <2>2, <2>3 DEF ResumeLoop
  <1> QED
    BY <1>3, <1>4 DEF AfterSave

-----------------------------------------------------------------------------
(* The invariant is inductive *)

\* The invariant holds at the start.
LEMMA InvInit == ASSUME Init PROVE IInv
  <1>1. up /\ ~stopped /\ ~draining /\ queue = <<>>
    BY DEF Init
  <1>2. \A l \in Loops : loop[l].pc = "idle"
    BY DEF Init, Idle
  <1>3. OneDrain /\ HeadStable
    BY <1>1, <1>2 DEF OneDrain, HeadStable, Busy, HeadPcs
  <1> QED
    BY <1>1, <1>3, TypeInit DEF IInv, NothingWhenDown, NoLostWakeup

\* A save in flight, of a request, means somebody will kick.
LEMMA StillSaving ==
    ASSUME TypeOK, NEW w \in Writers, save[w].phase # "none",
           \A v \in Writers : save[v].phase # "none" => save'[v].phase # "none",
           NoLostWakeup, up' = up, stopped' = stopped, queue' = queue,
           draining' = draining
    PROVE  NoLostWakeup'
  BY DEF NoLostWakeup, Writers

\* Every step keeps the invariant.
LEMMA InvNext == ASSUME IInv, Next PROVE IInv'
  <1> USE OutboxAssumption
  <1> USE DEF IInv
  <1>0. TypeOK'
    BY TypeNext
  <1>w. ASSUME NEW w \in Writers, save[w].phase # "none" PROVE up
    BY <1>w DEF NothingWhenDown
  <1>l. ASSUME NEW l \in Loops, Busy(l) PROVE up /\ draining
    BY <1>l DEF NothingWhenDown, OneDrain, Busy
  <1>1. ASSUME NEW i \in Ids, Enqueue(i) PROVE IInv'
    <2>1. up /\ up' /\ loop' = loop /\ draining' = draining
      BY <1>1 DEF Enqueue
    <2>2. OneDrain'
      BY <2>1 DEF OneDrain, Busy
    <2>3. [id |-> i, attempts |-> 0] \in Item
      BY DEF Item
    <2>4. queue # <<>> => Head(queue') = Head(queue) /\ queue' # <<>>
      BY <1>1, <2>3, PushKeepsHead DEF Enqueue, Push, TypeOK
    <2>5. HeadStable'
      BY <2>1, <2>4 DEF HeadStable
    <2>6. save'[i] = NewSave
      BY <1>1 DEF Enqueue, StartSave, TypeOK, Writers
    <2>7. NoLostWakeup' /\ NothingWhenDown'
      BY <2>1, <2>6 DEF NoLostWakeup, NothingWhenDown, NewSave
    <2> QED
      BY <1>0, <2>2, <2>5, <2>7
  <1>2. ASSUME NEW l \in Loops, Wake(l) PROVE IInv'
    <2>1. Busy(l) /\ up /\ draining /\ up' = up /\ queue' = queue /\ stopped' = stopped
      BY <1>2, <1>l DEF Wake, Busy
    <2>2. CASE stopped
      <3>1. loop' = [loop EXCEPT ![l] = Idle] /\ ~draining'
        BY <1>2, <2>2 DEF Wake
      <3>2. \A k \in Loops : loop'[k].pc = "idle"
        BY <2>1, <3>1, OthersRest DEF Resting, TypeOK, Idle
      <3> QED
        BY <1>0, <2>1, <2>2, <3>1, <3>2
        DEF OneDrain, HeadStable, Busy, HeadPcs, NoLostWakeup, NothingWhenDown
    <2>3. CASE ~stopped
      <3>1. Goto(l, "sending") /\ draining' = draining /\ "sending" \in HeadPcs
        BY <1>2, <2>3 DEF Wake, HeadPcs
      <3>2. OneDrain' /\ loop'[l].pc = "sending" /\ loop'[l].id = loop[l].id /\ Resting(l)'
        BY <2>1, <3>1, GotoKeepsOneDrain
      <3>3. queue # <<>> /\ Head(queue).id = loop[l].id
        BY <1>2 DEF Wake, HeadStable, HeadPcs
      <3>4. HeadStable'
        BY <2>1, <3>2, <3>3 DEF HeadStable, Resting, HeadPcs
      <3> QED
        BY <1>0, <2>1, <3>1, <3>2, <3>4 DEF NoLostWakeup, NothingWhenDown
    <2> QED
      BY <2>2, <2>3
  <1>3. ASSUME NEW l \in Loops, WhatsAppAccepts(l) PROVE IInv'
    <2>1. Busy(l) /\ up /\ draining /\ up' = up /\ queue' = queue /\ draining' = draining
      BY <1>3, <1>l DEF WhatsAppAccepts, Busy
    <2>2. Goto(l, "delivered") /\ "delivered" \in HeadPcs
      BY <1>3 DEF WhatsAppAccepts, HeadPcs
    <2>3. OneDrain' /\ loop'[l].pc = "delivered" /\ loop'[l].id = loop[l].id /\ Resting(l)'
      BY <2>1, <2>2, GotoKeepsOneDrain
    <2>4. queue # <<>> /\ Head(queue).id = loop[l].id
      BY <1>3 DEF WhatsAppAccepts, HeadStable, HeadPcs
    <2>5. HeadStable'
      BY <2>1, <2>3, <2>4 DEF HeadStable, Resting, HeadPcs
    <2> QED
      BY <1>0, <2>1, <2>3, <2>5 DEF NoLostWakeup, NothingWhenDown
  <1>4. ASSUME NEW l \in Loops, SendResolves(l) PROVE IInv'
    <2>1. Busy(l) /\ up /\ draining /\ up' = up /\ draining' = draining
      BY <1>4, <1>l DEF SendResolves, Busy
    <2>2. Goto(l, "savingSent") /\ "savingSent" \in GonePcs
      BY <1>4 DEF SendResolves, GonePcs
    <2>3. OneDrain' /\ loop'[l].pc = "savingSent" /\ Resting(l)'
      BY <2>1, <2>2, GotoKeepsOneDrain
    <2>4. HeadStable'
      BY <2>3 DEF HeadStable, Resting, HeadPcs
    <2> QED
      BY <1>0, <2>1, <2>3, <2>4 DEF NoLostWakeup, NothingWhenDown
  <1>5. ASSUME NEW l \in Loops, SendFails(l) PROVE IInv'
    <2> DEFINE tried == Head(queue).attempts + 1
    <2>1. Busy(l) /\ up /\ draining /\ up' = up /\ draining' = draining
      BY <1>5, <1>l DEF SendFails, Busy
    <2>2. queue \in Seq(Item) /\ queue # <<>> /\ Head(queue).id = loop[l].id
      BY <1>5 DEF SendFails, HeadStable, HeadPcs, TypeOK
    <2>3. CASE Shift /\ Goto(l, "savingFailed")
      <3>1. OneDrain' /\ loop'[l].pc = "savingFailed" /\ Resting(l)'
        BY <2>1, <2>3, GotoKeepsOneDrain DEF GonePcs
      <3>2. HeadStable'
        BY <3>1 DEF HeadStable, Resting, HeadPcs
      <3> QED
        BY <1>0, <2>1, <3>1, <3>2 DEF NoLostWakeup, NothingWhenDown
    <2>4. CASE Retry(tried) /\ Goto(l, "savingRetry")
      <3>1. OneDrain' /\ loop'[l].pc = "savingRetry" /\ loop'[l].id = loop[l].id /\ Resting(l)'
        BY <2>1, <2>4, GotoKeepsOneDrain DEF HeadPcs
      <3>2. tried \in Nat
        <4>1. Head(queue) \in Item
          BY <2>2, ShiftIsQueue
        <4> QED
          BY <4>1 DEF Item
      <3>3. queue' # <<>> /\ Head(queue').id = Head(queue).id
        BY <2>2, <2>4, <3>2, RetryKeepsHead DEF Retry
      <3>4. HeadStable'
        BY <2>2, <3>1, <3>3 DEF HeadStable, Resting, HeadPcs
      <3> QED
        BY <1>0, <2>1, <3>1, <3>4 DEF NoLostWakeup, NothingWhenDown
    <2> QED
      BY <1>5, <2>3, <2>4 DEF SendFails
  <1>6. ASSUME NEW l \in Loops, BackoffOver(l) PROVE IInv'
    <2>1. Busy(l) /\ up /\ up' = up /\ stopped' = stopped
      BY <1>6, <1>l DEF BackoffOver, Busy
    <2>2. OneDrain' /\ HeadStable' /\ (queue' # <<>> /\ ~stopped => draining')
      BY <1>6, <2>1, NextIterationKeepsLoop DEF BackoffOver
    <2> QED
      BY <1>0, <2>1, <2>2 DEF NoLostWakeup, NothingWhenDown
  <1>7. ASSUME NEW w \in Writers, Stringify(w) \/ OpenTmp(w) \/ WriteTmp(w) PROVE IInv'
    <2>1. /\ up' = up /\ stopped' = stopped /\ queue' = queue
          /\ draining' = draining /\ loop' = loop /\ save[w].phase # "none"
      BY <1>7 DEF Stringify, OpenTmp, WriteTmp, memory
    <2>2. \A v \in Writers : save[v].phase # "none" => save'[v].phase # "none"
      <3>1. CASE Stringify(w)
        BY <3>1 DEF Stringify, TypeOK, Save
      <3>2. CASE OpenTmp(w)
        BY <3>2 DEF OpenTmp, TypeOK, Save
      <3>3. CASE WriteTmp(w)
        <4>1. save' = [save EXCEPT ![w].phase = "written"]
          BY <3>3 DEF WriteTmp
        <4> QED
          BY <4>1 DEF TypeOK, Save
      <3> QED
        BY <1>7, <3>1, <3>2, <3>3
    <2>3. NoLostWakeup'
      BY <2>1, <2>2, StillSaving
    <2>4. up /\ up'
      BY <1>w, <2>1
    <2> QED
      BY <1>0, <2>1, <2>3, <2>4 DEF OneDrain, HeadStable, Busy, NothingWhenDown
  <1>8. ASSUME NEW w \in Writers, AfterSave(w), save[w].phase # "none",
               \A v \in Writers \ {w} : save'[v].phase = save[v].phase
        PROVE  IInv'
    <2>1. /\ OneDrain' /\ HeadStable'
          /\ up /\ up' = up /\ stopped' = stopped /\ queue' = queue
          /\ queue # <<>> /\ ~stopped /\ (w \in Ids \/ draining) => draining'
      BY <1>8, AfterSaveKeepsLoop
    <2>2. NoLostWakeup'
      <3>1. CASE w \in Ids \/ draining
        BY <2>1, <3>1 DEF NoLostWakeup
      <3>2. CASE w \notin Ids /\ ~draining
        BY <1>8, <2>1, <3>2 DEF NoLostWakeup, Writers
      <3> QED
        BY <3>1, <3>2
    <2> QED
      BY <1>0, <2>1, <2>2 DEF NothingWhenDown
  <1>9. ASSUME NEW w \in Writers, Rename(w) PROVE IInv'
    <2>1. \A v \in Writers \ {w} : save'[v].phase = save[v].phase
      BY <1>9 DEF Rename, TypeOK, Save
    <2> QED
      BY <1>8, <1>9, <2>1 DEF Rename
  <1>10. ASSUME NEW w \in Writers, FsError(w) PROVE IInv'
    <2>1. \A v \in Writers \ {w} : save'[v].phase = save[v].phase
      BY <1>10 DEF FsError, TypeOK
    <2> QED
      BY <1>8, <1>10, <2>1 DEF FsError
  <1>11. ASSUME Stop PROVE IInv'
    BY <1>0, <1>11 DEF Stop, OneDrain, HeadStable, Busy, NothingWhenDown, NoLostWakeup
  <1>12. ASSUME Halt PROVE IInv'
    <2>1. /\ ~up' /\ ~stopped' /\ queue' = <<>> /\ ~draining'
          /\ \A l \in Loops : loop'[l].pc = "idle"
          /\ \A w \in Writers : save'[w].phase = "none"
      BY <1>12 DEF Halt, Idle, NoSave
    <2> QED
      BY <1>0, <2>1
      DEF OneDrain, HeadStable, Busy, HeadPcs, NothingWhenDown, NoLostWakeup
  <1>13. ASSUME Load PROVE IInv'
    <2>1. ~up /\ up' /\ ~stopped /\ stopped' = stopped /\ ~draining /\ Kick
      BY <1>13 DEF Load, NothingWhenDown
    <2>2. OneDrain' /\ HeadStable' /\ (queue' # <<>> /\ ~stopped => draining')
      BY <2>1, KickKeepsLoop
    <2> QED
      BY <1>0, <2>1, <2>2 DEF NothingWhenDown, NoLostWakeup
  <1> QED
    BY <1>1, <1>2, <1>3, <1>4, <1>5, <1>6, <1>7, <1>9, <1>10, <1>11, <1>12, <1>13
    DEF Next, Drain, Persist, Crash, Exit

\* A step that changes nothing keeps the invariant.
LEMMA InvStutter == ASSUME IInv, UNCHANGED vars PROVE IInv'
  BY DEF IInv, TypeOK, OneDrain, HeadStable, Busy, NothingWhenDown, NoLostWakeup, vars,
         memory, files, ghosts, bounds
-----------------------------------------------------------------------------
(* Theorems *)

\* The invariant holds in every reachable state.
LEMMA Invariant == Spec => []IInv
  <1>1. Init => IInv
    BY InvInit
  <1>2. IInv /\ [Next]_vars => IInv'
    BY InvNext, InvStutter
  <1> QED
    BY <1>1, <1>2, PTL DEF Spec

\* Every value keeps its type: the queue never holds a hole or half an item, whatever
\* files the saves leave behind (outbox.js, load and #persist).
THEOREM TypeCorrect == Spec => []TypeOK
  BY Invariant, PTL DEF IInv

\* At most one activation of #drain is alive, for any number of requests, overlapping
\* saves, restarts and I/O errors (outbox.js, #kick and #drain).
THEOREM OneDrainHolds == Spec => []OneDrain
  BY Invariant, PTL DEF IInv

\* The item the loop awaits stays at the head: shift() removes that item.
THEOREM HeadStableHolds == Spec => []HeadStable
  BY Invariant, PTL DEF IInv

\* A queued item always has a loop, or a request that is about to start one.
THEOREM NoLostWakeupHolds == Spec => []NoLostWakeup
  BY Invariant, PTL DEF IInv

-----------------------------------------------------------------------------
(* What a copy of the queue, in memory, in a save or in a file, says *)

Names(q) == {q[n].id : n \in DOMAIN q}

\* A message before another in the order of the requests, and no request twice in it.
Prior(ord, i, j) == \E m, n \in DOMAIN ord : m < n /\ ord[m] = i /\ ord[n] = j
Once(ord) == \A m, n \in DOMAIN ord : ord[m] = ord[n] => m = n

\* A copy names requests, in their order, and counts no failure that did not happen.
Sorted(q, ord) == \A m, n \in DOMAIN q : m < n => Prior(ord, q[m].id, q[n].id)
Honest(q, fl)  == \A n \in DOMAIN q : q[n].attempts <= fl[q[n].id]
Good(q, ord, fl) == Names(q) \subseteq ToSet(ord) /\ Sorted(q, ord) /\ Honest(q, fl)

\* An empty copy says nothing.
LEMMA EmptyIsGood == \A ord, fl : Good(<<>>, ord, fl) /\ Names(<<>>) = {}
  BY DEF Good, Names, Sorted, Honest

\* The order of the requests is strict.
LEMMA PriorIsStrict ==
    ASSUME NEW ord \in Seq(Ids), Once(ord)
    PROVE  \A i, j : Prior(ord, i, j) => ~Prior(ord, j, i)
  <1>1. DOMAIN ord = 1 .. Len(ord) /\ Len(ord) \in Nat
    OBVIOUS
  <1> SUFFICES ASSUME NEW i, NEW j, Prior(ord, i, j), Prior(ord, j, i) PROVE FALSE
    OBVIOUS
  <1>2. PICK m \in DOMAIN ord, n \in DOMAIN ord : m < n /\ ord[m] = i /\ ord[n] = j
    BY DEF Prior
  <1>3. PICK a \in DOMAIN ord, b \in DOMAIN ord : a < b /\ ord[a] = j /\ ord[b] = i
    BY DEF Prior
  <1>4. a = n /\ b = m
    BY <1>2, <1>3 DEF Once
  <1> QED
    BY <1>1, <1>2, <1>3, <1>4

\* A request that is new comes after all the others, and leaves their order as it was.
LEMMA NewIsLast ==
    ASSUME NEW ord \in Seq(Ids), NEW i \in Ids, i \notin ToSet(ord), Once(ord)
    PROVE  LET new == Append(ord, i)
           IN  /\ Once(new) /\ ToSet(new) = ToSet(ord) \cup {i}
               /\ \A a \in ToSet(ord) : Prior(new, a, i)
               /\ \A a, b : Prior(ord, a, b) => Prior(new, a, b)
               /\ \A a, b : Prior(new, a, b) /\ b # i => Prior(ord, a, b)
               /\ \A a, b : Prior(new, a, b) => a \in ToSet(ord)
  <1> DEFINE new == Append(ord, i)
  <1>1. PICK k \in Nat : k = Len(ord) /\ DOMAIN ord = 1 .. k
    OBVIOUS
  <1>2. /\ DOMAIN new = 1 .. k + 1 /\ new[k + 1] = i
        /\ \A n \in 1 .. k : new[n] = ord[n] /\ ord[n] # i
    BY <1>1, AppendProperties DEF ToSet
  <1> HIDE DEF new
  <1>3. Once(new)
    <2> SUFFICES ASSUME NEW m \in 1 .. k + 1, NEW n \in 1 .. k + 1, new[m] = new[n]
                 PROVE  m = n
      BY <1>2 DEF Once
    <2>1. (m \in 1 .. k \/ m = k + 1) /\ (n \in 1 .. k \/ n = k + 1)
      OBVIOUS
    <2> QED
      BY <1>1, <1>2, <2>1 DEF Once
  <1>4. ToSet(new) = ToSet(ord) \cup {i}
    <2>1. 1 .. k + 1 = (1 .. k) \cup {k + 1}
      OBVIOUS
    <2> QED
      BY <1>1, <1>2, <2>1 DEF ToSet
  <1>5. \A a \in ToSet(ord) : Prior(new, a, i)
    <2> SUFFICES ASSUME NEW m \in 1 .. k PROVE Prior(new, ord[m], i)
      BY <1>1 DEF ToSet
    <2>1. m \in 1 .. k + 1 /\ k + 1 \in 1 .. k + 1 /\ m < k + 1
      OBVIOUS
    <2> QED
      BY <1>2, <2>1 DEF Prior
  <1>6. ASSUME NEW a, NEW b, Prior(ord, a, b) PROVE Prior(new, a, b)
    <2>1. PICK m \in 1 .. k, n \in 1 .. k : m < n /\ ord[m] = a /\ ord[n] = b
      BY <1>1, <1>6 DEF Prior
    <2>2. m \in 1 .. k + 1 /\ n \in 1 .. k + 1
      OBVIOUS
    <2> QED
      BY <1>2, <2>1, <2>2 DEF Prior
  <1>7. ASSUME NEW a, NEW b, Prior(new, a, b)
        PROVE  a \in ToSet(ord) /\ (b # i => Prior(ord, a, b))
    <2>1. PICK m \in 1 .. k + 1, n \in 1 .. k + 1 : m < n /\ new[m] = a /\ new[n] = b
      BY <1>2, <1>7 DEF Prior
    <2>2. m \in 1 .. k /\ (n \in 1 .. k \/ n = k + 1)
      BY <2>1
    <2>3. ord[m] = a /\ (b # i => n \in 1 .. k /\ ord[n] = b)
      BY <1>2, <2>1, <2>2
    <2> QED
      BY <1>1, <2>1, <2>2, <2>3 DEF ToSet, Prior
  <1> QED
    BY <1>3, <1>4, <1>5, <1>6, <1>7 DEF new

\* More requests and more failures leave a copy as good as it was.
LEMMA GoodStays ==
    ASSUME NEW q \in Seq(Item), NEW ord, NEW ord2, NEW fl \in [Ids -> Nat],
           NEW fl2 \in [Ids -> Nat], Good(q, ord, fl),
           ToSet(ord) \subseteq ToSet(ord2),
           \A a, b : Prior(ord, a, b) => Prior(ord2, a, b),
           \A i \in Ids : fl[i] <= fl2[i]
    PROVE  Good(q, ord2, fl2)
  <1>1. Names(q) \subseteq ToSet(ord2) /\ Sorted(q, ord2)
    BY DEF Good, Sorted
  <1>2. ASSUME NEW n \in DOMAIN q PROVE q[n].attempts <= fl2[q[n].id]
    <2>1. q[n].id \in Ids /\ q[n].attempts \in Nat
      <3>1. q[n] \in Item
        OBVIOUS
      <3> QED
        BY <3>1 DEF Item
    <2>2. q[n].attempts <= fl[q[n].id] /\ fl[q[n].id] <= fl2[q[n].id]
      BY <2>1 DEF Good, Honest
    <2> QED
      BY <2>1, <2>2
  <1> QED
    BY <1>1, <1>2 DEF Good, Honest

\* Pushing a new request keeps the queue good and names one more message.
LEMMA GoodPush ==
    ASSUME NEW q \in Seq(Item), NEW ord \in Seq(Ids), NEW fl \in [Ids -> Nat],
           Good(q, ord, fl), Once(ord), NEW i \in Ids, i \notin ToSet(ord)
    PROVE  LET item == [id |-> i, attempts |-> 0]
           IN  Good(Append(q, item), Append(ord, i), fl)
               /\ Names(Append(q, item)) = Names(q) \cup {i}
  <1> DEFINE item == [id |-> i, attempts |-> 0]
             p == Append(q, item)
             new == Append(ord, i)
  <1>1. PICK k \in Nat : k = Len(q) /\ DOMAIN q = 1 .. k
    OBVIOUS
  <1>2. item \in Item /\ item.id = i /\ item.attempts = 0
    BY DEF Item
  <1>3. /\ DOMAIN p = 1 .. k + 1 /\ p[k + 1] = item
        /\ \A n \in 1 .. k : p[n] = q[n]
    <2> HIDE DEF item
    <2>1. item \in Item
      BY <1>2
    <2>2. /\ Append(q, item) \in Seq(Item) /\ Len(Append(q, item)) = k + 1
          /\ Append(q, item)[k + 1] = item
          /\ \A n \in 1 .. k : Append(q, item)[n] = q[n]
      BY <1>1, <2>1, AppendProperties
    <2> HIDE DEF p
    <2> QED
      BY <2>2, LenProperties DEF p
  <1>4. /\ ToSet(new) = ToSet(ord) \cup {i}
        /\ \A a \in ToSet(ord) : Prior(new, a, i)
        /\ \A a, b : Prior(ord, a, b) => Prior(new, a, b)
    BY NewIsLast
  <1> HIDE DEF item, p, new
  <1>5. 1 .. k + 1 = (1 .. k) \cup {k + 1}
    OBVIOUS
  <1>6. Names(p) = Names(q) \cup {i}
    BY <1>1, <1>2, <1>3, <1>5 DEF Names
  <1>7. Sorted(p, new)
    <2> SUFFICES ASSUME NEW m \in 1 .. k + 1, NEW n \in 1 .. k + 1, m < n
                 PROVE  Prior(new, p[m].id, p[n].id)
      BY <1>3 DEF Sorted
    <2>1. m \in 1 .. k /\ p[m] = q[m] /\ q[m].id \in ToSet(ord)
      <3>1. m \in 1 .. k
        OBVIOUS
      <3>2. q[m].id \in Names(q)
        BY <1>1, <3>1 DEF Names
      <3> QED
        BY <1>3, <3>1, <3>2 DEF Good
    <2>2. CASE n \in 1 .. k
      BY <1>1, <1>3, <1>4, <2>1, <2>2 DEF Good, Sorted
    <2>3. CASE n = k + 1
      BY <1>2, <1>3, <1>4, <2>1, <2>3
    <2> QED
      BY <2>2, <2>3
  <1>8. Honest(p, fl)
    <2> SUFFICES ASSUME NEW n \in 1 .. k + 1 PROVE p[n].attempts <= fl[p[n].id]
      BY <1>3 DEF Honest
    <2>1. CASE n \in 1 .. k
      BY <1>1, <1>3, <2>1 DEF Good, Honest
    <2>2. CASE n = k + 1
      <3>1. fl[i] \in Nat
        OBVIOUS
      <3> QED
        BY <1>2, <1>3, <2>2, <3>1
    <2> QED
      BY <2>1, <2>2
  <1>9. Names(q) \cup {i} \subseteq ToSet(new)
    BY <1>4 DEF Good
  <1> QED
    BY <1>6, <1>7, <1>8, <1>9 DEF Good, p, item, new

\* Taking the head away takes its name away, and no other.
LEMMA GoodShift ==
    ASSUME NEW q \in Seq(Item), q # <<>>, NEW ord \in Seq(Ids), NEW fl,
           Good(q, ord, fl), Once(ord)
    PROVE  /\ Good(Tail(q), ord, fl)
           /\ Head(q).id \in Names(q)
           /\ Names(Tail(q)) = Names(q) \ {Head(q).id}
  <1> DEFINE t == Tail(q)
  <1>1. PICK k \in Nat : k = Len(q) /\ DOMAIN q = 1 .. k /\ k # 0
    OBVIOUS
  <1>2. DOMAIN t = 1 .. k - 1 /\ (\A n \in 1 .. k - 1 : t[n] = q[n + 1]) /\ Head(q) = q[1]
    BY <1>1
  <1> HIDE DEF t
  <1>3. ASSUME NEW n \in 1 .. k, q[n].id = q[1].id PROVE n = 1
    <2> SUFFICES ASSUME 1 < n PROVE FALSE
      OBVIOUS
    <2>1. Prior(ord, q[1].id, q[n].id)
      BY <1>1 DEF Good, Sorted
    <2> QED
      BY <1>3, <2>1, PriorIsStrict
  <1>4. ASSUME NEW n \in 1 .. k, n # 1 PROVE n - 1 \in 1 .. k - 1 /\ (n - 1) + 1 = n
    BY <1>4
  <1>5. ASSUME NEW n \in 1 .. k - 1 PROVE n + 1 \in 1 .. k /\ n + 1 # 1
    OBVIOUS
  <1>6. 1 \in 1 .. k
    BY <1>1
  <1>7. Names(t) \subseteq Names(q) \ {q[1].id}
    <2> SUFFICES ASSUME NEW n \in 1 .. k - 1
                 PROVE  t[n].id \in Names(q) /\ t[n].id # q[1].id
      BY <1>2 DEF Names
    <2>1. t[n] = q[n + 1] /\ n + 1 \in 1 .. k /\ n + 1 # 1
      BY <1>2, <1>5
    <2> QED
      BY <1>1, <1>3, <2>1 DEF Names
  <1>8. Names(q) \ {q[1].id} \subseteq Names(t)
    <2> SUFFICES ASSUME NEW n \in 1 .. k, q[n].id # q[1].id PROVE q[n].id \in Names(t)
      BY <1>1 DEF Names
    <2>1. n - 1 \in 1 .. k - 1 /\ t[n - 1] = q[n]
      BY <1>2, <1>4
    <2> QED
      BY <1>2, <2>1 DEF Names
  <1>9. Sorted(t, ord)
    <2> SUFFICES ASSUME NEW m \in 1 .. k - 1, NEW n \in 1 .. k - 1, m < n
                 PROVE  Prior(ord, t[m].id, t[n].id)
      BY <1>2 DEF Sorted
    <2>1. /\ m + 1 \in DOMAIN q /\ n + 1 \in DOMAIN q /\ m + 1 < n + 1
          /\ t[m] = q[m + 1] /\ t[n] = q[n + 1]
      BY <1>1, <1>2, <1>5
    <2> QED
      BY <2>1 DEF Good, Sorted
  <1>10. Honest(t, fl)
    BY <1>1, <1>2, <1>5 DEF Good, Honest
  <1> QED
    BY <1>1, <1>2, <1>6, <1>7, <1>8, <1>9, <1>10 DEF Good, Names, t

\* Counting a failure of the head that happened changes no name and no place.
LEMMA GoodRetry ==
    ASSUME NEW q \in Seq(Item), q # <<>>, NEW ord, NEW fl, Good(q, ord, fl),
           NEW tried \in Nat, tried <= fl[Head(q).id],
           NEW r, DOMAIN r = DOMAIN q, r[1].attempts = tried,
           \A n \in DOMAIN q : r[n].id = q[n].id /\ (n # 1 => r[n] = q[n])
    PROVE  Good(r, ord, fl) /\ Names(r) = Names(q)
  <1>1. PICK k \in Nat : k = Len(q) /\ DOMAIN q = 1 .. k /\ k # 0 /\ Head(q) = q[1]
    OBVIOUS
  <1>3. /\ DOMAIN r = 1 .. k
        /\ \A n \in 1 .. k : r[n].id = q[n].id /\ (n # 1 => r[n] = q[n])
        /\ r[1].attempts = tried
    BY <1>1
  <1>4. Names(r) = Names(q)
    BY <1>1, <1>3 DEF Names
  <1>5. Sorted(r, ord)
    BY <1>1, <1>3 DEF Good, Sorted
  <1>6. ASSUME NEW n \in 1 .. k PROVE r[n].attempts <= fl[r[n].id]
    BY <1>1, <1>3 DEF Good, Honest
  <1> QED
    BY <1>3, <1>4, <1>5, <1>6 DEF Good, Honest

-----------------------------------------------------------------------------
(* The steps, by what they do to the queue and to the histories *)

\* A step of the loops that neither sends nor counts anything.
LoopsQuiet ==
    \A l \in Loops :
        \/ loop'[l] = loop[l]
        \/ /\ loop[l].pc # "delivered"
           /\ loop'[l].pc \in {"idle", "pause", "sending", "backoff"}

\* A step of the timers, of a save or of the shutdown: the queue and what was sent stay.
QuietStep ==
    /\ up /\ UNCHANGED <<up, queue, order, delivered, fails, late, crashes>>
    /\ LoopsQuiet

\* One loop that moves on to a quiet place is a quiet step.
LEMMA OneLoopQuiet ==
    ASSUME NEW l \in Loops, loop[l].pc # "delivered",
           loop'[l].pc \in {"idle", "pause", "sending", "backoff"},
           \A k \in Loops \ {l} : loop'[k] = loop[k]
    PROVE  LoopsQuiet
  BY DEF LoopsQuiet

\* Moving on with the same item.
LEMMA GotoQuiet ==
    ASSUME TypeOK, NEW l \in Loops, loop[l].pc # "delivered",
           NEW pc \in {"sending", "backoff"}, Goto(l, pc)
    PROVE  LoopsQuiet
  <1>1. loop' = [loop EXCEPT ![l].pc = pc] /\ loop \in [Loops -> LoopState]
    BY DEF TypeOK, Goto
  <1>2. loop'[l].pc = pc /\ \A k \in Loops \ {l} : loop'[k] = loop[k]
    BY <1>1 DEF LoopState
  <1> QED
    BY <1>2, OneLoopQuiet

\* The loop ends.
LEMMA EndQuiet ==
    ASSUME TypeOK, NEW l \in Loops, loop[l].pc # "delivered", loop' = [loop EXCEPT ![l] = Idle]
    PROVE  LoopsQuiet
  <1>1. loop'[l].pc = "idle" /\ \A k \in Loops \ {l} : loop'[k] = loop[k]
    BY DEF TypeOK, Idle
  <1> QED
    BY <1>1, OneLoopQuiet

\* The top of the while loop.
LEMMA NextIterationQuiet ==
    ASSUME TypeOK, NEW l \in Loops, loop[l].pc # "delivered", NextIteration(l)
    PROVE  LoopsQuiet
  <1>1. loop'[l].pc \in {"idle", "pause"} /\ \A k \in Loops \ {l} : loop'[k] = loop[k]
    BY DEF TypeOK, NextIteration, Idle
  <1> QED
    BY <1>1, OneLoopQuiet

\* A kick starts a loop that rests, or none.
LEMMA KickQuiet == ASSUME TypeOK, Kick PROVE LoopsQuiet
  <1>1. CASE loop' = loop
    BY <1>1 DEF LoopsQuiet
  <1>2. CASE \E l \in Loops : loop[l].pc = "idle" /\ NextIteration(l)
    BY <1>2, NextIterationQuiet
  <1> QED
    BY <1>1, <1>2 DEF Kick

\* The end of a save wakes a request or the loop, and sends nothing.
LEMMA AfterSaveQuiet ==
    ASSUME IInv, NEW w \in Writers, AfterSave(w), save[w].phase # "none"
    PROVE  QuietStep
  <1>1. TypeOK /\ up
    BY DEF IInv, NothingWhenDown
  <1>2. UNCHANGED <<up, queue, order, delivered, fails, late, crashes>>
    BY DEF AfterSave
  <1>3. CASE AnswerRequest(w)
    BY <1>1, <1>2, <1>3, KickQuiet DEF AnswerRequest, QuietStep
  <1>4. CASE ResumeLoop(w)
    <2>1. CASE loop[w].pc = "savingRetry" /\ Goto(w, "backoff")
      BY <1>1, <1>2, <1>4, <2>1, GotoQuiet DEF ResumeLoop, QuietStep
    <2>2. CASE loop[w].pc \in GonePcs /\ NextIteration(w)
      BY <1>1, <1>2, <1>4, <2>2, NextIterationQuiet DEF ResumeLoop, QuietStep, GonePcs
    <2> QED
      BY <1>4, <2>1, <2>2 DEF ResumeLoop
  <1> QED
    BY <1>3, <1>4 DEF AfterSave

\* What a step may be.
LEMMA NextSteps ==
    ASSUME IInv, Next
    PROVE  \/ \E i \in Ids : Enqueue(i)
           \/ \E l \in Loops : WhatsAppAccepts(l) \/ SendResolves(l) \/ SendFails(l)
           \/ QuietStep
           \/ Halt
           \/ Load /\ LoopsQuiet
  <1> USE DEF IInv
  <1>l. ASSUME NEW l \in Loops, loop[l].pc # "idle" PROVE up
    BY <1>l DEF NothingWhenDown
  <1>w. ASSUME NEW w \in Writers, save[w].phase # "none" PROVE up
    BY <1>w DEF NothingWhenDown
  <1>1. ASSUME NEW l \in Loops, Wake(l) PROVE QuietStep
    <2>1. up /\ UNCHANGED <<up, queue, order, delivered, fails, late, crashes>>
      BY <1>1, <1>l DEF Wake, ghosts, bounds
    <2>2. CASE loop' = [loop EXCEPT ![l] = Idle]
      BY <1>1, <2>1, <2>2, EndQuiet DEF Wake, QuietStep
    <2>3. CASE Goto(l, "sending")
      BY <1>1, <2>1, <2>3, GotoQuiet DEF Wake, QuietStep
    <2> QED
      BY <1>1, <2>2, <2>3 DEF Wake
  <1>2. ASSUME NEW l \in Loops, BackoffOver(l) PROVE QuietStep
    <2>1. up /\ UNCHANGED <<up, queue, order, delivered, fails, late, crashes>>
      BY <1>2, <1>l DEF BackoffOver, ghosts, bounds
    <2> QED
      BY <1>2, <2>1, NextIterationQuiet DEF BackoffOver, QuietStep
  <1>3. ASSUME NEW w \in Writers, Stringify(w) \/ OpenTmp(w) \/ WriteTmp(w) PROVE QuietStep
    <2>1. UNCHANGED <<up, queue, loop, order, delivered, fails, late, crashes>>
      BY <1>3 DEF Stringify, OpenTmp, WriteTmp, memory, ghosts, bounds
    <2>2. up
      BY <1>3, <1>w DEF Stringify, OpenTmp, WriteTmp
    <2> QED
      BY <2>1, <2>2 DEF QuietStep, LoopsQuiet
  <1>4. ASSUME NEW w \in Writers, Rename(w) \/ FsError(w) PROVE QuietStep
    BY <1>4, AfterSaveQuiet DEF Rename, FsError
  <1>5. ASSUME Stop PROVE QuietStep
    BY <1>5 DEF Stop, ghosts, bounds, QuietStep, LoopsQuiet
  <1>6. ASSUME Load PROVE LoopsQuiet
    BY <1>6, KickQuiet DEF Load
  <1> QED
    BY <1>1, <1>2, <1>3, <1>4, <1>5, <1>6 DEF Next, Drain, Persist, Crash, Exit

-----------------------------------------------------------------------------
(* The invariant of deliveries: what the copies, the loop and the histories say of *)
(* each other *)

\* The queue, every snapshot and both files are good copies.
CopiesAreGood ==
    /\ Once(order)
    /\ \A q \in {queue, tmp.items, main.items} : Good(q, order, fails)
    /\ \A w \in Writers : Good(save[w].items, order, fails)
    /\ tmp.kind # "json" => tmp.items = <<>>
    /\ main.kind # "json" => main.items = <<>>

\* Only what was asked for is sent, and the loop settles what was sent or gave up.
HeldIsSettling ==
    /\ ToSet(delivered) \subseteq ToSet(order)
    /\ \A l \in Loops :
        /\ loop[l].pc \in {"delivered", "savingSent"} => loop[l].id \in ToSet(delivered)
        /\ loop[l].pc = "savingFailed" =>
               loop[l].id \in Ids /\ fails[loop[l].id] >= MaxAttempts

\* A message that may go out before anything else happens to the process.
Due(i) ==
    \/ ~up
    \/ i \in Names(queue) /\ ~\E l \in Loops : loop[l].pc = "delivered" /\ loop[l].id = i

\* What may cost a message a copy: a crash, a send that rejects after WhatsApp took it.
Mishaps(i) == crashes + late[i]

CopiesPaid == \A i \in Ids : CopiesOf(i) <= Mishaps(i) + (IF Due(i) THEN 0 ELSE 1)

\* A message that left the queue unsent left it in a crash: no copy brings it back.
Lost(i) == up /\ i \in ToSet(order) /\ ~Finished(i) /\ i \notin Names(queue)
LostStaysLost ==
    \A i \in Ids : Lost(i) =>
        /\ i \notin Names(main.items)
        /\ \A w \in Writers :
            /\ save[w].phase \in {"stringified", "opened", "written"} =>
                   i \notin Names(save[w].items)
            /\ save[w].phase \in {"opened", "written"} => i \notin Names(tmp.items)

\* A message overtaken by a later one was lost.
LateStaysOut ==
    \A i, j \in Ids : Prior(order, i, j) /\ j \in ToSet(delivered) /\ ~Finished(i) =>
        i \notin Names(queue) /\ (~up => i \notin Names(main.items))

DeliveryInv ==
    /\ CopiesAreGood /\ HeldIsSettling /\ NeverGivesUpEarly
    /\ CopiesPaid /\ LostStaysLost /\ LateStaysOut /\ FirstDeliveriesInOrder

\* What is awaited is the head of the queue, and a message that was asked for.
LEMMA HeldIsHead ==
    ASSUME IInv, CopiesAreGood, NEW l \in Loops, loop[l].pc \in HeadPcs
    PROVE  /\ up /\ queue \in Seq(Item) /\ queue # <<>> /\ Head(queue) \in Item
           /\ loop[l].id = Head(queue).id /\ loop[l].id \in Ids
           /\ loop[l].id \in Names(queue) /\ loop[l].id \in ToSet(order)
           /\ \A k \in Loops \ {l} : loop[k].pc = "idle"
  <1>1. /\ queue \in Seq(Item) /\ queue # <<>>
        /\ loop[l].id = Head(queue).id
    BY DEF IInv, TypeOK, HeadStable
  <1>2. Head(queue) \in Item /\ Head(queue) = queue[1] /\ 1 \in DOMAIN queue
    BY <1>1
  <1>3. loop[l].id \in Names(queue) /\ Names(queue) \subseteq ToSet(order)
    BY <1>1, <1>2 DEF Names, CopiesAreGood, Good
  <1>4. Busy(l) /\ loop[l].pc # "idle"
    BY DEF Busy, HeadPcs
  <1>5. Resting(l) /\ up
    BY <1>4, OthersRest DEF IInv, NothingWhenDown
  <1> QED
    BY <1>1, <1>2, <1>3, <1>5 DEF Item, Resting

\* What was asked for, failed and was sent only grows.
HistoryGrows ==
    /\ Once(order)' /\ ToSet(order) \subseteq ToSet(order')
    /\ \A a, b : Prior(order, a, b) => Prior(order', a, b)
    /\ \A i \in Ids : fails[i] <= fails'[i]
    /\ ToSet(delivered) \subseteq ToSet(delivered')

\* Appending keeps what was there and adds one.
LEMMA AppendToSet ==
    ASSUME NEW S, NEW s \in Seq(S), NEW x \in S
    PROVE  ToSet(Append(s, x)) = ToSet(s) \cup {x}
  <1>1. PICK k \in Nat : k = Len(s) /\ DOMAIN s = 1 .. k
    OBVIOUS
  <1> DEFINE t == Append(s, x)
  <1>2. DOMAIN t = 1 .. k + 1 /\ t[k + 1] = x /\ \A n \in 1 .. k : t[n] = s[n]
    BY <1>1
  <1> HIDE DEF t
  <1>3. 1 .. k + 1 = (1 .. k) \cup {k + 1}
    OBVIOUS
  <1>4. ToSet(t) = ToSet(s) \cup {x}
    BY <1>1, <1>2, <1>3 DEF ToSet
  <1> QED
    BY <1>4 DEF t

\* On every step the histories only grow.
LEMMA HistoryNext == ASSUME IInv, CopiesAreGood, Next PROVE HistoryGrows
  <1>1. order \in Seq(Ids) /\ delivered \in Seq(Ids) /\ fails \in [Ids -> Nat] /\ Once(order)
    BY DEF IInv, TypeOK, CopiesAreGood
  <1>2. \A i \in Ids : fails[i] <= fails[i]
    BY <1>1
  <1>3. CASE UNCHANGED <<order, delivered, fails>>
    BY <1>1, <1>2, <1>3 DEF HistoryGrows
  <1>4. ASSUME NEW i \in Ids, Enqueue(i) PROVE HistoryGrows
    <2>1. /\ order' = Append(order, i) /\ i \notin ToSet(order)
          /\ UNCHANGED <<delivered, fails>>
      BY <1>4 DEF Enqueue
    <2> QED
      BY <1>1, <1>2, <2>1, NewIsLast DEF HistoryGrows
  <1>5. ASSUME NEW l \in Loops, WhatsAppAccepts(l) PROVE HistoryGrows
    <2>1. delivered' = Append(delivered, loop[l].id) /\ UNCHANGED <<order, fails>>
      BY <1>5 DEF WhatsAppAccepts
    <2>2. loop[l].id \in Ids
      BY <1>5, HeldIsHead DEF WhatsAppAccepts, HeadPcs
    <2>3. ToSet(delivered) \subseteq ToSet(delivered')
      BY <1>1, <2>1, <2>2, AppendToSet
    <2> QED
      BY <1>1, <1>2, <2>1, <2>3 DEF HistoryGrows
  <1>6. ASSUME NEW l \in Loops, SendFails(l) PROVE HistoryGrows
    <2>1. fails' = [fails EXCEPT ![loop[l].id] = @ + 1] /\ UNCHANGED <<order, delivered>>
      BY <1>6 DEF SendFails
    <2>2. \A i \in Ids : fails[i] <= fails'[i]
      BY <1>1, <2>1
    <2> QED
      BY <1>1, <2>1, <2>2 DEF HistoryGrows
  <1>7. ASSUME NEW l \in Loops, SendResolves(l) PROVE HistoryGrows
    BY <1>3, <1>7 DEF SendResolves, ghosts
  <1>8. QuietStep \/ Halt \/ Load => UNCHANGED <<order, delivered, fails>>
    BY DEF QuietStep, Halt, Load, ghosts
  <1> QED
    BY <1>3, <1>4, <1>5, <1>6, <1>7, <1>8, NextSteps

\* What is finished stays so.
LEMMA FinishedStays ==
    ASSUME TypeOK, TypeOK', HistoryGrows, NEW i \in Ids, Finished(i)
    PROVE  Finished(i)'
  <1>1. fails[i] \in Nat /\ fails'[i] \in Nat /\ MaxAttempts \in Nat
    BY OutboxAssumption DEF TypeOK
  <1> QED
    BY <1>1 DEF Finished, HistoryGrows

-----------------------------------------------------------------------------
(* The copies stay good *)

\* Where the content of a snapshot or a file can come from.
Copy(q) ==
    \/ q \in {queue, tmp.items, main.items, <<>>}
    \/ \E w \in Writers : q = save[w].items

FilesFromCopies ==
    /\ Copy(tmp'.items) /\ Copy(main'.items)
    /\ \A w \in Writers : Copy(save'[w].items)
    /\ tmp'.kind # "json" => tmp'.items = <<>>
    /\ main'.kind # "json" => main'.items = <<>>

\* A save that starts or ends holds nothing yet, or no more.
LEMMA SaveFromCopies ==
    ASSUME TypeOK, CopiesAreGood, NEW w \in Writers, NEW s, s.items = <<>>,
           save' = [save EXCEPT ![w] = s], tmp' = tmp, main' = main
    PROVE  FilesFromCopies
  <1>1. save'[w].items = <<>> /\ \A v \in Writers \ {w} : save'[v] = save[v]
    BY DEF TypeOK
  <1> QED
    BY <1>1 DEF FilesFromCopies, Copy, CopiesAreGood

\* No step of a save writes anything but a snapshot of the queue.
LEMMA FilesNext == ASSUME IInv, CopiesAreGood, Next PROVE FilesFromCopies
  <1> USE DEF IInv
  <1>u. CASE UNCHANGED <<save, tmp, main>>
    BY <1>u DEF FilesFromCopies, Copy, CopiesAreGood
  <1>n. NewSave.items = <<>> /\ NoSave.items = <<>>
    BY DEF NewSave, NoSave
  <1>f. /\ EmptyFile.items = <<>> /\ EmptyFile.kind # "json"
        /\ MixedFile.items = <<>> /\ MixedFile.kind # "json"
        /\ NoFile.items = <<>> /\ NoFile.kind # "json"
        /\ \A q : Json(q).items = q /\ Json(q).kind = "json"
    BY DEF EmptyFile, MixedFile, NoFile, Json
  <1>1. ASSUME NEW w \in Writers, StartSave(w), UNCHANGED files PROVE FilesFromCopies
    BY <1>1, <1>n, SaveFromCopies DEF StartSave, files
  <1>2. ASSUME NEW w \in Writers, Stringify(w) PROVE FilesFromCopies
    <2>1. /\ save' = [save EXCEPT ![w].phase = "stringified", ![w].items = queue]
          /\ tmp' = tmp /\ main' = main
      BY <1>2 DEF Stringify, files
    <2>2. save'[w].items = queue /\ \A v \in Writers \ {w} : save'[v] = save[v]
      BY <2>1 DEF TypeOK, Save
    <2> QED
      BY <2>1, <2>2 DEF FilesFromCopies, Copy, CopiesAreGood
  <1>3. ASSUME NEW w \in Writers, OpenTmp(w) PROVE FilesFromCopies
    <2>1. /\ save' = [save EXCEPT ![w].phase = "opened", ![w].fd = "tmp"]
          /\ tmp' = EmptyFile /\ main' = main
      BY <1>3 DEF OpenTmp
    <2>2. \A v \in Writers : save'[v].items = save[v].items
      BY <2>1 DEF TypeOK, Save
    <2> QED
      BY <1>f, <2>1, <2>2 DEF FilesFromCopies, Copy, CopiesAreGood
  <1>4. ASSUME NEW w \in Writers, WriteTmp(w) PROVE FilesFromCopies
    <2>1. save' = [save EXCEPT ![w].phase = "written"]
      BY <1>4 DEF WriteTmp
    <2>2. \A v \in Writers : save'[v].items = save[v].items
      BY <2>1 DEF TypeOK, Save
    <2> DEFINE written == {Json(save[w].items), MixedFile}
    <2>3. tmp' \in {tmp} \cup written /\ main' \in {main} \cup written
      BY <1>4 DEF WriteTmp, Over, files
    <2> QED
      BY <1>f, <2>2, <2>3 DEF FilesFromCopies, Copy, CopiesAreGood
  <1>5. ASSUME NEW w \in Writers, Rename(w) PROVE FilesFromCopies
    <2>1. CASE save' = [save EXCEPT ![w] = NoSave] /\ UNCHANGED files
      BY <1>n, <2>1, SaveFromCopies DEF files
    <2>2. CASE /\ save' = [v \in Writers |->
                             IF v = w THEN NoSave ELSE [save[v] EXCEPT !.fd = Renamed(@)]]
               /\ main' = tmp /\ tmp' = NoFile
      <3>1. \A v \in Writers : save'[v].items \in {save[v].items, <<>>}
        BY <1>n, <2>2 DEF TypeOK, Save
      <3> QED
        BY <1>f, <2>2, <3>1 DEF FilesFromCopies, Copy, CopiesAreGood
    <2> QED
      BY <1>5, <2>1, <2>2 DEF Rename
  <1>6. ASSUME NEW w \in Writers, FsError(w) PROVE FilesFromCopies
    BY <1>6, <1>n, SaveFromCopies DEF FsError, files
  <1>7. ASSUME Halt PROVE FilesFromCopies
    <2>1. (\A w \in Writers : save'[w].items = <<>>) /\ tmp' = tmp /\ main' = main
      BY <1>7, <1>n DEF Halt, files
    <2> QED
      BY <2>1 DEF FilesFromCopies, Copy, CopiesAreGood
  <1>8. ASSUME NEW i \in Ids, Enqueue(i) PROVE FilesFromCopies
    BY <1>1, <1>8 DEF Enqueue, Writers
  <1>9. ASSUME NEW l \in Loops, SendResolves(l) \/ SendFails(l) PROVE FilesFromCopies
    BY <1>1, <1>9 DEF SendResolves, SendFails, Writers
  <1>10. ASSUME NEW l \in Loops, Wake(l) \/ WhatsAppAccepts(l) \/ BackoffOver(l)
         PROVE  FilesFromCopies
    BY <1>u, <1>10 DEF Wake, WhatsAppAccepts, BackoffOver, files
  <1>11. Stop \/ Load => FilesFromCopies
    BY <1>u DEF Stop, Load, files
  <1> QED
    BY <1>2, <1>3, <1>4, <1>5, <1>6, <1>7, <1>8, <1>9, <1>10, <1>11
    DEF Next, Drain, Persist, Crash, Exit

\* What taking the head away leaves.
LEMMA ShiftNames ==
    ASSUME IInv, CopiesAreGood, NEW l \in Loops, loop[l].pc \in HeadPcs, Shift
    PROVE  /\ Good(queue', order, fails)
           /\ Names(queue') = Names(queue) \ {loop[l].id}
  <1>1. queue \in Seq(Item) /\ queue # <<>> /\ loop[l].id = Head(queue).id
    BY HeldIsHead
  <1>2. order \in Seq(Ids) /\ Once(order) /\ Good(queue, order, fails)
    BY DEF IInv, TypeOK, CopiesAreGood
  <1> QED
    BY <1>1, <1>2, GoodShift DEF Shift

\* What a failed send leaves: a message that was given up has failed often enough.
LEMMA FailNames ==
    ASSUME IInv, CopiesAreGood, NEW l \in Loops, SendFails(l)
    PROVE  /\ Good(queue', order, fails')
           /\ \/ /\ loop' = [loop EXCEPT ![l].pc = "savingFailed"]
                 /\ Names(queue') = Names(queue) \ {loop[l].id}
                 /\ fails'[loop[l].id] >= MaxAttempts
              \/ /\ loop' = [loop EXCEPT ![l].pc = "savingRetry"]
                 /\ Names(queue') = Names(queue)
  <1> DEFINE tried == Head(queue).attempts + 1
  <1>1. loop[l].pc \in HeadPcs
    BY DEF SendFails, HeadPcs
  <1>2. /\ queue \in Seq(Item) /\ queue # <<>> /\ Head(queue) \in Item
        /\ loop[l].id = Head(queue).id /\ loop[l].id \in Ids
    BY <1>1, HeldIsHead
  <1>3. order \in Seq(Ids) /\ fails \in [Ids -> Nat] /\ Good(queue, order, fails)
    BY DEF IInv, TypeOK, CopiesAreGood
  <1>4. Head(queue).attempts \in Nat /\ fails[loop[l].id] \in Nat /\ MaxAttempts \in Nat
    BY <1>2, <1>3, OutboxAssumption DEF Item
  <1>5. Head(queue).attempts <= fails[loop[l].id]
    <2>1. Head(queue) = queue[1] /\ 1 \in DOMAIN queue
      BY <1>2
    <2> QED
      BY <1>2, <1>3, <2>1 DEF Good, Honest
  <1>6. /\ fails' \in [Ids -> Nat] /\ fails'[loop[l].id] = fails[loop[l].id] + 1
        /\ \A i \in Ids : fails[i] <= fails'[i]
    <2>1. fails' = [fails EXCEPT ![loop[l].id] = @ + 1]
      BY DEF SendFails
    <2> QED
      BY <1>2, <1>3, <2>1
  <1>7. tried \in Nat /\ tried <= fails'[loop[l].id]
    BY <1>4, <1>5, <1>6
  <1>8. \/ GivesUp(tried) /\ Shift /\ Goto(l, "savingFailed")
        \/ Retry(tried) /\ Goto(l, "savingRetry")
    BY DEF SendFails
  <1> HIDE DEF tried
  <1>9. CASE GivesUp(tried) /\ Shift /\ Goto(l, "savingFailed")
    <2>1. Good(queue', order, fails) /\ Names(queue') = Names(queue) \ {loop[l].id}
      BY <1>1, <1>9, ShiftNames
    <2>2. queue' \in Seq(Item)
      BY <1>2, <1>9, ShiftIsQueue DEF Shift
    <2>3. Good(queue', order, fails')
      BY <1>3, <1>6, <2>1, <2>2, GoodStays
    <2>4. fails'[loop[l].id] >= MaxAttempts
      BY <1>4, <1>6, <1>7, <1>9 DEF GivesUp
    <2> QED
      BY <1>9, <2>1, <2>3, <2>4 DEF Goto
  <1>10. CASE Retry(tried) /\ Goto(l, "savingRetry")
    <2>1. Good(queue', order, fails') /\ Names(queue') = Names(queue)
      <3>1. tried <= fails'[Head(queue).id] /\ Good(queue, order, fails')
        BY <1>2, <1>3, <1>6, <1>7, GoodStays
      <3>2. queue' = [queue EXCEPT ![1].attempts = tried]
        BY <1>10 DEF Retry
      <3>3. \A n \in DOMAIN queue : queue[n] \in Item
        BY <1>2
      <3>4. /\ DOMAIN queue' = DOMAIN queue /\ queue'[1].attempts = tried
            /\ \A n \in DOMAIN queue :
                queue'[n].id = queue[n].id /\ (n # 1 => queue'[n] = queue[n])
        BY <1>2, <3>2, <3>3 DEF Item
      <3> QED
        BY <1>2, <1>7, <3>1, <3>4, GoodRetry
    <2> QED
      BY <1>10, <2>1 DEF Goto
  <1> QED
    BY <1>8, <1>9, <1>10

\* Every step keeps the queue, the snapshots and the files good copies.
LEMMA CopiesAreGoodNext == ASSUME IInv, CopiesAreGood, Next PROVE CopiesAreGood'
  <1>1. TypeOK /\ TypeOK' /\ HeadStable
    BY TypeNext DEF IInv
  <1>2. HistoryGrows /\ FilesFromCopies
    BY HistoryNext, FilesNext
  <1>3. fails \in [Ids -> Nat] /\ fails' \in [Ids -> Nat]
    BY <1>1 DEF TypeOK
  <1>4. ASSUME NEW q \in Seq(Item), Good(q, order, fails) PROVE Good(q, order', fails')
    BY <1>2, <1>3, <1>4, GoodStays DEF HistoryGrows
  <1>5. ASSUME NEW q, Copy(q) PROVE Good(q, order', fails')
    <2>1. CASE q = <<>>
      BY <2>1, EmptyIsGood
    <2>2. CASE q \in {queue, tmp.items, main.items} \/ \E w \in Writers : q = save[w].items
      <3>1. q \in Seq(Item)
        BY <1>1, <2>2 DEF TypeOK, File, Save
      <3>2. Good(q, order, fails)
        BY <2>2 DEF CopiesAreGood
      <3> QED
        BY <1>4, <3>1, <3>2
    <2> QED
      BY <1>5, <2>1, <2>2 DEF Copy
  <1>6. Good(queue', order', fails')
    <2>1. ASSUME NEW i \in Ids, Enqueue(i) PROVE Good(queue', order', fails')
      <3>1. /\ queue' = Append(queue, [id |-> i, attempts |-> 0])
            /\ order' = Append(order, i) /\ fails' = fails /\ i \notin ToSet(order)
        BY <2>1 DEF Enqueue, Push
      <3>2. /\ queue \in Seq(Item) /\ order \in Seq(Ids) /\ Once(order)
            /\ Good(queue, order, fails)
        BY <1>1 DEF TypeOK, CopiesAreGood
      <3> QED
        BY <1>3, <3>1, <3>2, GoodPush
    <2>2. ASSUME NEW l \in Loops, SendResolves(l) PROVE Good(queue', order', fails')
      <3>1. Good(queue', order, fails)
        BY <2>2, ShiftNames DEF SendResolves, HeadPcs
      <3> QED
        BY <2>2, <3>1 DEF SendResolves, ghosts
    <2>3. ASSUME NEW l \in Loops, SendFails(l) PROVE Good(queue', order', fails')
      <3>1. Good(queue', order, fails') /\ order' = order
        BY <2>3, FailNames DEF SendFails
      <3> QED
        BY <3>1
    <2>4. Halt \/ Load => Copy(queue')
      BY DEF Halt, Load, Copy
    <2>5. ASSUME NEW l \in Loops, WhatsAppAccepts(l) PROVE Copy(queue')
      BY <2>5 DEF WhatsAppAccepts, Copy
    <2>6. QuietStep => Copy(queue')
      BY DEF QuietStep, Copy
    <2> QED
      BY <1>5, <2>1, <2>2, <2>3, <2>4, <2>5, <2>6, NextSteps
  <1> QED
    BY <1>2, <1>5, <1>6 DEF CopiesAreGood, FilesFromCopies, HistoryGrows

-----------------------------------------------------------------------------
(* What the loop holds, and what it reports *)

\* One loop that moves on, beside others that stay.
LEMMA GotoLeavesOthers ==
    ASSUME TypeOK, NEW l \in Loops, NEW pc, loop' = [loop EXCEPT ![l].pc = pc]
    PROVE  /\ loop'[l].pc = pc /\ loop'[l].id = loop[l].id
           /\ \A k \in Loops \ {l} : loop'[k] = loop[k]
  <1>1. loop \in [Loops -> LoopState] /\ loop[l] \in LoopState
    BY DEF TypeOK
  <1> QED
    BY <1>1 DEF LoopState

\* A count of failures that is high enough stays so.
LEMMA SpentStays ==
    ASSUME TypeOK, TypeOK', HistoryGrows, NEW i \in Ids, fails[i] >= MaxAttempts
    PROVE  fails'[i] >= MaxAttempts
  <1>1. fails[i] \in Nat /\ fails'[i] \in Nat /\ MaxAttempts \in Nat
    BY OutboxAssumption DEF TypeOK
  <1> QED
    BY <1>1 DEF HistoryGrows

\* What a loop holds while it settles was sent, or failed often enough.
LEMMA HeldIsSettlingNext ==
    ASSUME IInv, CopiesAreGood, HeldIsSettling, Next
    PROVE  HeldIsSettling'
  <1> DEFINE fine(l) ==
        /\ loop'[l].pc \in {"delivered", "savingSent"} => loop'[l].id \in ToSet(delivered')
        /\ loop'[l].pc = "savingFailed" =>
               loop'[l].id \in Ids /\ fails'[loop'[l].id] >= MaxAttempts
  <1>1. TypeOK /\ TypeOK' /\ HistoryGrows
    BY TypeNext, HistoryNext DEF IInv
  <1>2. ASSUME NEW l \in Loops, loop'[l] = loop[l] PROVE fine(l)
    BY <1>1, <1>2, SpentStays DEF HeldIsSettling, HistoryGrows
  <1>3. ASSUME ToSet(delivered') = ToSet(delivered), NEW l \in Loops
        PROVE  LoopsQuiet => fine(l)
    BY <1>2 DEF LoopsQuiet
  <1>4. ASSUME NEW i \in Ids, Enqueue(i) PROVE HeldIsSettling'
    <2>1. delivered' = delivered /\ loop' = loop /\ ToSet(order) \subseteq ToSet(order')
      BY <1>1, <1>4 DEF Enqueue, HistoryGrows
    <2>2. \A l \in Loops : fine(l)
      BY <1>2, <2>1
    <2> QED
      BY <2>1, <2>2 DEF HeldIsSettling
  <1>5. ASSUME NEW l \in Loops, WhatsAppAccepts(l) PROVE HeldIsSettling'
    <2>1. /\ delivered' = Append(delivered, loop[l].id) /\ order' = order
          /\ loop' = [loop EXCEPT ![l].pc = "delivered"]
      BY <1>5 DEF WhatsAppAccepts, Goto
    <2>2. loop[l].id \in Ids /\ loop[l].id \in ToSet(order)
      BY <1>5, HeldIsHead DEF WhatsAppAccepts, HeadPcs
    <2>3. ToSet(delivered') = ToSet(delivered) \cup {loop[l].id}
      BY <1>1, <2>1, <2>2, AppendToSet DEF TypeOK
    <2>4. /\ loop'[l].pc = "delivered" /\ loop'[l].id = loop[l].id
          /\ \A k \in Loops \ {l} : loop'[k] = loop[k]
      BY <1>1, <2>1, GotoLeavesOthers
    <2>5. \A k \in Loops : fine(k)
      BY <1>2, <2>3, <2>4
    <2> QED
      BY <2>1, <2>2, <2>3, <2>5 DEF HeldIsSettling
  <1>6. ASSUME NEW l \in Loops, SendResolves(l) PROVE HeldIsSettling'
    <2>1. /\ delivered' = delivered /\ order' = order
          /\ loop' = [loop EXCEPT ![l].pc = "savingSent"]
          /\ loop[l].id \in ToSet(delivered)
      BY <1>6 DEF SendResolves, Goto, ghosts, HeldIsSettling
    <2>2. /\ loop'[l].pc = "savingSent" /\ loop'[l].id = loop[l].id
          /\ \A k \in Loops \ {l} : loop'[k] = loop[k]
      BY <1>1, <2>1, GotoLeavesOthers
    <2>3. \A k \in Loops : fine(k)
      BY <1>2, <2>1, <2>2
    <2> QED
      BY <2>1, <2>3 DEF HeldIsSettling
  <1>7. ASSUME NEW l \in Loops, SendFails(l) PROVE HeldIsSettling'
    <2>1. delivered' = delivered /\ order' = order
      BY <1>7 DEF SendFails
    <2>2. loop[l].id \in Ids
      BY <1>7, HeldIsHead DEF SendFails, HeadPcs
    <2>3. \/ /\ loop' = [loop EXCEPT ![l].pc = "savingFailed"]
             /\ fails'[loop[l].id] >= MaxAttempts
          \/ loop' = [loop EXCEPT ![l].pc = "savingRetry"]
      BY <1>7, FailNames
    <2>4. /\ loop'[l].id = loop[l].id /\ \A k \in Loops \ {l} : loop'[k] = loop[k]
          /\ \/ loop'[l].pc = "savingFailed" /\ fails'[loop[l].id] >= MaxAttempts
             \/ loop'[l].pc = "savingRetry"
      BY <1>1, <2>3, GotoLeavesOthers
    <2>5. \A k \in Loops : fine(k)
      BY <1>2, <2>2, <2>4
    <2> QED
      BY <2>1, <2>5 DEF HeldIsSettling
  <1>8. ASSUME QuietStep \/ Load, LoopsQuiet PROVE HeldIsSettling'
    <2>1. delivered' = delivered /\ order' = order
      BY <1>8 DEF QuietStep, Load, ghosts
    <2>2. \A k \in Loops : fine(k)
      BY <1>3, <1>8, <2>1
    <2> QED
      BY <2>1, <2>2 DEF HeldIsSettling
  <1>9. ASSUME Halt PROVE HeldIsSettling'
    <2>1. delivered' = delivered /\ order' = order /\ \A k \in Loops : loop'[k].pc = "idle"
      BY <1>9 DEF Halt, Idle, ghosts
    <2> QED
      BY <2>1 DEF HeldIsSettling
  <1> QED
    BY <1>4, <1>5, <1>6, <1>7, <1>8, <1>9, NextSteps DEF QuietStep

\* What #settle reports as failed failed often enough.
LEMMA NeverGivesUpEarlyNext ==
    ASSUME IInv, CopiesAreGood, HeldIsSettling, NeverGivesUpEarly, Next
    PROVE  NeverGivesUpEarly'
  <1>1. TypeOK /\ TypeOK' /\ HistoryGrows
    BY TypeNext, HistoryNext DEF IInv
  <1>2. ASSUME settled' = settled PROVE NeverGivesUpEarly'
    BY <1>1, <1>2, SpentStays DEF NeverGivesUpEarly
  <1>3. ASSUME NEW w \in Writers, AfterSave(w) PROVE NeverGivesUpEarly'
    <2>1. CASE /\ w \in Loops /\ loop[w].pc \in GonePcs
               /\ settled' = [settled EXCEPT ![loop[w].id] =
                                IF loop[w].pc = "savingSent" THEN "sent" ELSE "failed"]
      <3>1. \A i \in Ids : settled'[i] = "failed" =>
                settled[i] = "failed" \/ (i = loop[w].id /\ loop[w].pc = "savingFailed")
        BY <1>1, <2>1 DEF TypeOK, GonePcs
      <3>2. \A i \in Ids : settled'[i] = "failed" => fails[i] >= MaxAttempts
        BY <2>1, <3>1 DEF NeverGivesUpEarly, HeldIsSettling
      <3> QED
        BY <1>1, <3>2, SpentStays DEF NeverGivesUpEarly
    <2>2. CASE settled' = settled
      BY <1>2, <2>2
    <2> QED
      BY <1>3, <2>1, <2>2 DEF AfterSave, AnswerRequest, ResumeLoop
  <1>4. ASSUME NEW w \in Writers, Rename(w) \/ FsError(w) PROVE NeverGivesUpEarly'
    BY <1>3, <1>4 DEF Rename, FsError
  <1>5. ASSUME NEW w \in Writers, Stringify(w) \/ OpenTmp(w) \/ WriteTmp(w)
        PROVE  settled' = settled
    BY <1>5 DEF Stringify, OpenTmp, WriteTmp, ghosts
  <1>6. ASSUME NEW i \in Ids, Enqueue(i) PROVE settled' = settled
    BY <1>6 DEF Enqueue
  <1>7. ASSUME NEW l \in Loops, Drain(l) \/ SendFails(l) PROVE settled' = settled
    BY <1>7 DEF Drain, Wake, WhatsAppAccepts, SendResolves, SendFails, BackoffOver, ghosts
  <1>8. Stop \/ Halt \/ Load => settled' = settled
    BY DEF Stop, Halt, Load, ghosts
  <1> QED
    BY <1>2, <1>4, <1>5, <1>6, <1>7, <1>8 DEF Next, Persist, Crash, Exit

-----------------------------------------------------------------------------
(* How many copies of a message go out *)

\* The copies of a message can be counted.
LEMMA CopiesAreNat ==
    ASSUME delivered \in Seq(Ids), NEW i \in Ids
    PROVE  CopiesOf(i) \in Nat
  <1>1. PICK k \in Nat : DOMAIN delivered = 1 .. k
    BY LenProperties
  <1>2. IsFiniteSet(1 .. k) /\ {n \in DOMAIN delivered : delivered[n] = i} \subseteq 1 .. k
    BY <1>1, FS_Interval
  <1> QED
    BY <1>2, FS_Subset, FS_CardinalityType DEF CopiesOf

\* A copy more is counted for the message that was sent, and for no other.
LEMMA CopiesAppend ==
    ASSUME delivered \in Seq(Ids), NEW x \in Ids, delivered' = Append(delivered, x)
    PROVE  /\ \A i \in Ids : CopiesOf(i) \in Nat
           /\ CopiesOf(x)' = CopiesOf(x) + 1
           /\ \A i \in Ids \ {x} : CopiesOf(i)' = CopiesOf(i)
  <1>1. PICK k \in Nat : k = Len(delivered) /\ DOMAIN delivered = 1 .. k
    BY LenProperties
  <1>2. /\ DOMAIN delivered' = 1 .. k + 1 /\ delivered'[k + 1] = x
        /\ \A n \in 1 .. k : delivered'[n] = delivered[n]
    BY <1>1
  <1>3. 1 .. k + 1 = (1 .. k) \cup {k + 1} /\ k + 1 \notin 1 .. k
    OBVIOUS
  <1> DEFINE at(i) == {n \in DOMAIN delivered : delivered[n] = i}
             later(i) == {n \in DOMAIN delivered' : delivered'[n] = i}
  <1>4. \A i \in Ids : IsFiniteSet(at(i)) /\ Cardinality(at(i)) \in Nat
    <2>1. IsFiniteSet(1 .. k)
      BY FS_Interval
    <2>2. \A i \in Ids : at(i) \subseteq 1 .. k
      BY <1>1
    <2> HIDE DEF at
    <2> QED
      BY <2>1, <2>2, FS_Subset, FS_CardinalityType
  <1>5. later(x) = at(x) \cup {k + 1} /\ k + 1 \notin at(x)
    BY <1>1, <1>2, <1>3
  <1>6. \A i \in Ids \ {x} : later(i) = at(i)
    BY <1>1, <1>2, <1>3
  <1>7. /\ \A i \in Ids : CopiesOf(i) = Cardinality(at(i))
        /\ \A i \in Ids : CopiesOf(i)' = Cardinality(later(i))
    BY DEF CopiesOf
  <1> HIDE DEF at, later
  <1>8. Cardinality(later(x)) = Cardinality(at(x)) + 1
    BY <1>4, <1>5, FS_AddElement
  <1> QED
    BY <1>4, <1>6, <1>7, <1>8

\* Without a send the counts stay.
LEMMA CopiesSame ==
    ASSUME delivered' = delivered
    PROVE  \A i \in Ids : CopiesOf(i)' = CopiesOf(i)
  BY DEF CopiesOf

\* A message that was not asked for has no copies.
LEMMA NoCopies ==
    ASSUME delivered \in Seq(Ids), NEW i \in Ids, i \notin ToSet(delivered)
    PROVE  CopiesOf(i) = 0
  <1>1. {n \in DOMAIN delivered : delivered[n] = i} = {}
    BY DEF ToSet
  <1> QED
    BY <1>1, FS_EmptySet DEF CopiesOf

\* The number of mishaps of a message.
LEMMA MishapsAreNat ==
    ASSUME TypeOK, NEW i \in Ids
    PROVE  Mishaps(i) \in Nat
  BY DEF TypeOK, Mishaps

\* A message that is due after a step without a send was due before it, or has one
\* mishap more.
LEMMA CopiesPaidBy ==
    ASSUME TypeOK, TypeOK', CopiesPaid, delivered' = delivered,
           \A i \in Ids : \/ Mishaps(i)' = Mishaps(i) /\ (Due(i)' => Due(i))
                         \/ Mishaps(i)' = Mishaps(i) + 1
    PROVE  CopiesPaid'
  <1> SUFFICES ASSUME NEW i \in Ids
               PROVE  CopiesOf(i)' <= Mishaps(i)' + (IF Due(i)' THEN 0 ELSE 1)
    BY DEF CopiesPaid
  <1>1. CopiesOf(i)' = CopiesOf(i) /\ CopiesOf(i) \in Nat
    BY CopiesSame, CopiesAreNat DEF TypeOK
  <1>2. Mishaps(i) \in Nat
    BY MishapsAreNat
  <1>3. CopiesOf(i) <= Mishaps(i) + (IF Due(i) THEN 0 ELSE 1)
    BY DEF CopiesPaid
  <1>4. CASE Mishaps(i)' = Mishaps(i) /\ (Due(i)' => Due(i))
    <2>1. CASE Due(i)'
      BY <1>1, <1>2, <1>3, <1>4, <2>1
    <2>2. CASE ~Due(i)'
      BY <1>1, <1>2, <1>3, <1>4, <2>2
    <2> QED
      BY <2>1, <2>2
  <1>5. CASE Mishaps(i)' = Mishaps(i) + 1
    <2>1. CopiesOf(i) <= Mishaps(i) + 1
      BY <1>1, <1>2, <1>3
    <2> QED
      BY <1>1, <1>2, <1>5, <2>1
  <1> QED
    BY <1>4, <1>5

\* Without a crash or a rejection the mishaps stay.
LEMMA MishapsStay ==
    ASSUME crashes' = crashes, late' = late
    PROVE  \A i \in Ids : Mishaps(i)' = Mishaps(i)
  BY DEF Mishaps

\* Each life of the process sends a message at most once, but for the sends that reject
\* after WhatsApp took it.
LEMMA CopiesPaidNext ==
    ASSUME IInv, IInv', CopiesAreGood, HeldIsSettling, CopiesPaid, Next
    PROVE  CopiesPaid'
  <1>1. TypeOK /\ TypeOK' /\ HeadStable
    BY DEF IInv
  <1>2. ASSUME NEW i \in Ids, Enqueue(i) PROVE CopiesPaid'
    <2>1. /\ up /\ up' = up /\ loop' = loop /\ delivered' = delivered /\ crashes' = crashes
          /\ late' = late /\ i \notin ToSet(order)
          /\ queue' = Append(queue, [id |-> i, attempts |-> 0])
      BY <1>2 DEF Enqueue, Push, bounds
    <2>2. Names(queue') = Names(queue) \cup {i}
      <3>1. /\ queue \in Seq(Item) /\ order \in Seq(Ids) /\ fails \in [Ids -> Nat]
            /\ Good(queue, order, fails) /\ Once(order)
        BY <1>1 DEF TypeOK, CopiesAreGood
      <3> QED
        BY <2>1, <3>1, GoodPush
    <2>3. \A j \in Ids \ {i} : Due(j)' => Due(j)
      BY <2>1, <2>2 DEF Due
    <2>4. CopiesOf(i) = 0 /\ CopiesOf(i)' = 0
      <3>1. i \notin ToSet(delivered) /\ delivered \in Seq(Ids)
        BY <1>1, <2>1 DEF HeldIsSettling, TypeOK
      <3> QED
        BY <2>1, <3>1, NoCopies, CopiesSame
    <2>5. \A j \in Ids : CopiesOf(j)' = CopiesOf(j)
      BY <2>1, CopiesSame
    <2> SUFFICES ASSUME NEW j \in Ids
                 PROVE  CopiesOf(j)' <= Mishaps(j)' + (IF Due(j)' THEN 0 ELSE 1)
      BY DEF CopiesPaid
    <2>6. Mishaps(j)' = Mishaps(j) /\ Mishaps(j) \in Nat
      BY <1>1, <2>1, MishapsStay, MishapsAreNat
    <2>7. CASE j = i
      <3>1. CASE Due(j)'
        BY <2>4, <2>6, <2>7, <3>1
      <3>2. CASE ~Due(j)'
        BY <2>4, <2>6, <2>7, <3>2
      <3> QED
        BY <3>1, <3>2
    <2>8. CASE j # i
      <3>1. CopiesOf(j)' <= Mishaps(j) + (IF Due(j) THEN 0 ELSE 1)
        BY <2>5 DEF CopiesPaid
      <3>2. CopiesOf(j) \in Nat /\ (Due(j)' => Due(j))
        BY <1>1, <2>3, <2>8, CopiesAreNat DEF TypeOK
      <3>3. CASE Due(j)'
        BY <2>6, <3>1, <3>2, <3>3
      <3>4. CASE ~Due(j)'
        BY <2>5, <2>6, <3>1, <3>2, <3>4
      <3> QED
        BY <3>3, <3>4
    <2> QED
      BY <2>7, <2>8
  <1>3. ASSUME NEW l \in Loops, WhatsAppAccepts(l) PROVE CopiesPaid'
    <2>0. PICK x \in Ids : x = loop[l].id
      BY <1>3, HeldIsHead DEF WhatsAppAccepts, HeadPcs
    <2>1. /\ delivered' = Append(delivered, x) /\ crashes' = crashes /\ queue' = queue
          /\ late' = late
          /\ up' = up /\ loop' = [loop EXCEPT ![l].pc = "delivered"]
          /\ loop[l].pc = "sending"
      BY <1>3, <2>0 DEF WhatsAppAccepts, Goto, bounds
    <2>2. /\ x \in Ids /\ x \in Names(queue) /\ up
          /\ \A k \in Loops \ {l} : loop[k].pc = "idle"
      BY <1>3, <2>0, HeldIsHead DEF WhatsAppAccepts, HeadPcs
    <2>3. /\ loop'[l].pc = "delivered" /\ loop'[l].id = x
          /\ \A k \in Loops \ {l} : loop'[k] = loop[k]
      BY <1>1, <2>0, <2>1, GotoLeavesOthers
    <2>4. /\ \A i \in Ids : CopiesOf(i) \in Nat
          /\ CopiesOf(x)' = CopiesOf(x) + 1
          /\ \A i \in Ids \ {x} : CopiesOf(i)' = CopiesOf(i)
      BY <1>1, <2>1, <2>2, CopiesAppend DEF TypeOK
    <2>5. Due(x) /\ ~Due(x)'
      BY <2>0, <2>1, <2>2, <2>3 DEF Due
    <2>6. \A i \in Ids \ {x} : Due(i)' => Due(i)
      BY <2>1, <2>2, <2>3 DEF Due
    <2> SUFFICES ASSUME NEW j \in Ids
                 PROVE  CopiesOf(j)' <= Mishaps(j)' + (IF Due(j)' THEN 0 ELSE 1)
      BY DEF CopiesPaid
    <2>7. Mishaps(j)' = Mishaps(j) /\ Mishaps(j) \in Nat
      BY <1>1, <2>1, MishapsStay, MishapsAreNat
    <2>8. CopiesOf(j) <= Mishaps(j) + (IF Due(j) THEN 0 ELSE 1) /\ CopiesOf(j) \in Nat
      BY <2>4 DEF CopiesPaid
    <2>9. CASE j = x
      BY <2>4, <2>5, <2>7, <2>8, <2>9
    <2>10. CASE j # x
      <3>1. CopiesOf(j)' = CopiesOf(j) /\ (Due(j)' => Due(j))
        BY <2>4, <2>6, <2>10
      <3>2. CASE Due(j)'
        BY <2>7, <2>8, <3>1, <3>2
      <3>3. CASE ~Due(j)'
        BY <2>7, <2>8, <3>1, <3>3
      <3> QED
        BY <3>2, <3>3
    <2> QED
      BY <2>9, <2>10
  <1>4. ASSUME NEW l \in Loops, SendResolves(l) PROVE CopiesPaid'
    <2>1. /\ delivered' = delivered /\ crashes' = crashes /\ late' = late
          /\ up' = up /\ Shift /\ loop[l].pc \in HeadPcs
      BY <1>4 DEF SendResolves, ghosts, bounds, HeadPcs
    <2>2. Names(queue') = Names(queue) \ {loop[l].id}
      BY <2>1, ShiftNames
    <2>3. \A k \in Loops \ {l} : loop[k].pc = "idle"
      BY <2>1, HeldIsHead
    <2>4. \A i \in Ids : Due(i)' => Due(i)
      BY <2>1, <2>2, <2>3 DEF Due
    <2> QED
      BY <1>1, <2>1, <2>4, CopiesPaidBy, MishapsStay
  <1>5. ASSUME NEW l \in Loops, SendFails(l) PROVE CopiesPaid'
    <2>1. /\ delivered' = delivered /\ crashes' = crashes /\ up' = up
          /\ loop[l].pc \in {"sending", "delivered"} /\ loop[l].pc \in HeadPcs
          /\ late' = IF loop[l].pc = "delivered"
                     THEN [late EXCEPT ![loop[l].id] = @ + 1] ELSE late
      BY <1>5 DEF SendFails, bounds, HeadPcs
    <2>2. Names(queue') \subseteq Names(queue)
      BY <1>5, FailNames
    <2>3. /\ \A k \in Loops \ {l} : loop[k].pc = "idle"
          /\ loop[l].id \in Ids
      BY <2>1, HeldIsHead
    <2> SUFFICES ASSUME NEW i \in Ids
                 PROVE  \/ Mishaps(i)' = Mishaps(i) /\ (Due(i)' => Due(i))
                        \/ Mishaps(i)' = Mishaps(i) + 1
      BY <1>1, <2>1, CopiesPaidBy
    <2>4. /\ late \in [Ids -> Nat] /\ crashes \in Nat
      BY <1>1 DEF TypeOK
    <2>5. CASE loop[l].pc = "delivered" /\ i = loop[l].id
      <3>1. late'[i] = late[i] + 1
        BY <2>1, <2>3, <2>4, <2>5
      <3> QED
        BY <2>1, <2>4, <3>1 DEF Mishaps
    <2>6. CASE ~(loop[l].pc = "delivered" /\ i = loop[l].id)
      <3>1. late'[i] = late[i]
        BY <2>1, <2>3, <2>4, <2>6
      <3>2. Due(i)' => Due(i)
        BY <2>1, <2>2, <2>3, <2>6 DEF Due
      <3> QED
        BY <2>1, <3>1, <3>2 DEF Mishaps
    <2> QED
      BY <2>5, <2>6
  <1>6. ASSUME QuietStep PROVE CopiesPaid'
    <2>1. /\ delivered' = delivered /\ crashes' = crashes /\ late' = late
          /\ up' = up /\ queue' = queue
      BY <1>6 DEF QuietStep
    <2>2. \A l \in Loops : loop[l].pc = "delivered" => loop'[l] = loop[l]
      BY <1>6 DEF QuietStep, LoopsQuiet
    <2>3. \A i \in Ids : Due(i)' => Due(i)
      BY <2>1, <2>2 DEF Due
    <2> QED
      BY <1>1, <2>1, <2>3, CopiesPaidBy, MishapsStay
  <1>7. ASSUME Halt PROVE CopiesPaid'
    <2>1. delivered' = delivered /\ crashes' = crashes + 1 /\ late' = late
      BY <1>7 DEF Halt, ghosts
    <2>2. \A i \in Ids : Mishaps(i)' = Mishaps(i) + 1
      BY <1>1, <2>1 DEF Mishaps, TypeOK
    <2> QED
      BY <1>1, <2>1, <2>2, CopiesPaidBy
  <1>8. ASSUME Load PROVE CopiesPaid'
    <2>1. /\ delivered' = delivered /\ crashes' = crashes /\ late' = late /\ ~up
      BY <1>8 DEF Load, ghosts, bounds
    <2>2. \A i \in Ids : Due(i)' => Due(i)
      BY <2>1 DEF Due
    <2> QED
      BY <1>1, <2>1, <2>2, CopiesPaidBy, MishapsStay
  <1> QED
    BY <1>2, <1>3, <1>4, <1>5, <1>6, <1>7, <1>8, NextSteps

-----------------------------------------------------------------------------
(* What a crash dropped does not come back *)

\* The files and the saves in flight do not name i.
Nowhere(i) ==
    /\ i \notin Names(main.items)
    /\ \A w \in Writers :
        /\ save[w].phase \in {"stringified", "opened", "written"} => i \notin Names(save[w].items)
        /\ save[w].phase \in {"opened", "written"} => i \notin Names(tmp.items)

\* LostStaysLost, by its name for one message.
LEMMA LostMeansNowhere ==
    LostStaysLost <=> \A i \in Ids : Lost(i) => Nowhere(i)
  BY DEF LostStaysLost, Nowhere

\* A save that starts writes nothing.
LEMMA NowhereStart ==
    ASSUME TypeOK, NEW i \in Ids, Nowhere(i), NEW w \in Writers, StartSave(w), UNCHANGED files
    PROVE  Nowhere(i)'
  <1>1. save'[w].phase = "mkdir" /\ \A v \in Writers \ {w} : save'[v] = save[v]
    BY DEF TypeOK, StartSave, NewSave
  <1> QED
    BY <1>1 DEF Nowhere, files

\* A save of a queue that does not name i brings i back to no file.
LEMMA NowhereSave ==
    ASSUME TypeOK, NEW i \in Ids, Nowhere(i), i \notin Names(queue), NEW w \in Writers,
           Persist(w) \/ FsError(w)
    PROVE  Nowhere(i)'
  <1>f. /\ EmptyFile.items = <<>> /\ MixedFile.items = <<>> /\ NoFile.items = <<>>
        /\ \A q : Json(q).items = q
        /\ i \notin Names(<<>>)
    BY EmptyIsGood DEF EmptyFile, MixedFile, NoFile, Json
  <1>n. NoSave.phase = "none"
    BY DEF NoSave
  <1>1. CASE Stringify(w)
    <2>1. /\ save' = [save EXCEPT ![w].phase = "stringified", ![w].items = queue]
          /\ tmp' = tmp /\ main' = main
      BY <1>1 DEF Stringify, files
    <2>2. /\ save'[w].phase = "stringified" /\ save'[w].items = queue
          /\ \A v \in Writers \ {w} : save'[v] = save[v]
      BY <2>1 DEF TypeOK, Save
    <2> QED
      BY <2>1, <2>2 DEF Nowhere
  <1>2. CASE OpenTmp(w)
    <2>1. /\ save' = [save EXCEPT ![w].phase = "opened", ![w].fd = "tmp"]
          /\ tmp' = EmptyFile /\ main' = main /\ save[w].phase = "stringified"
      BY <1>2 DEF OpenTmp
    <2>2. /\ save'[w].items = save[w].items
          /\ \A v \in Writers \ {w} : save'[v] = save[v]
      BY <2>1 DEF TypeOK, Save
    <2> QED
      BY <1>f, <2>1, <2>2 DEF Nowhere
  <1>3. CASE WriteTmp(w)
    <2>1. save' = [save EXCEPT ![w].phase = "written"] /\ save[w].phase = "opened"
      BY <1>3 DEF WriteTmp
    <2>2. /\ save'[w].items = save[w].items
          /\ \A v \in Writers \ {w} : save'[v] = save[v]
      BY <2>1 DEF TypeOK, Save
    <2>3. i \notin Names(save[w].items) /\ i \notin Names(tmp.items)
      BY <2>1 DEF Nowhere
    <2> DEFINE written == {Json(save[w].items), MixedFile}
    <2>4. tmp' \in {tmp} \cup written /\ main' \in {main} \cup written
      BY <1>3 DEF WriteTmp, Over, files
    <2>5. \A file \in written : i \notin Names(file.items)
      BY <1>f, <2>3
    <2>6. i \notin Names(tmp'.items) /\ i \notin Names(main'.items)
      BY <2>3, <2>4, <2>5 DEF Nowhere
    <2> QED
      BY <2>2, <2>3, <2>6 DEF Nowhere
  <1>4. CASE Rename(w)
    <2>1. CASE save' = [save EXCEPT ![w] = NoSave] /\ UNCHANGED files
      <3>1. save'[w].phase = "none" /\ \A v \in Writers \ {w} : save'[v] = save[v]
        BY <1>n, <2>1 DEF TypeOK
      <3> QED
        BY <2>1, <3>1 DEF Nowhere, files
    <2>2. CASE /\ save' = [v \in Writers |->
                             IF v = w THEN NoSave ELSE [save[v] EXCEPT !.fd = Renamed(@)]]
               /\ main' = tmp /\ tmp' = NoFile
      <3>1. /\ save'[w].phase = "none"
            /\ \A v \in Writers \ {w} : /\ save'[v].phase = save[v].phase
                                        /\ save'[v].items = save[v].items
        BY <1>n, <2>2 DEF TypeOK, Save
      <3>2. i \notin Names(tmp.items)
        BY <1>4 DEF Rename, Nowhere
      <3> QED
        BY <1>f, <2>2, <3>1, <3>2 DEF Nowhere
    <2> QED
      BY <1>4, <2>1, <2>2 DEF Rename
  <1>5. CASE FsError(w)
    <2>1. save' = [save EXCEPT ![w] = NoSave] /\ UNCHANGED files
      BY <1>5 DEF FsError
    <2>2. save'[w].phase = "none" /\ \A v \in Writers \ {w} : save'[v] = save[v]
      BY <1>n, <2>1 DEF TypeOK
    <2> QED
      BY <2>1, <2>2 DEF Nowhere, files
  <1> QED
    BY <1>1, <1>2, <1>3, <1>4, <1>5 DEF Persist

\* Where no save moves, what is nowhere stays nowhere.
LEMMA NowhereStays ==
    ASSUME NEW i \in Ids, Nowhere(i), UNCHANGED <<save, tmp, main>>
    PROVE  Nowhere(i)'
  BY DEF Nowhere

\* No step brings a lost message back to a file or a snapshot.
LEMMA LostStaysLostNext ==
    ASSUME IInv, CopiesAreGood, HeldIsSettling, LostStaysLost, Next
    PROVE  LostStaysLost'
  <1>1. TypeOK /\ TypeOK' /\ HeadStable /\ HistoryGrows
    BY TypeNext, HistoryNext DEF IInv
  <1> SUFFICES ASSUME NEW i \in Ids, Lost(i)' PROVE Nowhere(i)'
    BY DEF LostStaysLost, Nowhere
  <1>2. up' /\ i \in ToSet(order') /\ i \notin Names(queue') /\ ~Finished(i)
    BY <1>1, FinishedStays DEF Lost
  <1>3. ASSUME Lost(i) PROVE Nowhere(i)
    BY <1>3, LostMeansNowhere
  <1>4. ASSUME NEW j \in Ids, Enqueue(j) PROVE Nowhere(i)'
    <2>1. /\ up /\ order' = Append(order, j) /\ j \notin ToSet(order)
          /\ queue' = Append(queue, [id |-> j, attempts |-> 0])
          /\ StartSave(j) /\ UNCHANGED files /\ j \in Writers
      BY <1>4 DEF Enqueue, Push, Writers
    <2>2. Names(queue') = Names(queue) \cup {j} /\ ToSet(order') = ToSet(order) \cup {j}
      <3>1. /\ queue \in Seq(Item) /\ order \in Seq(Ids) /\ fails \in [Ids -> Nat]
            /\ Good(queue, order, fails) /\ Once(order)
        BY <1>1 DEF TypeOK, CopiesAreGood
      <3> QED
        BY <2>1, <3>1, GoodPush, NewIsLast
    <2>3. Lost(i)
      BY <1>2, <2>1, <2>2 DEF Lost
    <2> QED
      BY <1>1, <1>3, <2>1, <2>3, NowhereStart
  <1>5. ASSUME NEW l \in Loops, WhatsAppAccepts(l) PROVE Nowhere(i)'
    <2>1. UNCHANGED <<up, queue, order, save, tmp, main>>
      BY <1>5 DEF WhatsAppAccepts, files
    <2> QED
      BY <1>2, <1>3, <2>1, NowhereStays DEF Lost
  <1>6. ASSUME NEW l \in Loops, SendResolves(l) PROVE Nowhere(i)'
    <2>1. /\ loop[l].pc \in HeadPcs /\ loop[l].id \in ToSet(delivered) /\ Shift
          /\ up' = up /\ order' = order /\ StartSave(l) /\ UNCHANGED files /\ l \in Writers
      BY <1>6 DEF SendResolves, HeadPcs, HeldIsSettling, ghosts, Writers
    <2>2. Names(queue') = Names(queue) \ {loop[l].id}
      BY <2>1, ShiftNames
    <2>3. i # loop[l].id
      BY <1>2, <2>1 DEF Finished
    <2>4. Lost(i)
      BY <1>2, <2>1, <2>2, <2>3 DEF Lost
    <2> QED
      BY <1>1, <1>3, <2>1, <2>4, NowhereStart
  <1>7. ASSUME NEW l \in Loops, SendFails(l) PROVE Nowhere(i)'
    <2>1. up' = up /\ order' = order /\ StartSave(l) /\ UNCHANGED files /\ l \in Writers
      BY <1>7 DEF SendFails, Writers
    <2>2. \/ Names(queue') = Names(queue)
          \/ /\ Names(queue') = Names(queue) \ {loop[l].id}
             /\ fails'[loop[l].id] >= MaxAttempts
      BY <1>7, FailNames
    <2>3. fails'[i] >= MaxAttempts => FALSE
      BY DEF Lost, Finished
    <2>4. Lost(i)
      BY <1>2, <2>1, <2>2, <2>3 DEF Lost
    <2> QED
      BY <1>1, <1>3, <2>1, <2>4, NowhereStart
  <1>8. ASSUME UNCHANGED <<up, order, queue>>, up PROVE Lost(i)
    BY <1>2, <1>8 DEF Lost
  <1>9. ASSUME NEW w \in Writers, Persist(w) \/ FsError(w) PROVE Nowhere(i)'
    <2>1. QuietStep
      <3>1. CASE Rename(w) \/ FsError(w)
        BY <3>1, AfterSaveQuiet DEF Rename, FsError
      <3>2. CASE Stringify(w) \/ OpenTmp(w) \/ WriteTmp(w)
        <4>1. UNCHANGED <<up, queue, loop, order, delivered, fails, late, crashes>>
          BY <3>2 DEF Stringify, OpenTmp, WriteTmp, memory, ghosts, bounds
        <4>2. up
          BY <3>2 DEF Stringify, OpenTmp, WriteTmp, IInv, NothingWhenDown
        <4> QED
          BY <4>1, <4>2 DEF QuietStep, LoopsQuiet
      <3> QED
        BY <1>9, <3>1, <3>2 DEF Persist
    <2>2. Lost(i) /\ i \notin Names(queue)
      BY <1>8, <2>1 DEF QuietStep, Lost
    <2> QED
      BY <1>1, <1>3, <1>9, <2>2, NowhereSave
  <1>10. ASSUME NEW l \in Loops, Wake(l) \/ BackoffOver(l) PROVE Nowhere(i)'
    <2>1. UNCHANGED <<up, order, queue, save, tmp, main>>
      BY <1>10 DEF Wake, BackoffOver, files, ghosts
    <2> QED
      BY <1>2, <1>3, <1>8, <2>1, NowhereStays
  <1>11. ASSUME Stop PROVE Nowhere(i)'
    <2>1. UNCHANGED <<up, order, queue, save, tmp, main>>
      BY <1>11 DEF Stop, files, ghosts
    <2> QED
      BY <1>2, <1>3, <1>8, <2>1, NowhereStays
  <1>12. ASSUME Halt PROVE FALSE
    BY <1>2, <1>12 DEF Halt
  <1>13. ASSUME Load PROVE Nowhere(i)'
    <2>1. /\ ~up /\ UNCHANGED <<save, tmp, main>>
          /\ queue' = IF main.kind = "json" THEN main.items ELSE <<>>
      BY <1>13 DEF Load, files
    <2>2. i \notin Names(main.items)
      <3>1. main.kind # "json" => main.items = <<>>
        BY DEF CopiesAreGood
      <3> QED
        BY <1>2, <2>1, <3>1
    <2>3. \A w \in Writers : save[w].phase = "none"
      BY <2>1 DEF IInv, NothingWhenDown
    <2> QED
      BY <2>1, <2>2, <2>3 DEF Nowhere
  <1> QED
    BY <1>4, <1>5, <1>6, <1>7, <1>9, <1>10, <1>11, <1>12, <1>13
    DEF Next, Drain, Crash, Exit

-----------------------------------------------------------------------------
(* The order of first deliveries *)

\* A message the queue names is not before the one at its head.
LEMMA NothingBeforeTheHead ==
    ASSUME IInv, CopiesAreGood, NEW l \in Loops, loop[l].pc \in HeadPcs, NEW i,
           Prior(order, i, loop[l].id)
    PROVE  i \notin Names(queue)
  <1>1. /\ order \in Seq(Ids) /\ Once(order) /\ Good(queue, order, fails)
        /\ queue \in Seq(Item) /\ queue # <<>> /\ loop[l].id = Head(queue).id
    BY HeldIsHead DEF IInv, TypeOK, CopiesAreGood
  <1>2. PICK k \in Nat : DOMAIN queue = 1 .. k /\ 1 \in 1 .. k /\ Head(queue) = queue[1]
    BY <1>1
  <1> SUFFICES ASSUME NEW n \in 1 .. k, queue[n].id = i PROVE FALSE
    BY <1>2 DEF Names
  <1>3. CASE n = 1
    BY <1>1, <1>2, <1>3, PriorIsStrict
  <1>4. CASE n # 1
    <2>1. 1 < n
      BY <1>4
    <2>2. Prior(order, queue[1].id, queue[n].id)
      BY <1>1, <1>2, <2>1 DEF Good, Sorted
    <2> QED
      BY <1>1, <1>2, <2>2, PriorIsStrict
  <1> QED
    BY <1>3, <1>4

\* What the queue names and does not yet name after a step, when nothing is pushed.
LEMMA LateStaysOutNext ==
    ASSUME IInv, CopiesAreGood, HeldIsSettling, LostStaysLost, LateStaysOut, Next
    PROVE  LateStaysOut'
  <1>1. TypeOK /\ TypeOK' /\ HeadStable /\ HistoryGrows
    BY TypeNext, HistoryNext DEF IInv
  <1> SUFFICES ASSUME NEW i \in Ids, NEW j \in Ids, Prior(order', i, j),
                      j \in ToSet(delivered'), ~Finished(i)'
               PROVE  i \notin Names(queue') /\ (~up' => i \notin Names(main'.items))
    BY DEF LateStaysOut
  <1>2. ~Finished(i)
    BY <1>1, FinishedStays
  <1>3. ASSUME Prior(order, i, j), j \in ToSet(delivered)
        PROVE  i \notin Names(queue) /\ (~up => i \notin Names(main.items))
    BY <1>2, <1>3 DEF LateStaysOut
  <1>4. ASSUME NEW k \in Ids, Enqueue(k)
        PROVE  i \notin Names(queue') /\ (~up' => i \notin Names(main'.items))
    <2>1. /\ up /\ up' = up /\ order' = Append(order, k) /\ k \notin ToSet(order)
          /\ queue' = Append(queue, [id |-> k, attempts |-> 0]) /\ delivered' = delivered
      BY <1>4 DEF Enqueue, Push
    <2>2. /\ queue \in Seq(Item) /\ order \in Seq(Ids) /\ fails \in [Ids -> Nat]
          /\ Good(queue, order, fails) /\ Once(order)
      BY <1>1 DEF TypeOK, CopiesAreGood
    <2>3. j \in ToSet(delivered) /\ j # k
      BY <2>1 DEF HeldIsSettling
    <2>4. Prior(order, i, j) /\ i \in ToSet(order)
      BY <2>1, <2>2, <2>3, NewIsLast
    <2>5. Names(queue') = Names(queue) \cup {k}
      BY <2>1, <2>2, GoodPush
    <2> QED
      BY <1>3, <2>1, <2>3, <2>4, <2>5
  <1>5. ASSUME NEW l \in Loops, WhatsAppAccepts(l)
        PROVE  i \notin Names(queue') /\ (~up' => i \notin Names(main'.items))
    <2>1. /\ UNCHANGED <<up, queue, order>> /\ delivered' = Append(delivered, loop[l].id)
          /\ loop[l].pc \in HeadPcs
      BY <1>5 DEF WhatsAppAccepts, HeadPcs
    <2>2. up /\ loop[l].id \in Ids
      BY <2>1, HeldIsHead
    <2>3. j \in ToSet(delivered) \/ j = loop[l].id
      BY <1>1, <2>1, <2>2, AppendToSet DEF TypeOK
    <2>4. Prior(order, i, j)
      BY <2>1
    <2>5. i \notin Names(queue)
      BY <1>3, <2>1, <2>3, <2>4, NothingBeforeTheHead
    <2> QED
      BY <2>1, <2>2, <2>5
  <1>6. ASSUME NEW l \in Loops, SendResolves(l)
        PROVE  i \notin Names(queue') /\ (~up' => i \notin Names(main'.items))
    <2>1. /\ UNCHANGED <<up, order, delivered>> /\ Shift /\ loop[l].pc \in HeadPcs
      BY <1>6 DEF SendResolves, ghosts, HeadPcs
    <2>2. up /\ Names(queue') \subseteq Names(queue)
      BY <2>1, HeldIsHead, ShiftNames
    <2> QED
      BY <1>3, <2>1, <2>2
  <1>7. ASSUME NEW l \in Loops, SendFails(l)
        PROVE  i \notin Names(queue') /\ (~up' => i \notin Names(main'.items))
    <2>1. /\ UNCHANGED <<up, order, delivered>> /\ loop[l].pc \in HeadPcs
      BY <1>7 DEF SendFails, HeadPcs
    <2>2. up /\ Names(queue') \subseteq Names(queue)
      BY <1>7, <2>1, HeldIsHead, FailNames
    <2> QED
      BY <1>3, <2>1, <2>2
  <1>8. ASSUME QuietStep
        PROVE  i \notin Names(queue') /\ (~up' => i \notin Names(main'.items))
    BY <1>3, <1>8 DEF QuietStep
  <1>9. ASSUME Halt
        PROVE  i \notin Names(queue') /\ (~up' => i \notin Names(main'.items))
    <2>1. up /\ queue' = <<>> /\ UNCHANGED <<order, delivered, main>>
      BY <1>9 DEF Halt, files, ghosts
    <2>2. i \notin Names(queue) /\ Prior(order, i, j)
      BY <1>3, <2>1
    <2>3. i \in ToSet(order)
      BY <2>2 DEF Prior, ToSet
    <2>4. Nowhere(i)
      BY <1>2, <2>1, <2>2, <2>3, LostMeansNowhere DEF Lost
    <2> QED
      BY <2>1, <2>4, EmptyIsGood DEF Nowhere
  <1>10. ASSUME Load
         PROVE  i \notin Names(queue') /\ (~up' => i \notin Names(main'.items))
    <2>1. /\ ~up /\ up' /\ UNCHANGED <<order, delivered>>
          /\ queue' = IF main.kind = "json" THEN main.items ELSE <<>>
      BY <1>10 DEF Load, ghosts
    <2> QED
      BY <1>3, <2>1, EmptyIsGood
  <1> QED
    BY <1>4, <1>5, <1>6, <1>7, <1>8, <1>9, <1>10, NextSteps

\* Every step keeps the first deliveries in the order of the requests.
LEMMA FirstDeliveriesNext ==
    ASSUME IInv, CopiesAreGood, HeldIsSettling, LateStaysOut, FirstDeliveriesInOrder, Next
    PROVE  FirstDeliveriesInOrder'
  <1>1. TypeOK /\ TypeOK' /\ HeadStable /\ HistoryGrows
    BY TypeNext, HistoryNext DEF IInv
  <1>2. order \in Seq(Ids) /\ delivered \in Seq(Ids) /\ order' \in Seq(Ids)
    BY <1>1 DEF TypeOK
  <1>3. ASSUME order' = order, delivered' = delivered PROVE FirstDeliveriesInOrder'
    <2>1. ASSUME NEW m \in DOMAIN order, fails'[order[m]] < MaxAttempts
          PROVE  fails[order[m]] < MaxAttempts
      <3>1. /\ order[m] \in Ids
            /\ fails[order[m]] \in Nat /\ fails'[order[m]] \in Nat /\ MaxAttempts \in Nat
        BY <1>1, <1>2, OutboxAssumption DEF TypeOK
      <3> QED
        BY <1>1, <2>1, <3>1 DEF HistoryGrows
    <2> QED
      BY <1>3, <2>1 DEF FirstDeliveriesInOrder
  <1>4. ASSUME NEW i \in Ids, Enqueue(i) PROVE FirstDeliveriesInOrder'
    <2>1. /\ order' = Append(order, i) /\ i \notin ToSet(order)
          /\ delivered' = delivered /\ fails' = fails
      BY <1>4 DEF Enqueue
    <2>2. PICK k \in Nat : DOMAIN order = 1 .. k /\ Len(order) = k
      BY <1>2
    <2>3. /\ DOMAIN order' = 1 .. k + 1 /\ order'[k + 1] = i
          /\ \A n \in 1 .. k : order'[n] = order[n]
      BY <1>2, <2>1, <2>2
    <2>4. i \notin ToSet(delivered)
      BY <2>1 DEF HeldIsSettling
    <2> SUFFICES ASSUME NEW m \in 1 .. k + 1, NEW n \in 1 .. k + 1, m < n,
                        fails[order'[m]] < MaxAttempts, order'[m] \in ToSet(delivered),
                        NEW p \in DOMAIN delivered, delivered[p] = order'[n]
                 PROVE  \E q \in 1 .. p - 1 : delivered[q] = order'[m]
      BY <2>1, <2>3 DEF FirstDeliveriesInOrder
    <2>5. order'[n] \in ToSet(delivered)
      BY DEF ToSet
    <2>6. m \in 1 .. k /\ n \in 1 .. k
      BY <2>3, <2>4, <2>5
    <2> QED
      BY <2>2, <2>3, <2>6 DEF FirstDeliveriesInOrder
  <1>5. ASSUME NEW l \in Loops, WhatsAppAccepts(l) PROVE FirstDeliveriesInOrder'
    <2>1. /\ order' = order /\ fails' = fails /\ loop[l].pc \in HeadPcs
          /\ delivered' = Append(delivered, loop[l].id)
      BY <1>5 DEF WhatsAppAccepts, HeadPcs
    <2>2. PICK x \in Ids : x = loop[l].id /\ x \in Names(queue)
      BY <2>1, HeldIsHead
    <2>3. PICK k \in Nat : DOMAIN delivered = 1 .. k /\ Len(delivered) = k
      BY <1>2
    <2>4. /\ DOMAIN delivered' = 1 .. k + 1 /\ delivered'[k + 1] = x
          /\ \A n \in 1 .. k : delivered'[n] = delivered[n]
      BY <1>2, <2>1, <2>2, <2>3
    <2>5. ToSet(delivered') = ToSet(delivered) \cup {x}
      BY <1>2, <2>1, <2>2, AppendToSet
    <2> SUFFICES ASSUME NEW m \in DOMAIN order, NEW n \in DOMAIN order, m < n,
                        fails[order[m]] < MaxAttempts, order[m] \in ToSet(delivered'),
                        NEW p \in 1 .. k + 1, delivered'[p] = order[n]
                 PROVE  \E q \in 1 .. p - 1 : delivered'[q] = order[m]
      BY <2>1, <2>4 DEF FirstDeliveriesInOrder
    <2>6. Prior(order, order[m], order[n]) /\ order[m] \in Ids /\ order[n] \in Ids
      BY <1>2 DEF Prior
    <2>7. CASE order[m] \in ToSet(delivered)
      <3>1. CASE p \in 1 .. k
        <4>1. \E q \in 1 .. p - 1 : delivered[q] = order[m]
          BY <2>3, <2>4, <2>7, <3>1 DEF FirstDeliveriesInOrder
        <4> QED
          BY <2>4, <3>1, <4>1
      <3>2. CASE p = k + 1
        <4>1. PICK q \in 1 .. k : delivered[q] = order[m]
          BY <2>3, <2>7 DEF ToSet
        <4> QED
          BY <2>4, <3>2, <4>1
      <3> QED
        BY <3>1, <3>2
    <2>8. CASE order[m] \notin ToSet(delivered)
      <3>1. order[m] = x
        BY <2>5, <2>8
      <3>2. ~Finished(order[m])
        <4>1. fails[order[m]] \in Nat /\ MaxAttempts \in Nat
          BY <1>1, <2>6, OutboxAssumption DEF TypeOK
        <4> QED
          BY <2>8, <4>1 DEF Finished
      <3>3. order[n] \notin ToSet(delivered)
        BY <2>2, <2>6, <3>1, <3>2 DEF LateStaysOut
      <3>4. p = k + 1
        BY <2>3, <2>4, <3>3 DEF ToSet
      <3>5. order[n] = order[m]
        BY <2>4, <3>1, <3>4
      <3> QED
        BY <1>2, <2>6, <3>5, PriorIsStrict DEF CopiesAreGood
    <2> QED
      BY <2>7, <2>8
  <1>6. ASSUME NEW l \in Loops, SendResolves(l) \/ SendFails(l)
        PROVE  order' = order /\ delivered' = delivered
    BY <1>6 DEF SendResolves, SendFails, ghosts
  <1>7. QuietStep \/ Halt \/ Load => order' = order /\ delivered' = delivered
    BY DEF QuietStep, Halt, Load, ghosts
  <1> QED
    BY <1>3, <1>4, <1>5, <1>6, <1>7, NextSteps

-----------------------------------------------------------------------------
(* The invariant of deliveries is inductive *)

\* The invariant of deliveries holds at the start.
LEMMA DeliveryInit == ASSUME Init PROVE DeliveryInv
  <1>1. /\ order = <<>> /\ delivered = <<>> /\ queue = <<>> /\ crashes = 0 /\ up
        /\ tmp = NoFile /\ main = NoFile /\ \A w \in Writers : save[w] = NoSave
        /\ \A l \in Loops : loop[l].pc = "idle"
        /\ \A i \in Ids : settled[i] = "none"
    BY DEF Init, Idle
  <1>2. DOMAIN order = {} /\ ToSet(order) = {} /\ ToSet(delivered) = {}
    BY <1>1 DEF ToSet
  <1>3. /\ tmp.items = <<>> /\ main.items = <<>>
        /\ \A w \in Writers : save[w].items = <<>>
    BY <1>1 DEF NoFile, NoSave
  <1>4. CopiesAreGood
    BY <1>1, <1>2, <1>3, EmptyIsGood DEF CopiesAreGood, Once
  <1>5. HeldIsSettling /\ NeverGivesUpEarly /\ LostStaysLost /\ LateStaysOut
    BY <1>1, <1>2 DEF HeldIsSettling, NeverGivesUpEarly, LostStaysLost, Lost, LateStaysOut
  <1>6. CopiesPaid
    <2>1. delivered \in Seq(Ids)
      BY <1>1
    <2>2. \A i \in Ids : CopiesOf(i) = 0
      BY <1>2, <2>1, NoCopies
    <2> SUFFICES ASSUME NEW i \in Ids
                 PROVE  CopiesOf(i) <= Mishaps(i) + (IF Due(i) THEN 0 ELSE 1)
      BY DEF CopiesPaid
    <2>3. (IF Due(i) THEN 0 ELSE 1) \in {0, 1} /\ Mishaps(i) \in Nat
      BY TypeInit, MishapsAreNat
    <2> QED
      BY <2>2, <2>3
  <1>7. FirstDeliveriesInOrder
    BY <1>2 DEF FirstDeliveriesInOrder
  <1> QED
    BY <1>4, <1>5, <1>6, <1>7 DEF DeliveryInv

\* Every step keeps the invariant of deliveries.
LEMMA DeliveryNext == ASSUME IInv, DeliveryInv, Next PROVE DeliveryInv'
  BY InvNext, CopiesAreGoodNext, HeldIsSettlingNext, NeverGivesUpEarlyNext, CopiesPaidNext,
     LostStaysLostNext, LateStaysOutNext, FirstDeliveriesNext DEF DeliveryInv

\* A step that changes nothing keeps the invariant of deliveries.
LEMMA DeliveryStutter == ASSUME DeliveryInv, UNCHANGED vars PROVE DeliveryInv'
  <1>1. /\ UNCHANGED <<up, queue, loop, save, tmp, main, order, delivered, fails, late, settled>>
        /\ UNCHANGED crashes
    BY DEF vars, memory, files, ghosts, bounds
  <1>2. CopiesAreGood' /\ HeldIsSettling' /\ NeverGivesUpEarly' /\ FirstDeliveriesInOrder'
    BY <1>1 DEF DeliveryInv, CopiesAreGood, HeldIsSettling, NeverGivesUpEarly,
                FirstDeliveriesInOrder
  <1>3. CopiesPaid' /\ LostStaysLost' /\ LateStaysOut'
    BY <1>1 DEF DeliveryInv, CopiesPaid, CopiesOf, Mishaps, Due, LostStaysLost, Lost, LateStaysOut,
                Finished
  <1> QED
    BY <1>2, <1>3 DEF DeliveryInv

\* A count of copies that is paid is at most one more than the mishaps.
LEMMA PaidIsEnough == ASSUME TypeOK, CopiesPaid PROVE DuplicatesAreExplained
  <1> SUFFICES ASSUME NEW i \in Ids PROVE CopiesOf(i) <= 1 + crashes + late[i]
    BY DEF DuplicatesAreExplained
  <1>1. CopiesOf(i) <= Mishaps(i) + (IF Due(i) THEN 0 ELSE 1)
    BY DEF CopiesPaid
  <1>2. CopiesOf(i) \in Nat /\ crashes \in Nat /\ late[i] \in Nat
    BY CopiesAreNat DEF TypeOK
  <1> QED
    BY <1>1, <1>2 DEF Mishaps

\* What the copies of the queue say holds in every reachable state.
LEMMA Deliveries == Spec => [](IInv /\ DeliveryInv)
  <1>1. Init => IInv /\ DeliveryInv
    BY InvInit, DeliveryInit
  <1>2. IInv /\ DeliveryInv /\ [Next]_vars => (IInv /\ DeliveryInv)'
    BY InvNext, InvStutter, DeliveryNext, DeliveryStutter
  <1> QED
    BY <1>1, <1>2, PTL DEF Spec

\* "failed" is reported only after maxAttempts rejected sends of that message, counted over
\* all the runs of the process, whatever the saves left on disk (outbox.js, #drain).
THEOREM NeverGivesUpEarlyHolds == Spec => []NeverGivesUpEarly
  BY Deliveries, PTL DEF DeliveryInv

\* A message goes out at most once, and once more for each exit of the process and each
\* send of it that rejected after WhatsApp had taken it.
THEOREM DuplicatesAreExplainedHolds == Spec => []DuplicatesAreExplained
  <1>1. IInv /\ DeliveryInv => DuplicatesAreExplained
    BY PaidIsEnough DEF IInv, DeliveryInv
  <1> QED
    BY <1>1, Deliveries, PTL

\* Messages first reach WhatsApp in the order they were pushed.
THEOREM FirstDeliveriesHolds == Spec => []FirstDeliveriesInOrder
  BY Deliveries, PTL DEF DeliveryInv

-----------------------------------------------------------------------------
(* Saves that do not overlap and do not fail: the promise of POST /send is kept *)

OneCleanSave == MaxSaves = 1 /\ MaxFsErrors = 0

InFlight(w) == save[w].phase # "none"
OnFile == Names(main.items)

\* A save that is alone writes the queue as it is, through its own temporary file.
SnapshotIsQueue ==
    /\ \A v, w \in Writers : InFlight(v) /\ InFlight(w) => v = w
    /\ \A w \in Writers :
        /\ save[w].phase \in {"stringified", "opened", "written"} => save[w].items = queue
        /\ save[w].phase \in {"opened", "written"} => save[w].fd = "tmp"
        /\ save[w].phase = "opened" => tmp = EmptyFile
        /\ save[w].phase = "written" => tmp = Json(save[w].items)

\* The queue is ahead of the file by the one change that is being saved.
AheadByOne ==
    /\ up /\ (\A w \in Writers : ~InFlight(w)) => Names(queue) = OnFile
    /\ \A i \in Ids : InFlight(i) =>
           /\ i \in ToSet(order) /\ i \notin accepted
           /\ Names(queue) = OnFile \cup {i}
    /\ \A l \in Loops : InFlight(l) =>
           \/ /\ loop[l].pc \in GonePcs /\ loop[l].id \in OnFile
              /\ Names(queue) = OnFile \ {loop[l].id}
           \/ loop[l].pc = "savingRetry" /\ Names(queue) = OnFile

\* The loop sends only what the file names, and waits for the save it started.
LoopFollowsFile ==
    \A l \in Loops :
        /\ loop[l].pc \in HeadPcs => loop[l].id \in OnFile
        /\ loop[l].pc \in GonePcs \cup {"savingRetry"} => InFlight(l)

FileInv ==
    SnapshotIsQueue /\ AheadByOne /\ LoopFollowsFile /\ accepted \subseteq ToSet(order)

\* The one slot is free when nothing is in flight.
LEMMA SlotMeansNone ==
    ASSUME OneCleanSave, SnapshotIsQueue, SaveSlot, NEW w \in Writers
    PROVE  ~InFlight(w)
  <1> SUFFICES ASSUME InFlight(w) PROVE FALSE
    OBVIOUS
  <1>1. {v \in Writers : save[v].phase # "none"} = {w}
    BY DEF SnapshotIsQueue, InFlight
  <1>2. Cardinality({w}) = 1
    BY FS_Singleton
  <1> QED
    BY <1>1, <1>2 DEF SaveSlot, OneCleanSave

\* A save that starts alone.
LEMMA StartAlone ==
    ASSUME TypeOK, OneCleanSave, FileInv, SaveSlot, NEW w \in Writers, StartSave(w)
    PROVE  /\ SnapshotIsQueue'
           /\ InFlight(w)' /\ \A v \in Writers \ {w} : ~InFlight(v)'
           /\ \A v \in Writers : ~InFlight(v)
           /\ \A l \in Loops : loop[l].pc \notin GonePcs \cup {"savingRetry"}
  <1>1. \A v \in Writers : ~InFlight(v)
    BY SlotMeansNone DEF FileInv
  <1>2. save'[w].phase = "mkdir" /\ \A v \in Writers \ {w} : save'[v] = save[v]
    BY DEF TypeOK, StartSave, NewSave
  <1> QED
    BY <1>1, <1>2 DEF FileInv, SnapshotIsQueue, InFlight, LoopFollowsFile, Writers

\* The loop takes the head of the queue, which the file names.
LEMMA NextIterationFollows ==
    ASSUME TypeOK, NEW l \in Loops, NextIteration(l), queue' \in Seq(Item),
           queue' # <<>> => Head(queue').id \in OnFile',
           \A k \in Loops \ {l} : loop[k].pc = "idle"
    PROVE  \A k \in Loops :
               /\ loop'[k].pc \in {"idle", "pause"}
               /\ loop'[k].pc \in HeadPcs => loop'[k].id \in OnFile'
  <1>1. /\ \A k \in Loops \ {l} : loop'[k] = loop[k]
        /\ \/ loop'[l] = [pc |-> "pause", id |-> Head(queue').id] /\ queue' # <<>>
           \/ loop'[l] = Idle
    BY DEF TypeOK, NextIteration
  <1>2. /\ loop'[l].pc \in {"idle", "pause"}
        /\ loop'[l].pc = "pause" => loop'[l].id = Head(queue').id /\ queue' # <<>>
    BY <1>1 DEF Idle
  <1> QED
    BY <1>1, <1>2 DEF HeadPcs

\* The head of a queue is a name of it.
LEMMA HeadIsNamed ==
    ASSUME NEW q \in Seq(Item), q # <<>>
    PROVE  Head(q).id \in Names(q)
  <1>1. Head(q) = q[1] /\ 1 \in DOMAIN q
    OBVIOUS
  <1> QED
    BY <1>1 DEF Names

\* A kick on a queue the file names.
LEMMA KickFollows ==
    ASSUME TypeOK, TypeOK', OneDrain, Kick, Names(queue') \subseteq OnFile',
           \A l \in Loops : loop[l].pc \in HeadPcs => loop[l].id \in OnFile',
           \A l \in Loops : loop[l].pc \notin GonePcs \cup {"savingRetry"}
    PROVE  \A l \in Loops :
               /\ loop'[l].pc \in HeadPcs => loop'[l].id \in OnFile'
               /\ loop'[l].pc \notin GonePcs \cup {"savingRetry"}
  <1>1. CASE loop' = loop
    BY <1>1
  <1>2. CASE ~draining /\ \E l \in Loops : loop[l].pc = "idle" /\ NextIteration(l)
    <2>1. PICK l \in Loops : NextIteration(l)
      BY <1>2
    <2>2. \A k \in Loops \ {l} : loop[k].pc = "idle"
      BY <1>2 DEF OneDrain, Busy
    <2>3. queue' \in Seq(Item)
      BY DEF TypeOK
    <2>4. queue' # <<>> => Head(queue').id \in OnFile'
      BY <2>3, HeadIsNamed
    <2>5. \A k \in Loops :
              /\ loop'[k].pc \in {"idle", "pause"}
              /\ loop'[k].pc \in HeadPcs => loop'[k].id \in OnFile'
      BY <2>1, <2>2, <2>3, <2>4, NextIterationFollows
    <2> QED
      BY <2>5 DEF GonePcs
  <1> QED
    BY <1>1, <1>2 DEF Kick

\* What the end of an undisturbed save leaves on disk: the queue.
LEMMA RenameWritesQueue ==
    ASSUME IInv, OneCleanSave, FileInv, NEW w \in Writers, Rename(w)
    PROVE  /\ main' = Json(queue) /\ OnFile' = Names(queue) /\ queue' = queue
           /\ \A v \in Writers : ~InFlight(v)'
           /\ \A v \in Writers \ {w} : ~InFlight(v)
           /\ up /\ up' /\ InFlight(w) /\ AfterSave(w)
  <1>1. save[w].phase = "written" /\ InFlight(w) /\ AfterSave(w)
    BY DEF Rename, InFlight
  <1>2. tmp = Json(queue)
    BY <1>1 DEF FileInv, SnapshotIsQueue
  <1>3. tmp # NoFile
    <2>1. Json(queue).kind = "json" /\ NoFile.kind = "none"
      BY DEF Json, NoFile
    <2> QED
      BY <1>2, <2>1
  <1>4. /\ save' = [v \in Writers |->
                      IF v = w THEN NoSave ELSE [save[v] EXCEPT !.fd = Renamed(@)]]
        /\ main' = tmp
    BY <1>3 DEF Rename
  <1>5. \A v \in Writers \ {w} : ~InFlight(v)
    BY <1>1 DEF FileInv, SnapshotIsQueue
  <1>6. \A v \in Writers : save'[v].phase = "none"
    BY <1>4, <1>5 DEF IInv, TypeOK, Save, NoSave, InFlight
  <1>7. queue' = queue /\ up' = up /\ up
    BY <1>1 DEF AfterSave, IInv, NothingWhenDown, InFlight
  <1>8. OnFile' = Names(queue)
    <2>1. main'.items = queue
      BY <1>2, <1>4 DEF Json
    <2> QED
      BY <2>1 DEF OnFile
  <1> QED
    BY <1>1, <1>2, <1>4, <1>5, <1>6, <1>7, <1>8 DEF InFlight

\* Steps that leave the saves, the files, the queue and the answers alone.
LEMMA FileInvLoops ==
    ASSUME FileInv, UNCHANGED <<up, queue, save, tmp, main, accepted, order>>,
           \A l \in Loops :
               \/ loop'[l] = loop[l]
               \/ /\ loop[l].pc \notin GonePcs \cup {"savingRetry"}
                  /\ loop'[l].pc \notin GonePcs \cup {"savingRetry"}
                  /\ loop'[l].pc \in HeadPcs => loop'[l].id \in OnFile
    PROVE  FileInv'
  <1>1. /\ \A w \in Writers : InFlight(w)' <=> InFlight(w)
        /\ OnFile' = OnFile
    BY DEF InFlight, OnFile
  <1>2. \A l \in Loops : InFlight(l) => loop'[l] = loop[l]
    BY DEF FileInv, AheadByOne
  <1> QED
    BY <1>1, <1>2 DEF FileInv, SnapshotIsQueue, AheadByOne, LoopFollowsFile, InFlight, Writers

\* With saves one at a time, every step keeps the file one change behind.
LEMMA FileInvNext ==
    ASSUME IInv, CopiesAreGood, OneCleanSave, FileInv, Next
    PROVE  FileInv'
  <1>1. TypeOK /\ TypeOK' /\ HeadStable /\ OneDrain /\ Ids \cap Loops = {}
    BY TypeNext, OutboxAssumption DEF IInv
  <1>2. ASSUME NEW i \in Ids, Enqueue(i) PROVE FileInv'
    <2>1. /\ up /\ UNCHANGED <<up, loop, main, accepted>> /\ SaveSlot /\ StartSave(i)
          /\ order' = Append(order, i) /\ i \notin ToSet(order) /\ i \in Writers
          /\ queue' = Append(queue, [id |-> i, attempts |-> 0])
      BY <1>2 DEF Enqueue, Push, files, Writers
    <2>2. /\ SnapshotIsQueue' /\ InFlight(i)' /\ \A v \in Writers \ {i} : ~InFlight(v)'
          /\ \A v \in Writers : ~InFlight(v)
          /\ \A l \in Loops : loop[l].pc \notin GonePcs \cup {"savingRetry"}
      BY <1>1, <2>1, StartAlone
    <2>3. Names(queue') = Names(queue) \cup {i} /\ ToSet(order') = ToSet(order) \cup {i}
      <3>1. /\ queue \in Seq(Item) /\ order \in Seq(Ids) /\ fails \in [Ids -> Nat]
            /\ Good(queue, order, fails) /\ Once(order)
        BY <1>1 DEF TypeOK, CopiesAreGood
      <3> QED
        BY <2>1, <3>1, GoodPush, NewIsLast
    <2>4. Names(queue) = OnFile /\ OnFile' = OnFile
      BY <2>1, <2>2 DEF FileInv, AheadByOne, OnFile
    <2>5. AheadByOne'
      <3>1. i \notin accepted /\ \A l \in Loops : l \in Writers /\ l # i
        BY <1>1, <2>1 DEF FileInv, Writers
      <3> QED
        BY <2>1, <2>2, <2>3, <2>4, <3>1 DEF AheadByOne, Writers
    <2>6. LoopFollowsFile'
      BY <2>1, <2>2, <2>4 DEF FileInv, LoopFollowsFile
    <2> QED
      BY <2>1, <2>2, <2>3, <2>5, <2>6 DEF FileInv
  <1>3. ASSUME NEW l \in Loops, SendResolves(l) \/ SendFails(l) PROVE FileInv'
    <2>1. /\ UNCHANGED <<up, main, accepted, order>> /\ SaveSlot /\ StartSave(l)
          /\ l \in Writers /\ l \notin Ids /\ loop[l].pc \in HeadPcs
      BY <1>1, <1>3 DEF SendResolves, SendFails, files, ghosts, Writers, HeadPcs
    <2>2. /\ SnapshotIsQueue' /\ InFlight(l)' /\ \A v \in Writers \ {l} : ~InFlight(v)'
          /\ \A v \in Writers : ~InFlight(v)
      BY <1>1, <2>1, StartAlone
    <2>3. up /\ \A k \in Loops \ {l} : loop[k].pc = "idle"
      BY <2>1, HeldIsHead
    <2>4. Names(queue) = OnFile /\ OnFile' = OnFile /\ loop[l].id \in OnFile
      BY <2>1, <2>2, <2>3 DEF FileInv, AheadByOne, LoopFollowsFile, OnFile
    <2>5. \/ /\ loop' = [loop EXCEPT ![l].pc = "savingSent"]
             /\ Names(queue') = Names(queue) \ {loop[l].id}
          \/ /\ loop' = [loop EXCEPT ![l].pc = "savingFailed"]
             /\ Names(queue') = Names(queue) \ {loop[l].id}
          \/ /\ loop' = [loop EXCEPT ![l].pc = "savingRetry"]
             /\ Names(queue') = Names(queue)
      <3>1. CASE SendResolves(l)
        BY <2>1, <3>1, ShiftNames DEF SendResolves, Goto
      <3>2. CASE SendFails(l)
        BY <3>2, FailNames
      <3> QED
        BY <1>3, <3>1, <3>2
    <2>6. /\ loop'[l].id = loop[l].id /\ \A k \in Loops \ {l} : loop'[k] = loop[k]
          /\ \/ /\ loop'[l].pc \in GonePcs
                /\ Names(queue') = Names(queue) \ {loop[l].id}
             \/ loop'[l].pc = "savingRetry" /\ Names(queue') = Names(queue)
      BY <1>1, <2>5, GotoLeavesOthers DEF GonePcs
    <2>7. AheadByOne'
      BY <1>1, <2>2, <2>4, <2>6 DEF AheadByOne, Writers
    <2>8. LoopFollowsFile'
      BY <2>2, <2>3, <2>4, <2>6 DEF LoopFollowsFile, HeadPcs, GonePcs
    <2> QED
      BY <2>1, <2>2, <2>7, <2>8 DEF FileInv
  <1>4. ASSUME NEW l \in Loops, Wake(l) \/ WhatsAppAccepts(l) PROVE FileInv'
    <2>1. /\ UNCHANGED <<up, queue, save, tmp, main, accepted, order>>
          /\ loop[l].pc \in HeadPcs /\ loop[l].pc \notin GonePcs \cup {"savingRetry"}
      BY <1>4 DEF Wake, WhatsAppAccepts, files, ghosts, HeadPcs, GonePcs
    <2>2. \/ loop' = [loop EXCEPT ![l] = Idle]
          \/ loop' = [loop EXCEPT ![l].pc = "sending"]
          \/ loop' = [loop EXCEPT ![l].pc = "delivered"]
      BY <1>4 DEF Wake, WhatsAppAccepts, Goto
    <2>3. /\ \A k \in Loops \ {l} : loop'[k] = loop[k]
          /\ \/ loop'[l].pc = "idle"
             \/ loop'[l].pc \in {"sending", "delivered"} /\ loop'[l].id = loop[l].id
      <3>1. CASE loop' = [loop EXCEPT ![l] = Idle]
        BY <1>1, <3>1 DEF TypeOK, Idle
      <3> QED
        BY <1>1, <2>2, <3>1, GotoLeavesOthers
    <2>4. loop[l].id \in OnFile
      BY <2>1 DEF FileInv, LoopFollowsFile
    <2> QED
      BY <2>1, <2>3, <2>4, FileInvLoops DEF HeadPcs, GonePcs
  <1>5. ASSUME NEW l \in Loops, BackoffOver(l) PROVE FileInv'
    <2>1. /\ UNCHANGED <<up, queue, save, tmp, main, accepted, order>> /\ NextIteration(l)
          /\ loop[l].pc \in HeadPcs /\ loop[l].pc \notin GonePcs \cup {"savingRetry"}
      BY <1>5 DEF BackoffOver, files, ghosts, HeadPcs, GonePcs
    <2>2. /\ queue' \in Seq(Item) /\ OnFile' = OnFile
          /\ Head(queue').id \in OnFile'
          /\ \A k \in Loops \ {l} : loop[k].pc = "idle"
      BY <2>1, HeldIsHead DEF FileInv, LoopFollowsFile, OnFile
    <2>3. \A k \in Loops :
              /\ loop'[k].pc \in {"idle", "pause"}
              /\ loop'[k].pc \in HeadPcs => loop'[k].id \in OnFile
      BY <1>1, <2>1, <2>2, NextIterationFollows
    <2>4. \A k \in Loops : loop[k].pc \notin GonePcs \cup {"savingRetry"}
      BY <2>1, <2>2 DEF GonePcs
    <2> QED
      BY <2>1, <2>3, <2>4, FileInvLoops DEF GonePcs
  <1>6. ASSUME NEW w \in Writers, Stringify(w) \/ OpenTmp(w) \/ WriteTmp(w) PROVE FileInv'
    <2>1. /\ UNCHANGED <<up, queue, loop, accepted, order>> /\ InFlight(w)
          /\ \A v \in Writers \ {w} : ~InFlight(v)
      BY <1>6 DEF Stringify, OpenTmp, WriteTmp, memory, ghosts, InFlight, FileInv,
                  SnapshotIsQueue
    <2>2. CASE Stringify(w)
      <3>1. /\ save' = [save EXCEPT ![w].phase = "stringified", ![w].items = queue]
            /\ tmp' = tmp /\ main' = main
        BY <2>2 DEF Stringify, files
      <3>2. /\ save'[w].phase = "stringified" /\ save'[w].items = queue
            /\ \A v \in Writers \ {w} : save'[v] = save[v]
        BY <1>1, <3>1 DEF TypeOK, Save
      <3>3. SnapshotIsQueue'
        BY <2>1, <3>2 DEF SnapshotIsQueue, InFlight
      <3> QED
        BY <2>1, <3>1, <3>2, <3>3 DEF FileInv, AheadByOne, LoopFollowsFile, InFlight, OnFile,
                                      Writers
    <2>3. CASE OpenTmp(w)
      <3>1. /\ save' = [save EXCEPT ![w].phase = "opened", ![w].fd = "tmp"]
            /\ tmp' = EmptyFile /\ main' = main /\ save[w].phase = "stringified"
        BY <2>3 DEF OpenTmp
      <3>2. /\ save'[w].phase = "opened" /\ save'[w].items = save[w].items
            /\ save'[w].fd = "tmp" /\ \A v \in Writers \ {w} : save'[v] = save[v]
        BY <1>1, <3>1 DEF TypeOK, Save
      <3>3. SnapshotIsQueue'
        BY <2>1, <3>1, <3>2 DEF FileInv, SnapshotIsQueue, InFlight
      <3> QED
        BY <2>1, <3>1, <3>2, <3>3 DEF FileInv, AheadByOne, LoopFollowsFile, InFlight, OnFile,
                                      Writers
    <2>4. CASE WriteTmp(w)
      <3>1. save[w].phase = "opened" /\ save[w].fd = "tmp" /\ tmp = EmptyFile
        BY <2>4 DEF WriteTmp, FileInv, SnapshotIsQueue
      <3>2. /\ save' = [save EXCEPT ![w].phase = "written"]
            /\ tmp' = Json(save[w].items) /\ main' = main
        BY <2>4, <3>1 DEF WriteTmp, Over
      <3>3. /\ save'[w].phase = "written" /\ save'[w].items = save[w].items
            /\ save'[w].fd = save[w].fd /\ \A v \in Writers \ {w} : save'[v] = save[v]
        BY <1>1, <3>2 DEF TypeOK, Save
      <3>4. SnapshotIsQueue'
        BY <2>1, <3>1, <3>2, <3>3 DEF FileInv, SnapshotIsQueue, InFlight
      <3> QED
        BY <2>1, <3>1, <3>2, <3>3, <3>4
        DEF FileInv, AheadByOne, LoopFollowsFile, InFlight, OnFile, Writers
    <2> QED
      BY <1>6, <2>2, <2>3, <2>4
  <1>7. ASSUME NEW w \in Writers, Rename(w) PROVE FileInv'
    <2>1. /\ OnFile' = Names(queue) /\ queue' = queue
          /\ \A v \in Writers : ~InFlight(v)'
          /\ \A v \in Writers \ {w} : ~InFlight(v)
          /\ up /\ up' /\ InFlight(w) /\ AfterSave(w) /\ order' = order
      BY <1>7, RenameWritesQueue DEF AfterSave
    <2>2. SnapshotIsQueue' /\ AheadByOne'
      BY <2>1 DEF SnapshotIsQueue, AheadByOne, InFlight, Writers
    <2>3. CASE AnswerRequest(w)
      <3>1. w \in Ids /\ accepted' = accepted \cup {w} /\ Kick
        BY <2>3 DEF AnswerRequest
      <3>2. w \in ToSet(order) /\ OnFile' = OnFile \cup {w}
        BY <2>1, <3>1 DEF FileInv, AheadByOne
      <3>3. \A l \in Loops :
                /\ loop[l].pc \notin GonePcs \cup {"savingRetry"}
                /\ loop[l].pc \in HeadPcs => loop[l].id \in OnFile'
        BY <1>1, <2>1, <3>1, <3>2 DEF FileInv, LoopFollowsFile, Writers
      <3>4. \A l \in Loops :
                /\ loop'[l].pc \in HeadPcs => loop'[l].id \in OnFile'
                /\ loop'[l].pc \notin GonePcs \cup {"savingRetry"}
        BY <1>1, <2>1, <3>1, <3>3, KickFollows
      <3> QED
        BY <2>1, <2>2, <3>1, <3>2, <3>4 DEF FileInv, LoopFollowsFile
    <2>4. CASE ResumeLoop(w)
      <3>1. /\ w \in Loops /\ accepted' = accepted /\ Busy(w)
            /\ \A k \in Loops \ {w} : loop[k].pc = "idle"
        BY <1>1, <2>4 DEF ResumeLoop, Busy, OneDrain, GonePcs
      <3>2. CASE loop[w].pc = "savingRetry" /\ Goto(w, "backoff")
        <4>1. /\ loop'[w].pc = "backoff" /\ loop'[w].id = loop[w].id
              /\ \A k \in Loops \ {w} : loop'[k] = loop[k]
          BY <1>1, <3>1, <3>2, GotoLeavesOthers DEF Goto
        <4>2. loop[w].id \in Names(queue)
          BY <3>1, <3>2, HeldIsHead DEF HeadPcs
        <4>3. LoopFollowsFile'
          BY <2>1, <3>1, <4>1, <4>2 DEF LoopFollowsFile, HeadPcs, GonePcs
        <4> QED
          BY <2>1, <2>2, <3>1, <4>3 DEF FileInv
      <3>3. CASE NextIteration(w)
        <4>1. queue' \in Seq(Item) /\ (queue' # <<>> => Head(queue').id \in OnFile')
          BY <1>1, <2>1, HeadIsNamed DEF TypeOK
        <4>2. \A k \in Loops :
                  /\ loop'[k].pc \in {"idle", "pause"}
                  /\ loop'[k].pc \in HeadPcs => loop'[k].id \in OnFile'
          BY <1>1, <3>1, <3>3, <4>1, NextIterationFollows
        <4>3. LoopFollowsFile'
          BY <4>2 DEF LoopFollowsFile, GonePcs
        <4> QED
          BY <2>1, <2>2, <3>1, <4>3 DEF FileInv
      <3> QED
        BY <2>4, <3>2, <3>3 DEF ResumeLoop
    <2> QED
      BY <2>1, <2>3, <2>4 DEF AfterSave
  <1>8. ASSUME NEW w \in Writers, FsError(w) PROVE FALSE
    BY <1>1, <1>8 DEF FsError, OneCleanSave, TypeOK
  <1>9. ASSUME Stop PROVE FileInv'
    BY <1>9, FileInvLoops DEF Stop, files, ghosts
  <1>10. ASSUME Halt PROVE FileInv'
    <2>1. /\ ~up' /\ UNCHANGED <<main, accepted, order>>
          /\ (\A w \in Writers : save'[w].phase = "none")
          /\ \A l \in Loops : loop'[l].pc = "idle"
      BY <1>10 DEF Halt, NoSave, Idle, files, ghosts
    <2> QED
      BY <2>1 DEF FileInv, SnapshotIsQueue, AheadByOne, LoopFollowsFile, InFlight, Writers,
                  HeadPcs, GonePcs
  <1>11. ASSUME Load PROVE FileInv'
    <2>1. /\ ~up /\ UNCHANGED <<save, main, accepted, order>> /\ Kick
          /\ queue' = IF main.kind = "json" THEN main.items ELSE <<>>
      BY <1>11 DEF Load, files, ghosts
    <2>2. /\ \A w \in Writers : save'[w].phase = "none"
          /\ \A l \in Loops : loop[l].pc = "idle"
      BY <2>1 DEF IInv, NothingWhenDown
    <2>3. OnFile' = Names(queue')
      BY <2>1 DEF OnFile, CopiesAreGood
    <2>4. \A l \in Loops :
              /\ loop'[l].pc \in HeadPcs => loop'[l].id \in OnFile'
              /\ loop'[l].pc \notin GonePcs \cup {"savingRetry"}
      BY <1>1, <2>1, <2>2, <2>3, KickFollows DEF HeadPcs, GonePcs
    <2> QED
      BY <2>1, <2>2, <2>3, <2>4 DEF FileInv, SnapshotIsQueue, AheadByOne, LoopFollowsFile,
                                    InFlight, Writers
  <1> QED
    BY <1>2, <1>3, <1>4, <1>5, <1>6, <1>7, <1>8, <1>9, <1>10, <1>11
    DEF Next, Drain, Persist, Crash, Exit

-----------------------------------------------------------------------------
(* The refinement: a step of the outbox is a step of the promise, or invisible *)

\* At the start the file and the queue are both empty.
LEMMA FileInvInit == ASSUME Init PROVE FileInv
  <1>1. /\ queue = <<>> /\ main = NoFile /\ accepted = {}
        /\ \A w \in Writers : save[w].phase = "none"
        /\ \A l \in Loops : loop[l].pc = "idle"
    BY DEF Init, NoSave, Idle
  <1>2. OnFile = {} /\ Names(queue) = {}
    BY <1>1, EmptyIsGood DEF OnFile, NoFile
  <1> QED
    BY <1>1, <1>2 DEF FileInv, SnapshotIsQueue, AheadByOne, LoopFollowsFile, InFlight,
                      Writers, HeadPcs, GonePcs

\* A step that changes nothing keeps the file one change behind.
LEMMA FileInvStutter == ASSUME FileInv, UNCHANGED vars PROVE FileInv'
  BY FileInvLoops DEF vars, memory, files, ghosts

Held == {i \in Ids : OnDisk(i)}

\* What the bridge holds is what the file names.
LEMMA HeldIsOnFile == TypeOK /\ CopiesAreGood => Held = OnFile
  <1> SUFFICES ASSUME TypeOK, CopiesAreGood PROVE Held = OnFile
    OBVIOUS
  <1>1. main.items \in Seq(Item)
    BY DEF TypeOK, File
  <1>2. \A n \in DOMAIN main.items : main.items[n].id \in Ids
    <2>1. \A n \in DOMAIN main.items : main.items[n] \in Item
      BY <1>1
    <2> QED
      BY <2>1 DEF Item
  <1>3. main.kind # "json" => DOMAIN main.items = {}
    BY DEF CopiesAreGood
  <1> QED
    BY <1>2, <1>3 DEF Held, OnDisk, OnFile, Names

\* The counts of copies a message was sent in, as the promise sees them.
CopyCounts == [i \in Ids |-> CopiesOf(i)]

\* One more copy of x, in the table of copies.
LEMMA OneMoreCopy ==
    ASSUME TypeOK, NEW x \in Ids, delivered' = Append(delivered, x)
    PROVE  CopyCounts' = [CopyCounts EXCEPT ![x] = @ + 1]
  <1>1. /\ CopiesOf(x)' = CopiesOf(x) + 1
        /\ \A i \in Ids \ {x} : CopiesOf(i)' = CopiesOf(i)
    BY CopiesAppend DEF TypeOK
  <1>2. CopyCounts' = [i \in Ids |-> CopiesOf(i)']
    BY DEF CopyCounts
  <1>3. \A i \in Ids : [CopyCounts EXCEPT ![x] = @ + 1][i] =
            IF i = x THEN CopiesOf(x) + 1 ELSE CopiesOf(i)
    BY DEF CopyCounts
  <1>4. \A i \in Ids : CopiesOf(i)' = [CopyCounts EXCEPT ![x] = @ + 1][i]
    BY <1>1, <1>3
  <1>5. DOMAIN [CopyCounts EXCEPT ![x] = @ + 1] = Ids
    BY DEF CopyCounts
  <1>6. [CopyCounts EXCEPT ![x] = @ + 1] =
            [i \in Ids |-> [CopyCounts EXCEPT ![x] = @ + 1][i]]
    BY <1>5 DEF CopyCounts
  <1> QED
    BY <1>2, <1>4, <1>6

\* A message that was sent has a copy.
LEMMA SentHasCopy ==
    ASSUME TypeOK, NEW i \in Ids, i \in ToSet(delivered)
    PROVE  CopiesOf(i) > 0
  <1>1. PICK k \in Nat : DOMAIN delivered = 1 .. k
    BY LenProperties DEF TypeOK
  <1>2. PICK n \in 1 .. k : delivered[n] = i
    BY <1>1 DEF ToSet
  <1> DEFINE at == {m \in DOMAIN delivered : delivered[m] = i}
  <1>3. IsFiniteSet(at)
    <2>1. IsFiniteSet(1 .. k) /\ at \subseteq 1 .. k
      BY <1>1, FS_Interval
    <2> QED
      BY <2>1, FS_Subset
  <1>4. n \in at
    BY <1>1, <1>2
  <1> HIDE DEF at
  <1>5. Cardinality(at) # 0 /\ Cardinality(at) \in Nat
    BY <1>3, <1>4, FS_EmptySet, FS_CardinalityType
  <1> QED
    BY <1>5 DEF CopiesOf, at

\* What each step does to what a caller of POST /send can see.
PromiseStep ==
    \/ UNCHANGED <<accepted, Held, CopyCounts, fails>>
    \/ \E i \in Ids :
        \/ /\ i \notin accepted /\ accepted' = accepted \cup {i} /\ Held' = Held \cup {i}
           /\ UNCHANGED <<CopyCounts, fails>>
        \/ /\ i \in Held /\ CopyCounts' = [CopyCounts EXCEPT ![i] = @ + 1]
           /\ UNCHANGED <<accepted, Held, fails>>
        \/ /\ i \in Held /\ fails' = [fails EXCEPT ![i] = @ + 1]
           /\ UNCHANGED <<accepted, Held, CopyCounts>>
        \/ /\ i \in Held /\ (CopyCounts[i] > 0 \/ fails[i] >= MaxAttempts)
           /\ Held' = Held \ {i}
           /\ UNCHANGED <<accepted, CopyCounts, fails>>

\* Every step of the outbox is a step of the promise or invisible to the caller.
LEMMA PromiseNext ==
    ASSUME IInv, DeliveryInv, OneCleanSave, FileInv, Next
    PROVE  PromiseStep
  <1>1. /\ TypeOK /\ TypeOK' /\ HeadStable /\ OneDrain
        /\ CopiesAreGood /\ CopiesAreGood' /\ HeldIsSettling
    BY TypeNext, CopiesAreGoodNext DEF IInv, DeliveryInv
  <1>2. Held = OnFile /\ Held' = OnFile'
    <2>1. (TypeOK /\ CopiesAreGood => Held = OnFile)'
      BY HeldIsOnFile, PTL
    <2> QED
      BY <1>1, <2>1, HeldIsOnFile
  <1>3. delivered' = delivered => CopyCounts' = CopyCounts
    BY DEF CopyCounts, CopiesOf
  <1>4. main' = main => Held' = Held
    BY DEF Held, OnDisk
  <1>5. ASSUME UNCHANGED <<main, accepted, delivered, fails>> PROVE PromiseStep
    BY <1>3, <1>4, <1>5 DEF PromiseStep
  <1>6. ASSUME NEW l \in Loops, WhatsAppAccepts(l) PROVE PromiseStep
    <2>1. /\ delivered' = Append(delivered, loop[l].id) /\ loop[l].pc \in HeadPcs
          /\ UNCHANGED <<accepted, main, fails>>
      BY <1>6 DEF WhatsAppAccepts, files, HeadPcs
    <2>2. PICK x \in Ids : x = loop[l].id /\ x \in Held
      BY <1>1, <1>2, <2>1, HeldIsHead DEF FileInv, LoopFollowsFile
    <2>3. CopyCounts' = [CopyCounts EXCEPT ![x] = @ + 1]
      BY <1>1, <2>1, <2>2, OneMoreCopy
    <2> QED
      BY <1>4, <2>1, <2>2, <2>3 DEF PromiseStep
  <1>7. ASSUME NEW l \in Loops, SendFails(l) PROVE PromiseStep
    <2>1. /\ fails' = [fails EXCEPT ![loop[l].id] = @ + 1] /\ loop[l].pc \in HeadPcs
          /\ UNCHANGED <<accepted, main, delivered>>
      BY <1>7 DEF SendFails, files, HeadPcs
    <2>2. PICK x \in Ids : x = loop[l].id /\ x \in Held
      BY <1>1, <1>2, <2>1, HeldIsHead DEF FileInv, LoopFollowsFile
    <2> QED
      BY <1>3, <1>4, <2>1, <2>2 DEF PromiseStep
  <1>8. ASSUME NEW w \in Writers, Rename(w) PROVE PromiseStep
    <2>1. /\ OnFile' = Names(queue) /\ InFlight(w) /\ AfterSave(w)
          /\ delivered' = delivered /\ fails' = fails
      BY <1>1, <1>8, RenameWritesQueue DEF AfterSave, DeliveryInv
    <2>2. CASE AnswerRequest(w)
      <3>1. w \in Ids /\ w \notin accepted /\ accepted' = accepted \cup {w}
        BY <2>1, <2>2 DEF AnswerRequest, FileInv, AheadByOne
      <3>2. Held' = Held \cup {w}
        BY <1>2, <2>1, <3>1 DEF FileInv, AheadByOne
      <3> QED
        BY <1>3, <2>1, <3>1, <3>2 DEF PromiseStep
    <2>3. CASE ResumeLoop(w)
      <3>1. w \in Loops /\ accepted' = accepted
        BY <2>3 DEF ResumeLoop
      <3>2. \/ /\ loop[w].pc \in GonePcs /\ loop[w].id \in OnFile
               /\ Names(queue) = OnFile \ {loop[w].id}
            \/ Names(queue) = OnFile
        BY <2>1, <3>1 DEF FileInv, AheadByOne
      <3>3. CASE Names(queue) = OnFile
        BY <1>2, <1>3, <2>1, <3>1, <3>3 DEF PromiseStep
      <3>4. CASE /\ loop[w].pc \in GonePcs /\ loop[w].id \in OnFile
                 /\ Names(queue) = OnFile \ {loop[w].id}
        <4>1. PICK x \in Ids : x = loop[w].id /\ x \in Held
          BY <1>2, <3>4 DEF Held
        <4>2. CopyCounts[x] > 0 \/ fails[x] >= MaxAttempts
          <5>1. CASE loop[w].pc = "savingSent"
            <6>1. x \in ToSet(delivered)
              BY <1>1, <3>1, <4>1, <5>1 DEF HeldIsSettling
            <6> QED
              BY <1>1, <6>1, SentHasCopy DEF CopyCounts
          <5>2. CASE loop[w].pc = "savingFailed"
            BY <1>1, <3>1, <4>1, <5>2 DEF HeldIsSettling
          <5> QED
            BY <3>4, <5>1, <5>2 DEF GonePcs
        <4>3. Held' = Held \ {x}
          BY <1>2, <2>1, <3>4, <4>1
        <4> QED
          BY <1>3, <2>1, <3>1, <4>1, <4>2, <4>3 DEF PromiseStep
      <3> QED
        BY <3>2, <3>3, <3>4
    <2> QED
      BY <2>1, <2>2, <2>3 DEF AfterSave
  <1>9. ASSUME NEW w \in Writers, FsError(w) PROVE FALSE
    BY <1>1, <1>9 DEF FsError, OneCleanSave, TypeOK
  <1>10. ASSUME NEW w \in Writers, Stringify(w) \/ OpenTmp(w) PROVE PromiseStep
    BY <1>5, <1>10 DEF Stringify, OpenTmp, files, ghosts
  <1>11. ASSUME NEW w \in Writers, WriteTmp(w) PROVE PromiseStep
    <2>1. save[w].fd = "tmp"
      BY <1>11 DEF WriteTmp, FileInv, SnapshotIsQueue
    <2>2. main' = main /\ UNCHANGED <<accepted, delivered, fails>>
      BY <1>11, <2>1 DEF WriteTmp, ghosts
    <2> QED
      BY <1>5, <2>2
  <1>12. ASSUME NEW l \in Loops, Wake(l) \/ SendResolves(l) \/ BackoffOver(l)
         PROVE  PromiseStep
    BY <1>5, <1>12 DEF Wake, SendResolves, BackoffOver, files, ghosts
  <1>13. ASSUME NEW i \in Ids, Enqueue(i) PROVE PromiseStep
    BY <1>5, <1>13 DEF Enqueue, files
  <1>14. Stop \/ Halt \/ Load => PromiseStep
    BY <1>5 DEF Stop, Halt, Load, files, ghosts
  <1> QED
    BY <1>6, <1>7, <1>8, <1>9, <1>10, <1>11, <1>12, <1>13, <1>14
    DEF Next, Drain, Persist, Crash, Exit

\* A step of the promise, in the words of DurableDelivery.
LEMMA PromiseStepIsNext == PromiseStep => [Promise!Next]_(Promise!vars)
  BY DEF PromiseStep, Held, CopyCounts, Promise!Next, Promise!vars, Promise!Accept,
         Promise!Deliver, Promise!Fail, Promise!Release

\* The outbox starts where the promise starts.
LEMMA PromiseInit == Init => Promise!Init
  <1> SUFFICES ASSUME Init PROVE Promise!Init
    OBVIOUS
  <1>1. accepted = {} /\ delivered = <<>> /\ main = NoFile /\ fails = [i \in Ids |-> 0]
    BY DEF Init
  <1>2. {i \in Ids : OnDisk(i)} = {}
    BY <1>1 DEF OnDisk, NoFile
  <1>3. \A i \in Ids : CopiesOf(i) = 0
    BY <1>1, NoCopies DEF ToSet
  <1>4. [i \in Ids |-> CopiesOf(i)] = [i \in Ids |-> 0]
    BY <1>3
  <1> QED
    BY <1>1, <1>2, <1>4 DEF Promise!Init

\* With the saves one at a time, what the file is behind of is one change of the queue.
LEMMA FileInvariant == ASSUME OneCleanSave PROVE Spec => [](IInv /\ DeliveryInv /\ FileInv)
  <1>1. Init => IInv /\ DeliveryInv /\ FileInv
    BY InvInit, DeliveryInit, FileInvInit
  <1>2. IInv /\ DeliveryInv /\ FileInv /\ [Next]_vars => (IInv /\ DeliveryInv /\ FileInv)'
    <2>1. IInv /\ DeliveryInv /\ FileInv /\ Next => FileInv'
      BY FileInvNext DEF DeliveryInv
    <2> QED
      BY <2>1, InvNext, InvStutter, DeliveryNext, DeliveryStutter, FileInvStutter
  <1> QED
    BY <1>1, <1>2, PTL DEF Spec

\* As long as saves do not overlap and do not fail, the outbox implements the promise of
\* POST /send: crashes and restarts are invisible, and what is let go was sent or failed
\* maxAttempts times (the header of outbox.js).
THEOREM PromiseIsKept == ASSUME OneCleanSave PROVE Spec => KeepsThePromise
  <1>1. IInv /\ DeliveryInv /\ FileInv /\ [Next]_vars => [Promise!Next]_(Promise!vars)
    <2>1. IInv /\ DeliveryInv /\ FileInv /\ Next => [Promise!Next]_(Promise!vars)
      BY PromiseNext, PromiseStepIsNext
    <2>2. UNCHANGED vars => UNCHANGED Promise!vars
      BY DEF vars, files, ghosts, Promise!vars, OnDisk, CopiesOf
    <2> QED
      BY <2>1, <2>2
  <1> QED
    BY <1>1, PromiseInit, FileInvariant, PTL DEF Spec, KeepsThePromise, Promise!Spec

\* A message that is answered 202 is in the queue file until it is finished.
LEMMA DurableNext ==
    ASSUME IInv, DeliveryInv, OneCleanSave, FileInv, AcceptedIsDurable, [Next]_vars
    PROVE  AcceptedIsDurable'
  <1>1. CASE UNCHANGED vars
    BY <1>1 DEF vars, files, ghosts, AcceptedIsDurable, Finished, OnDisk
  <1>2. CASE Next
    <2>1. /\ TypeOK /\ TypeOK' /\ HistoryGrows /\ PromiseStep
      BY <1>2, TypeNext, HistoryNext, PromiseNext DEF IInv, DeliveryInv
    <2>2. \A i \in Ids : Finished(i) => Finished(i)'
      BY <2>1, FinishedStays
    <2>3. ASSUME NEW i \in Ids, CopyCounts[i] > 0 \/ fails[i] >= MaxAttempts
          PROVE  Finished(i)
      <3>1. i \notin ToSet(delivered) => CopiesOf(i) = 0
        BY <2>1, NoCopies DEF TypeOK
      <3> QED
        BY <2>3, <3>1 DEF Finished, CopyCounts
    <2>4. \A i \in Ids : (i \in Held <=> OnDisk(i)) /\ (i \in Held' <=> OnDisk(i)')
      BY DEF Held
    <2>5. accepted \subseteq Ids /\ accepted' \subseteq Ids
      BY <2>1 DEF TypeOK
    <2> SUFFICES ASSUME NEW i \in accepted' PROVE Finished(i)' \/ i \in Held'
      BY <2>4, <2>5 DEF AcceptedIsDurable
    <2>6. i \in accepted => Finished(i) \/ i \in Held
      BY <2>4, <2>5 DEF AcceptedIsDurable
    <2> QED
      BY <2>1, <2>2, <2>3, <2>5, <2>6 DEF PromiseStep
  <1> QED
    BY <1>1, <1>2

\* As long as saves do not overlap and do not fail, the process may die at any moment
\* without dropping a message answered 202.
THEOREM AcceptedIsDurableHolds == ASSUME OneCleanSave PROVE Spec => []AcceptedIsDurable
  <1>1. Init => AcceptedIsDurable
    BY DEF Init, AcceptedIsDurable
  <1>2. /\ IInv /\ DeliveryInv /\ FileInv /\ AcceptedIsDurable /\ [Next]_vars
        => AcceptedIsDurable'
    BY DurableNext
  <1> QED
    BY <1>1, <1>2, FileInvariant, PTL DEF Spec
=============================================================================
