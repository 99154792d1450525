-------------------------- MODULE SageImportProofs --------------------------
(***************************************************************************)
(* What holds of the way from a spreadsheet to its import file for every   *)
(* set of sheets and suffixes, number of retries, replaced exports and     *)
(* calls that fail.                                                        *)
(***************************************************************************)
EXTENDS SageImport, SequenceTheorems, TLAPS

-----------------------------------------------------------------------------
(* The inductive invariant *)

Written == {"reload", "reindex", "postFile"}
Job     == [pc : Generating \cup {"postFile", "postReason"}, sheet : Sheets,
            index : Nat, caption : Nat, key : Nat]
Import  == [sheet : Sheets, index : Nat]
Files   == {Absent, Torn} \cup Import
Answers == [sheet : Sheets, caption : Nat, kind : {"text", "document"}]

SageType ==
    /\ suffix \in [Sheets -> Suffixes]
    /\ state \in [Sheets -> {"waiting", "running", "done", "dead", "rate_limited"}]
    /\ left \in [Sheets -> 0 .. MaxRetries]
    /\ worker \in Job \cup {NoSheet}
    /\ cache \in [key : Nat, content : Nat] /\ export \in Nat \ {0}
    /\ file \in [Suffixes -> Files]
    /\ outbox \in Seq(Answers) /\ buffer \in Files
    /\ sent \subseteq [answer : Answers, document : Files]
    /\ faults \in Nat /\ tries \in Nat

\* The worker and its cache are never ahead of the export.
NotAhead ==
    /\ cache.key <= export /\ FreshIndex
    /\ worker # NoSheet => worker.key <= export /\ state[worker.sheet] = "running"

\* A retry of a sheet is a fault of POST /send.
RetriesArePaid ==
    \A s \in Sheets :
        /\ faults + left[s] >= MaxRetries
        /\ state[s] = "dead" => faults > MaxRetries

Over(s) == state[s] \in {"done", "dead"}

\* Its suffix is no other's, and its job has run once at most.
Undisturbed(s) == Alone(s) /\ left[s] = MaxRetries

\* From the end of its write on, the file of an undisturbed sheet is its own: in the
\* directory, in the bridge's hands and in the chat.
OwnFromThere ==
    \A s \in Sheets : Undisturbed(s) =>
        /\ worker # NoSheet /\ worker.sheet = s /\ worker.pc \in Written =>
              file[suffix[s]] \in Import /\ file[suffix[s]].sheet = s
        /\ \A n \in DOMAIN outbox :
              outbox[n].sheet = s /\ outbox[n].kind = "document" =>
                  Over(s) /\ file[suffix[s]] \in Import /\ file[suffix[s]].sheet = s
        /\ buffer # Absent /\ outbox # <<>> /\ Head(outbox).sheet = s =>
              buffer \in Import /\ buffer.sheet = s

\* What the bridge has read is for the head of its queue.
ReadForHead == buffer # Absent => outbox # <<>> /\ Head(outbox).kind = "document"

IInv ==
    /\ SageType /\ NotAhead /\ RetriesArePaid /\ NeverSilent
    /\ ReadForHead /\ OwnFromThere /\ AloneGetsOwnFile
-----------------------------------------------------------------------------
(* Records and queues *)

\* A written file is neither missing nor torn, and a job is not the idle worker.
LEMMA KindsDiffer ==
    /\ \A x \in Import : x # Absent /\ x # Torn
    /\ \A w \in Job : w # NoSheet /\ w.pc # "idle"
  <1>1. \A x \in Import : DOMAIN x = {"sheet", "index"}
    BY DEF Import
  <1>2. DOMAIN Absent = {"kind"} /\ DOMAIN Torn = {"kind"}
    BY DEF Absent, Torn
  <1>3. \A w \in Job : w.pc # "idle"
    BY DEF Job, Generating
  <1>4. NoSheet.pc = "idle"
    BY DEF NoSheet
  <1> QED
    BY <1>1, <1>2, <1>3, <1>4

\* What an answer at the end of the queue leaves as it was.
LEMMA Appended ==
    ASSUME NEW q \in Seq(Answers), NEW x \in Answers
    PROVE  /\ Append(q, x) \in Seq(Answers) /\ Append(q, x) # <<>>
           /\ \A n \in DOMAIN Append(q, x) :
                 (n \in DOMAIN q /\ Append(q, x)[n] = q[n]) \/ Append(q, x)[n] = x
           /\ \A n \in DOMAIN q : n \in DOMAIN Append(q, x) /\ Append(q, x)[n] = q[n]
           /\ q # <<>> => Head(Append(q, x)) = Head(q)
           /\ \E n \in DOMAIN Append(q, x) : Append(q, x)[n] = x
  BY AppendProperties, HeadTailProperties, LenProperties

\* What is left of the queue once its head is gone.
LEMMA Removed ==
    ASSUME NEW q \in Seq(Answers), q # <<>>
    PROVE  /\ Tail(q) \in Seq(Answers) /\ Head(q) \in Answers
           /\ 1 \in DOMAIN q /\ q[1] = Head(q)
           /\ \A n \in DOMAIN Tail(q) : n + 1 \in DOMAIN q /\ Tail(q)[n] = q[n + 1]
           /\ \A n \in DOMAIN q : n = 1 \/ \E k \in DOMAIN Tail(q) : Tail(q)[k] = q[n]
  <1>1. /\ Tail(q) \in Seq(Answers) /\ Head(q) \in Answers /\ Len(Tail(q)) = Len(q) - 1
        /\ Len(q) \in Nat \ {0} /\ Head(q) = q[1]
        /\ \A n \in 1 .. Len(Tail(q)) : Tail(q)[n] = q[n + 1]
        /\ DOMAIN q = 1 .. Len(q) /\ DOMAIN Tail(q) = 1 .. Len(Tail(q))
    BY HeadTailProperties, LenProperties
  <1>2. \A n \in DOMAIN q : n # 1 => n - 1 \in DOMAIN Tail(q) /\ Tail(q)[n - 1] = q[n]
    BY <1>1
  <1>3. \A n \in DOMAIN q : n = 1 \/ \E k \in DOMAIN Tail(q) : Tail(q)[k] = q[n]
    BY <1>2, Zenon
  <1>4. Len(q) >= 1 /\ \A n \in DOMAIN Tail(q) : n + 1 \in DOMAIN q
    BY <1>1
  <1> QED
    BY <1>1, <1>3, <1>4

-----------------------------------------------------------------------------
(* Each step keeps the invariant *)

\* Nothing has been read, written or sent at the start.
LEMMA InitHolds == Init => IInv
  <1> SUFFICES ASSUME Init PROVE IInv
    OBVIOUS
  <1> USE SageAssumption DEF Init
  <1>1. SageType
    BY DEF SageType, Empty, Files
  <1>2. NotAhead
    BY DEF NotAhead, FreshIndex, Empty
  <1>3. RetriesArePaid /\ NeverSilent /\ ReadForHead
    BY DEF RetriesArePaid, NeverSilent, ReadForHead, Answered, GivenUp
  <1>4. OwnFromThere /\ AloneGetsOwnFile
    BY DEF OwnFromThere, AloneGetsOwnFile, Documents
  <1> QED
    BY <1>1, <1>2, <1>3, <1>4 DEF IInv

\* A job starts: its sheet was waiting, so nothing of an undisturbed run is queued.
LEMMA TakeJobHolds == ASSUME IInv, NEW s \in Sheets, TakeJob(s) PROVE IInv'
  <1> USE DEF TakeJob
  <1>1. SageType
    BY DEF IInv
  <1>2. worker' \in Job /\ worker'.pc = "load" /\ worker'.sheet = s /\ worker'.key = 0
    BY DEF Job, Generating
  <1>3. SageType'
    BY <1>1, <1>2 DEF SageType, Empty, bridgeVars
  <1>4. state' = [state EXCEPT ![s] = "running"] /\ state[s] = "waiting"
    OBVIOUS
  <1>5. NotAhead'
    BY <1>1, <1>2, <1>4 DEF SageType, NotAhead, FreshIndex, Empty
  <1>6. RetriesArePaid' /\ NeverSilent' /\ ReadForHead'
    BY <1>1, <1>4 DEF IInv, SageType, RetriesArePaid, NeverSilent, ReadForHead, Answered, GivenUp, bridgeVars
  <1>7. \A t \in Sheets : Over(t) => Over(t)'
    BY <1>1, <1>4 DEF SageType, Over
  <1>8. OwnFromThere'
    BY <1>2, <1>7 DEF IInv, OwnFromThere, Undisturbed, Alone, Written
  <1>9. AloneGetsOwnFile'
    BY DEF IInv, AloneGetsOwnFile, Documents, Alone, IsOwn
  <1> QED
    BY <1>3, <1>5, <1>6, <1>8, <1>9 DEF IInv

\* The index is taken from the cache or read from the export.
LEMMA IndexHolds ==
    ASSUME IInv,
           \/ LoadClients("load", "index", "open", "index")
           \/ BuildIndex("index", "open", "index")
           \/ LoadClients("reload", "reindex", "postFile", "caption")
           \/ BuildIndex("reindex", "postFile", "caption")
    PROVE  IInv'
  <1>1. SageType /\ NotAhead
    BY DEF IInv
  <1>2. worker \in Job
    BY <1>1 DEF SageType, NoSheet, LoadClients, BuildIndex, At
  <1>3. /\ worker' \in Job /\ worker'.sheet = worker.sheet
        /\ worker'.key \in {worker.key, export}
        /\ worker'.pc \in Written => worker.pc \in Written
    <2>1. cache.content \in Nat /\ export \in Nat
      BY <1>1 DEF SageType, bridgeVars
    <2>2. CASE LoadClients("load", "index", "open", "index")
      BY <1>2, <2>1, <2>2 DEF Job, Generating, Written, LoadClients, At
    <2>3. CASE BuildIndex("index", "open", "index")
      BY <1>2, <2>1, <2>3 DEF Job, Generating, Written, BuildIndex, At
    <2>4. CASE LoadClients("reload", "reindex", "postFile", "caption")
      BY <1>2, <2>1, <2>4 DEF Job, Generating, Written, LoadClients, At
    <2>5. CASE BuildIndex("reindex", "postFile", "caption")
      BY <1>2, <2>1, <2>5 DEF Job, Generating, Written, BuildIndex, At
    <2> QED
      BY <2>2, <2>3, <2>4, <2>5
  <1>4. UNCHANGED <<suffix, state, left, export, file, outbox, buffer, sent, faults, bridgeVars>>
    BY DEF LoadClients, BuildIndex
  <1>5. /\ cache' \in [key : Nat, content : Nat]
        /\ cache'.key <= export /\ (cache'.key = export => cache'.content = export)
    BY <1>1, <1>2, KindsDiffer DEF SageType, NotAhead, FreshIndex, Job, LoadClients, BuildIndex
  <1>6. SageType'
    BY <1>1, <1>3, <1>4, <1>5 DEF SageType, bridgeVars
  <1>7. NotAhead'
    BY <1>1, <1>2, <1>3, <1>4, <1>5, KindsDiffer DEF SageType, NotAhead, FreshIndex
  <1>8. RetriesArePaid' /\ NeverSilent' /\ ReadForHead'
    BY <1>4 DEF IInv, RetriesArePaid, NeverSilent, ReadForHead, Answered, GivenUp, bridgeVars
  <1>9. OwnFromThere'
    BY <1>2, <1>3, <1>4, KindsDiffer DEF IInv, OwnFromThere, Undisturbed, Alone, Over
  <1>10. AloneGetsOwnFile'
    BY <1>4 DEF IInv, AloneGetsOwnFile, Documents, Alone, IsOwn
  <1> QED
    BY <1>6, <1>7, <1>8, <1>9, <1>10 DEF IInv

\* The file is truncated and filled by a job that runs: no undisturbed sheet but its
\* own has that suffix, and its own is not over.
LEMMA FileHolds == ASSUME IInv, OpenFile \/ WriteFile PROVE IInv'
  <1>1. SageType /\ NotAhead
    BY DEF IInv
  <1>2. worker \in Job /\ worker.sheet \in Sheets /\ worker.index \in Nat
    BY <1>1 DEF SageType, NoSheet, OpenFile, WriteFile, At, Job
  <1> DEFINE mine == worker.sheet
  <1>3. PICK x \in Files : file' = [file EXCEPT ![suffix[mine]] = x]
                        /\ (WriteFile => x \in Import /\ x.sheet = mine)
    BY <1>2 DEF OpenFile, WriteFile, Files, Import
  <1>4. /\ worker' \in Job /\ worker'.sheet = mine /\ worker'.key = worker.key
        /\ worker'.pc \in Written => WriteFile
        /\ worker.pc \notin Written
    BY <1>2 DEF Job, Generating, Written, OpenFile, WriteFile, At, Goto
  <1>5. UNCHANGED <<suffix, state, left, cache, export, outbox, buffer, sent, faults, bridgeVars>>
    BY DEF OpenFile, WriteFile
  <1>6. SageType'
    BY <1>1, <1>2, <1>3, <1>4, <1>5 DEF SageType, bridgeVars
  <1>7. NotAhead'
    BY <1>1, <1>2, <1>4, <1>5, KindsDiffer DEF NotAhead, FreshIndex
  <1>8. RetriesArePaid' /\ NeverSilent' /\ ReadForHead'
    BY <1>5 DEF IInv, RetriesArePaid, NeverSilent, ReadForHead, Answered, GivenUp, bridgeVars
  <1>9. OwnFromThere'
    <2> SUFFICES ASSUME NEW s \in Sheets, Undisturbed(s)
                 PROVE  /\ worker' # NoSheet /\ worker'.sheet = s /\ worker'.pc \in Written =>
                              file'[suffix[s]] \in Import /\ file'[suffix[s]].sheet = s
                        /\ \A n \in DOMAIN outbox :
                              outbox[n].sheet = s /\ outbox[n].kind = "document" =>
                                Over(s) /\ file'[suffix[s]] \in Import /\ file'[suffix[s]].sheet = s
                        /\ buffer # Absent /\ outbox # <<>> /\ Head(outbox).sheet = s =>
                              buffer \in Import /\ buffer.sheet = s
      BY <1>5 DEF OwnFromThere, Undisturbed, Alone, Over
    <2>1. CASE s = mine
      <3>1. ~Over(s)
        BY <1>1, <1>2, <2>1, KindsDiffer DEF NotAhead, Over
      <3>2. WriteFile => file'[suffix[s]] = x
        BY <1>1, <1>3, <2>1 DEF SageType, bridgeVars
      <3> QED
        BY <1>3, <1>4, <2>1, <3>1, <3>2 DEF IInv, OwnFromThere
    <2>2. CASE s # mine
      <3>1. file'[suffix[s]] = file[suffix[s]]
        BY <1>1, <1>2, <1>3, <2>2 DEF SageType, Undisturbed, Alone
      <3> QED
        BY <1>4, <2>2, <3>1 DEF IInv, OwnFromThere
    <2> QED
      BY <2>1, <2>2
  <1>10. AloneGetsOwnFile'
    BY <1>5 DEF IInv, AloneGetsOwnFile, Documents, Alone, IsOwn
  <1> QED
    BY <1>6, <1>7, <1>8, <1>9, <1>10 DEF IInv

\* Whatever is raised turns into an answer in words, which brings no file.
LEMMA GenerateFailsHolds == ASSUME IInv, GenerateFails PROVE IInv'
  <1> USE DEF GenerateFails
  <1>1. SageType /\ NotAhead
    BY DEF IInv
  <1>2. worker \in Job
    BY <1>1 DEF SageType, NoSheet, Generating
  <1>3. /\ worker' \in Job /\ worker'.sheet = worker.sheet /\ worker'.key = worker.key
        /\ worker'.pc \notin Written
    BY <1>2 DEF Job, Written, Goto
  <1>4. SageType'
    BY <1>1, <1>3 DEF SageType, bridgeVars
  <1>5. NotAhead'
    BY <1>1, <1>2, <1>3, KindsDiffer DEF NotAhead, FreshIndex
  <1>6. RetriesArePaid' /\ NeverSilent' /\ ReadForHead'
    BY DEF IInv, RetriesArePaid, NeverSilent, ReadForHead, Answered, GivenUp, bridgeVars
  <1>7. OwnFromThere'
    BY <1>3 DEF IInv, OwnFromThere, Undisturbed, Alone, Over
  <1>8. AloneGetsOwnFile'
    BY DEF IInv, AloneGetsOwnFile, Documents, Alone, IsOwn
  <1> QED
    BY <1>4, <1>5, <1>6, <1>7, <1>8 DEF IInv

\* A job that ends may leave an answer in the queue.  If that is a document of an
\* undisturbed sheet, its file is written and its job is over.
LEMMA EndsHolds == ASSUME IInv, Post \/ PostFails \/ QuotaRefuses PROVE IInv'
  <1> DEFINE mine == worker.sheet
  <1>1. SageType /\ NotAhead
    BY DEF IInv
  <1>2. worker \in Job /\ mine \in Sheets /\ worker.caption \in Nat
    BY <1>1 DEF SageType, NoSheet, Job, Post, PostFails, QuotaRefuses
  <1>3. /\ worker' = NoSheet
        /\ UNCHANGED <<suffix, cache, export, file, buffer, sent, bridgeVars>>
        /\ outbox' \in {outbox, Append(outbox, Answer)}
        /\ faults' \in {faults, faults + 1}
    BY DEF Post, PostFails, QuotaRefuses
  <1>4. /\ Answer \in Answers /\ Answer.sheet = mine
        /\ Answer.kind = "document" => worker.pc = "postFile"
    BY <1>2 DEF Answer, Answers, At, Post, PostFails, QuotaRefuses
  <1>5. PICK e \in {"waiting", "done", "dead", "rate_limited"} :
           /\ state' = [state EXCEPT ![mine] = e]
           /\ \/ e \in {"done", "rate_limited"} /\ faults' = faults /\ left' = left
                 /\ (e = "done" => outbox' = Append(outbox, Answer))
                 /\ (e = "rate_limited" => outbox' = outbox)
              \/ e = "dead" /\ faults' = faults + 1 /\ left[mine] = 0 /\ left' = left
              \/ e = "waiting" /\ faults' = faults + 1 /\ left[mine] # 0
                 /\ left' = [left EXCEPT ![mine] = @ - 1]
    BY DEF Post, PostFails, QuotaRefuses
  <1>6. state[mine] = "running"
    BY <1>1, <1>2, KindsDiffer DEF NotAhead
  <1>7. left' \in [Sheets -> 0 .. MaxRetries]
    <2>1. left \in [Sheets -> 0 .. MaxRetries] /\ left[mine] \in 0 .. MaxRetries
      BY <1>1, <1>2 DEF SageType, bridgeVars
    <2>2. left[mine] # 0 => left[mine] - 1 \in 0 .. MaxRetries
      BY <2>1, SageAssumption
    <2>3. left' = left \/ (left[mine] # 0 /\ left' = [left EXCEPT ![mine] = left[mine] - 1])
      BY <1>5
    <2> QED
      BY <1>2, <2>1, <2>2, <2>3
  <1>8. outbox \in Seq(Answers) /\ outbox' \in Seq(Answers)
    <2>1. outbox \in Seq(Answers)
      BY <1>1 DEF SageType, bridgeVars
    <2>2. Append(outbox, Answer) \in Seq(Answers)
      BY <1>4, <2>1, AppendProperties
    <2> QED
      BY <1>3, <2>1, <2>2
  <1>9. SageType'
    <2>1. state' \in [Sheets -> {"waiting", "running", "done", "dead", "rate_limited"}]
      BY <1>1, <1>2, <1>5 DEF SageType, bridgeVars
    <2>2. faults' \in Nat
      BY <1>1, <1>3 DEF SageType, bridgeVars
    <2>3. worker' = NoSheet /\ UNCHANGED <<suffix, cache, export, file, buffer, sent, bridgeVars>>
      BY <1>3
    <2> QED
      BY <1>1, <1>7, <1>8, <2>1, <2>2, <2>3 DEF SageType, bridgeVars
  <1>10. NotAhead'
    BY <1>1, <1>3 DEF NotAhead, FreshIndex
  <1>11. RetriesArePaid'
    BY <1>1, <1>2, <1>5, SageAssumption DEF IInv, SageType, RetriesArePaid
  <1> DEFINE longer == Append(outbox, Answer)
  <1>12. /\ longer # <<>> /\ (outbox # <<>> => Head(longer) = Head(outbox))
         /\ \A n \in DOMAIN longer : (n \in DOMAIN outbox /\ longer[n] = outbox[n]) \/ longer[n] = Answer
         /\ \A n \in DOMAIN outbox : n \in DOMAIN longer /\ longer[n] = outbox[n]
         /\ \E n \in DOMAIN longer : longer[n] = Answer
    BY <1>4, <1>8, Appended
  <1> HIDE DEF longer
  <1>13. outbox' = outbox \/ outbox' = longer
    BY <1>3 DEF longer
  <1>14. \A n \in DOMAIN outbox : n \in DOMAIN outbox' /\ outbox'[n] = outbox[n]
    BY <1>12, <1>13
  <1>15. \A n \in DOMAIN outbox' :
            \/ n \in DOMAIN outbox /\ outbox'[n] = outbox[n]
            \/ outbox' = longer /\ outbox'[n] = Answer
    BY <1>12, <1>13
  <1>16. outbox # <<>> => outbox' # <<>> /\ Head(outbox') = Head(outbox)
    BY <1>12, <1>13
  <1>17. NeverSilent'
    <2>1. ASSUME NEW s \in Sheets, state'[s] = "done" PROVE Answered(s)' \/ GivenUp(s)'
      <3>1. CASE s = mine
        <4>1. outbox' = longer
          BY <1>1, <1>2, <1>5, <2>1, <3>1 DEF SageType, longer
        <4>2. \E n \in DOMAIN outbox' : outbox'[n] = Answer
          BY <1>12, <4>1
        <4> QED
          BY <1>4, <3>1, <4>2 DEF Answered
      <3>2. CASE s # mine
        <4>1. Answered(s) \/ GivenUp(s)
          BY <1>1, <1>5, <2>1, <3>2 DEF SageType, IInv, NeverSilent
        <4> QED
          BY <1>3, <1>14, <4>1 DEF Answered, GivenUp, bridgeVars
      <3> QED
        BY <3>1, <3>2
    <2> QED
      BY <1>11, <2>1 DEF NeverSilent, RetriesArePaid
  <1>18. ReadForHead'
    BY <1>3, <1>16 DEF IInv, ReadForHead
  <1>19. OwnFromThere'
    <2> SUFFICES ASSUME NEW s \in Sheets, Undisturbed(s)'
                 PROVE  /\ \A n \in DOMAIN outbox' :
                              outbox'[n].sheet = s /\ outbox'[n].kind = "document" =>
                                Over(s)' /\ file[suffix[s]] \in Import /\ file[suffix[s]].sheet = s
                        /\ buffer # Absent /\ outbox' # <<>> /\ Head(outbox').sheet = s =>
                              buffer \in Import /\ buffer.sheet = s
      BY <1>3 DEF OwnFromThere
    <2>1. /\ Undisturbed(s)
          /\ s = mine => state'[s] # "waiting"
      BY <1>1, <1>2, <1>3, <1>5, SageAssumption DEF SageType, Undisturbed, Alone
    <2>2. Over(s) => Over(s)'
      BY <1>1, <1>2, <1>5, <1>6 DEF SageType, Over
    <2>3. ASSUME NEW n \in DOMAIN outbox', outbox'[n].sheet = s, outbox'[n].kind = "document"
          PROVE  Over(s)' /\ file[suffix[s]] \in Import /\ file[suffix[s]].sheet = s
      <3>1. CASE n \in DOMAIN outbox /\ outbox'[n] = outbox[n]
        BY <2>1, <2>2, <2>3, <3>1 DEF IInv, OwnFromThere
      <3>2. CASE outbox' = longer /\ outbox'[n] = Answer
        <4>1. s = mine /\ worker.pc \in Written /\ worker # NoSheet
          BY <1>2, <1>4, <2>3, <3>2, KindsDiffer DEF Written
        <4>2. file[suffix[s]] \in Import /\ file[suffix[s]].sheet = s
          BY <2>1, <4>1 DEF IInv, OwnFromThere
        <4>3. outbox' # outbox
          BY <1>4, <1>8, <3>2, AppendProperties DEF longer
        <4>4. Over(s)'
          BY <1>1, <1>2, <1>5, <2>1, <4>1, <4>3 DEF SageType, Over
        <4> QED
          BY <4>2, <4>4
      <3> QED
        BY <1>15, <3>1, <3>2
    <2>4. ASSUME buffer # Absent, Head(outbox').sheet = s
          PROVE  buffer \in Import /\ buffer.sheet = s
      BY <1>16, <2>1, <2>4 DEF IInv, ReadForHead, OwnFromThere
    <2> QED
      BY <2>3, <2>4
  <1>20. \A s \in Sheets : left'[s] = MaxRetries => left[s] = MaxRetries
    BY <1>1, <1>2, <1>5, SageAssumption DEF SageType, bridgeVars
  <1>21. AloneGetsOwnFile'
    <2>1. \A d \in Documents : d.answer.sheet \in Sheets
      BY <1>1 DEF SageType, Documents, Answers
    <2>2. \A s : Alone(s)' <=> Alone(s)
      BY <1>3 DEF Alone
    <2> QED
      BY <1>3, <1>20, <2>1, <2>2 DEF IInv, AloneGetsOwnFile, Documents, IsOwn
  <1> QED
    BY <1>9, <1>10, <1>11, <1>17, <1>18, <1>19, <1>21 DEF IInv

\* A replaced export is newer than all that was read of it.
LEMMA ReplaceExportHolds == ASSUME IInv, ReplaceExport PROVE IInv'
  <1> USE DEF ReplaceExport
  <1>1. SageType'
    BY DEF IInv, SageType, bridgeVars
  <1>2. NotAhead'
    <2>1. cache.key \in Nat /\ export \in Nat /\ (worker # NoSheet => worker \in Job)
      BY DEF IInv, SageType, bridgeVars
    <2> QED
      BY <2>1 DEF IInv, NotAhead, FreshIndex, Job
  <1>3. RetriesArePaid' /\ NeverSilent' /\ ReadForHead'
    BY DEF IInv, RetriesArePaid, NeverSilent, ReadForHead, Answered, GivenUp, bridgeVars
  <1>4. OwnFromThere' /\ AloneGetsOwnFile'
    BY DEF IInv, OwnFromThere, Undisturbed, Alone, Over, AloneGetsOwnFile, Documents, IsOwn
  <1> QED
    BY <1>1, <1>2, <1>3, <1>4 DEF IInv

\* The bridge reads the file of the head of its queue.
LEMMA ReadHolds == ASSUME IInv, ReadDocument PROVE IInv'
  <1>1. SageType
    BY DEF IInv
  <1>2. UNCHANGED <<suffix, state, left, worker, cache, export, file, outbox, sent, faults, bridgeVars>>
    BY DEF ReadDocument
  <1>3. /\ outbox # <<>> /\ Head(outbox).kind = "document"
        /\ buffer' = file[suffix[Head(outbox).sheet]]
    BY DEF ReadDocument
  <1>4. outbox # <<>> => Head(outbox) \in Answers /\ 1 \in DOMAIN outbox /\ outbox[1] = Head(outbox)
    BY <1>1, Removed DEF SageType, bridgeVars
  <1>5. buffer' \in Files
    <2>1. outbox # <<>> => Head(outbox).sheet \in Sheets
      BY <1>4 DEF Answers
    <2> QED
      BY <1>1, <1>3, <2>1 DEF SageType, bridgeVars
  <1>6. SageType'
    BY <1>1, <1>2, <1>5 DEF SageType, bridgeVars
  <1>7. NotAhead' /\ RetriesArePaid' /\ NeverSilent'
    BY <1>2 DEF IInv, NotAhead, FreshIndex, RetriesArePaid, NeverSilent, Answered, GivenUp, bridgeVars
  <1>8. ReadForHead'
    BY <1>2, <1>3 DEF ReadForHead
  <1>9. OwnFromThere'
    <2>1. ASSUME NEW s \in Sheets, Undisturbed(s), buffer' # Absent, Head(outbox).sheet = s
          PROVE  buffer' \in Import /\ buffer'.sheet = s
      BY <1>3, <1>4, <2>1 DEF IInv, OwnFromThere
    <2> QED
      BY <1>2, <2>1 DEF IInv, OwnFromThere, Undisturbed, Alone, Over
  <1>10. AloneGetsOwnFile'
    BY <1>2 DEF IInv, AloneGetsOwnFile, Documents, Alone, IsOwn
  <1> QED
    BY <1>6, <1>7, <1>8, <1>9, <1>10 DEF IInv

\* WhatsApp takes the head of the queue, with what was read for it, or the try fails;
\* in the end the head leaves the queue, sent or given up.
LEMMA DeliverHolds == ASSUME IInv, Deliver \/ DeliveryFails PROVE IInv'
  <1>1. SageType
    BY DEF IInv
  <1>2. UNCHANGED <<suffix, state, left, worker, cache, export, file, faults>>
    BY DEF Deliver, DeliveryFails, GiveUp
  <1> DEFINE new == [answer |-> Head(outbox), document |-> buffer]
  <1> DEFINE lost  == \E d \in dropped' : d.sheet = Head(outbox).sheet /\ d.tries >= MaxAttempts
             taken == sent' = sent \cup {new} /\ (Head(outbox).kind = "text" \/ buffer # Absent)
  <1>3. /\ outbox # <<>> /\ outbox' \in {outbox, Tail(outbox)} /\ buffer' = Absent
        /\ taken \/ sent' = sent
        /\ tries' \in {0, tries + 1}
        /\ dropped \subseteq dropped'
        /\ outbox' # outbox => taken \/ lost
    <2>1. CASE Deliver
      BY <2>1 DEF Deliver, WhatsAppTakes, TakeOff
    <2>2. CASE DeliveryFails /\ tries + 1 < MaxAttempts
      BY <2>2 DEF DeliveryFails, WhatsAppTakes
    <2>3. CASE DeliveryFails /\ ~(tries + 1 < MaxAttempts)
      <3>1. GiveUp /\ outbox # <<>> /\ (taken \/ sent' = sent) /\ tries + 1 >= MaxAttempts
        BY <2>3, SageAssumption DEF IInv, SageType, DeliveryFails, WhatsAppTakes
      <3>2. [sheet |-> Head(outbox).sheet, tries |-> tries + 1] \in dropped'
        BY <3>1 DEF GiveUp
      <3>3. lost
        BY <3>1, <3>2
      <3> QED
        BY <3>1, <3>3 DEF GiveUp, TakeOff
    <2> QED
      BY <2>1, <2>2, <2>3
  <1> HIDE DEF taken
  <1>4. /\ outbox' \in Seq(Answers) /\ Head(outbox) \in Answers
        /\ 1 \in DOMAIN outbox /\ outbox[1] = Head(outbox)
        /\ \A n \in DOMAIN outbox' : \E k \in DOMAIN outbox : outbox'[n] = outbox[k]
        /\ \A n \in DOMAIN outbox :
              (n = 1 /\ outbox' # outbox) \/ \E k \in DOMAIN outbox' : outbox'[k] = outbox[n]
    <2>1. outbox \in Seq(Answers) /\ outbox # <<>>
      BY <1>1, <1>3 DEF SageType
    <2>2. CASE outbox' = Tail(outbox)
      BY <2>1, <2>2, Removed
    <2>3. CASE outbox' = outbox
      BY <2>1, <2>3, Removed
    <2> QED
      BY <1>3, <2>2, <2>3
  <1>5. SageType'
    <2>1. Absent \in Files /\ new \in [answer : Answers, document : Files]
      BY <1>1, <1>4 DEF SageType, Files
    <2>2. tries' \in Nat /\ sent' \subseteq sent \cup {new}
      BY <1>1, <1>3 DEF SageType, taken
    <2> QED
      BY <1>1, <1>2, <1>3, <1>4, <2>1, <2>2 DEF SageType
  <1>6. NotAhead' /\ RetriesArePaid' /\ ReadForHead'
    BY <1>2, <1>3 DEF IInv, NotAhead, FreshIndex, RetriesArePaid, ReadForHead
  <1>7. NeverSilent'
    <2>1. ASSUME NEW s \in Sheets, Answered(s) \/ GivenUp(s) PROVE Answered(s)' \/ GivenUp(s)'
      <3>1. CASE GivenUp(s)
        BY <1>3, <3>1 DEF GivenUp
      <3>2. CASE \E d \in sent : d.answer.sheet = s
        BY <1>3, <3>2 DEF Answered, taken
      <3>3. CASE \E n \in DOMAIN outbox : outbox[n].sheet = s
        <4>1. PICK n \in DOMAIN outbox : outbox[n].sheet = s
          BY <3>3
        <4>2. CASE n = 1 /\ outbox' # outbox
          <5>1. new.answer.sheet = s /\ Head(outbox).sheet = s
            BY <1>4, <4>1, <4>2
          <5>2. CASE taken
            BY <5>1, <5>2 DEF Answered, taken
          <5>3. CASE lost
            BY <5>1, <5>3 DEF GivenUp
          <5> QED
            BY <1>3, <4>2, <5>2, <5>3
        <4>3. CASE \E k \in DOMAIN outbox' : outbox'[k] = outbox[n]
          BY <4>1, <4>3 DEF Answered
        <4> QED
          BY <1>4, <4>2, <4>3
      <3> QED
        BY <2>1, <3>1, <3>2, <3>3 DEF Answered
    <2> QED
      BY <1>2, <2>1 DEF IInv, NeverSilent
  <1>8. OwnFromThere'
    <2> SUFFICES ASSUME NEW s \in Sheets, Undisturbed(s), NEW n \in DOMAIN outbox',
                        outbox'[n].sheet = s, outbox'[n].kind = "document"
                 PROVE  Over(s) /\ file[suffix[s]] \in Import /\ file[suffix[s]].sheet = s
      BY <1>2, <1>3 DEF IInv, OwnFromThere, Undisturbed, Alone, Over
    <2>1. PICK k \in DOMAIN outbox : outbox'[n] = outbox[k]
      BY <1>4
    <2> QED
      BY <2>1 DEF IInv, OwnFromThere
  <1>9. AloneGetsOwnFile'
    <2> SUFFICES ASSUME NEW d \in sent', d.answer.kind = "document",
                        Alone(d.answer.sheet), left[d.answer.sheet] = MaxRetries
                 PROVE  d.document \notin {Absent, Torn} /\ d.document.sheet = d.answer.sheet
      BY <1>2 DEF AloneGetsOwnFile, Documents, Alone, IsOwn
    <2>1. CASE d \in sent
      BY <2>1 DEF IInv, AloneGetsOwnFile, Documents, IsOwn
    <2>2. CASE d = new /\ taken
      <3>1. Head(outbox).sheet \in Sheets /\ Undisturbed(Head(outbox).sheet)
        BY <1>4, <2>2 DEF Answers, Undisturbed
      <3>2. buffer # Absent
        BY <2>2 DEF taken
      <3>3. buffer \in Import /\ buffer.sheet = Head(outbox).sheet
        BY <1>3, <3>1, <3>2 DEF IInv, OwnFromThere
      <3> QED
        BY <2>2, <3>3, KindsDiffer
    <2> QED
      BY <1>3, <2>1, <2>2 DEF taken
  <1> QED
    BY <1>5, <1>6, <1>7, <1>8, <1>9 DEF IInv

\* Every step keeps the invariant, and so does one that changes nothing.
LEMMA NextHolds == IInv /\ [Next]_vars => IInv'
  <1> SUFFICES ASSUME IInv, [Next]_vars PROVE IInv'
    OBVIOUS
  <1>1. CASE Next
    BY <1>1, TakeJobHolds, IndexHolds, FileHolds, GenerateFailsHolds, EndsHolds,
       ReplaceExportHolds, ReadHolds, DeliverHolds DEF Next, Generate
  <1>2. CASE UNCHANGED vars
    <2>1. SageType' /\ NotAhead' /\ RetriesArePaid'
      BY <1>2 DEF vars, bridgeVars, IInv, SageType, NotAhead, FreshIndex, RetriesArePaid
    <2>2. NeverSilent' /\ ReadForHead'
      BY <1>2 DEF vars, bridgeVars, IInv, NeverSilent, ReadForHead, Answered, GivenUp, bridgeVars
    <2>3. OwnFromThere' /\ AloneGetsOwnFile'
      BY <1>2 DEF vars, bridgeVars, IInv, OwnFromThere, Undisturbed, Alone, Over, AloneGetsOwnFile,
                  Documents, IsOwn
    <2> QED
      BY <2>1, <2>2, <2>3 DEF IInv
  <1> QED
    BY <1>1, <1>2
-----------------------------------------------------------------------------
(* The theorems *)

\* Where each answer is and what its file holds, in every reachable state.
THEOREM SageInvariantHolds == Spec => []IInv
  BY InitHolds, NextHolds, PTL DEF Spec

\* An index is never taken for that of a newer export (service.py, _index_key).
THEOREM FreshIndexHolds == Spec => []FreshIndex
  <1>1. IInv => FreshIndex
    BY DEF IInv, NotAhead
  <1> QED
    BY <1>1, SageInvariantHolds, PTL

\* The sender gets an answer whatever the generator raises, but for the quota and more
\* refusals than retries, or an answer the bridge gave up after maxAttempts failed
\* deliveries (sage_import.py, outbox.js).
THEOREM NeverSilentHolds == Spec => []NeverSilent
  <1>1. IInv => NeverSilent
    BY DEF IInv
  <1> QED
    BY <1>1, SageInvariantHolds, PTL

\* A sender whose order is alone with its three digits, and whose job ran once, gets
\* the import file of that order, and all of it (sage_import.py, sage/service.py).
THEOREM AloneGetsOwnFileHolds == Spec => []AloneGetsOwnFile
  <1>1. IInv => AloneGetsOwnFile
    BY DEF IInv
  <1> QED
    BY <1>1, SageInvariantHolds, PTL
=============================================================================
