---------------------------- MODULE SendingProofs ----------------------------
(***************************************************************************)
(* What holds of the sends of a job for every number of lines, quota, cap, *)
(* number of runs, time-outs, refusals and lost callbacks.                 *)
(***************************************************************************)
EXTENDS Sending, TLAPS

-----------------------------------------------------------------------------
(* The inductive invariant *)

Steps == {"quota", "granted", "refused", "posting", "broken", "raised", "done", "dead"}

SendingType ==
    /\ lines \in 1 .. MaxLines /\ pc \in Steps
    /\ attempt \in 1 .. Attempts /\ pos \in 1 .. Receipt
    /\ tokens \in 0 .. PerMinute /\ today \in 0 .. PerDay /\ fresh \in BOOLEAN
    /\ row \in [Outs -> {"none", "queued", "rate_limited", "sent", "failed"}]
    /\ bridge \in [Outs -> {"none", "held", "sent", "failed"}]
    /\ callback \in [Outs -> {"none", "due", "done", "lost"}]
    /\ claimed \in [1 .. Attempts -> SUBSET Nat]
    /\ bounds \in [timeouts : Nat, refusals : Nat, callbacks : Nat]

Behind(a, p) == a < attempt \/ (a = attempt /\ p < pos)

\* The bridge has only what the job has posted: of the messages behind the job, and
\* of the one it is at once it posts.
PostedOnly ==
    \A a \in 1 .. Attempts, p \in 1 .. Lesser(MaxLines, EffectiveCap) + 1 :
        bridge[<<a, p>>] # "none" =>
            \/ Behind(a, p)
            \/ a = attempt /\ p = pos /\ pc \notin {"quota", "granted", "refused"}

\* A message the bridge has is in the ledger: its row is written before the call.
RowFirst ==
    /\ \A o \in Outs : bridge[o] # "none" => row[o] # "none"
    /\ pc = "posting" => row[Out] # "none"
    /\ pc = "broken" => bounds.refusals > 0

\* A callback comes of a message that is settled, and its row agrees unless a call
\* whose answer came too late wrote over it.
CallbacksAgree ==
    \A o \in Outs :
        /\ callback[o] # "none" => bridge[o] \in Outcomes
        /\ callback[o] = "done" =>
              row[o] = bridge[o] \/ (row[o] = "failed" /\ bounds.refusals > 0)

Wrong(o) == callback[o] = "done" /\ row[o] # bridge[o]

\* A row is wrong only where its run stopped.
OneRowIsWrong ==
    /\ \A a \in 1 .. Attempts : \A o, q \in Outs :
          o[1] = a /\ q[1] = a /\ Wrong(o) /\ Wrong(q) => o = q
    /\ \A o \in Outs : Wrong(o) =>
          o[1] < attempt \/ (o = Out /\ pc \in {"raised", "dead"})

Reached(p) == p < pos \/ (pc = "done" /\ p = pos)

\* The entries behind the job were handed over or refused with a row.
NothingSkipped ==
    /\ pc = "done" => pos = Receipt
    /\ \A p \in Targets : Reached(p) =>
          bridge[<<attempt, p>>] # "none" \/ row[<<attempt, p>>] = "rate_limited"

\* The receipt will list the entries behind the job, and later runs begin with none.
ListsWhatIsBehind ==
    /\ claimed[attempt] = 1 .. pos - 1
    /\ \A a \in 1 .. Attempts : a > attempt => claimed[a] = {}

\* A run that began a full minute has spent at most one token, of the minute and of the
\* day, for each send so far.
TokensSuffice ==
    fresh /\ PerMinute > 1 =>
        /\ tokens + pos >= PerMinute + (IF pc = "quota" THEN 1 ELSE 0)
        /\ today + pos >= Receipt + (IF pc = "quota" THEN 1 ELSE 0)
        /\ pc # "refused"
        /\ \A p \in Targets : Reached(p) => bridge[<<attempt, p>>] # "none"

IInv ==
    /\ SendingType /\ PostedOnly /\ RowFirst /\ CallbacksAgree /\ OneRowIsWrong
    /\ NothingSkipped /\ ListsWhatIsBehind /\ TokensSuffice
-----------------------------------------------------------------------------
(* The positions of a job *)

\* A batch that is sent fits in the cap, which leaves a token for the receipt, and its
\* receipt has a place in the ledger.
LEMMA BatchFits ==
    ASSUME lines \in 1 .. MaxLines
    PROVE  /\ Entries \in Nat /\ Receipt \in Nat \ {0} /\ Receipt = Entries + 1
           /\ Lesser(MaxLines, EffectiveCap) + 1 \in Nat
           /\ Receipt <= Lesser(MaxLines, EffectiveCap) + 1
           /\ PerMinute > 1 => Receipt <= PerMinute
           /\ Targets \subseteq 1 .. Receipt
           /\ Receipt \in Targets
           /\ PerMinute \in Nat \ {0} /\ PerDay \in Nat \ {0}
  <1>1. /\ MaxLines \in Nat /\ MaxRecipients \in Nat
        /\ PerMinute \in Nat \ {0} /\ PerDay \in Nat \ {0}
    BY SendingAssumption
  <1> QED
    BY <1>1, SendingAssumption DEF Entries, Receipt, EffectiveCap, Lesser, Greater, Targets

\* The message the job is at is one of the messages, and no other has its place.
LEMMA OutIsOne ==
    ASSUME SendingType
    PROVE  /\ Out \in Outs
           /\ \A a \in 1 .. Attempts, p \in 1 .. Lesser(MaxLines, EffectiveCap) + 1 :
                 /\ <<a, p>> \in Outs
                 /\ <<a, p>> = Out <=> a = attempt /\ p = pos
  <1>1. /\ attempt \in 1 .. Attempts /\ pos \in 1 .. Receipt
        /\ lines \in 1 .. MaxLines
    BY DEF SendingType
  <1>2. pos \in 1 .. Lesser(MaxLines, EffectiveCap) + 1
    BY <1>1, BatchFits
  <1> QED
    BY <1>1, <1>2 DEF Out, Outs

\* While the lines stay, so do the positions of the batch.
LEMMA SameBatch ==
    ASSUME lines' = lines
    PROVE  Entries' = Entries /\ Receipt' = Receipt /\ Targets' = Targets
  BY DEF Entries, Receipt, Targets

\* A step that makes no row wrong leaves the wrong ones where their runs stopped.
LEMMA WrongStays ==
    ASSUME OneRowIsWrong, attempt \in Nat,
           \A o \in Outs : Wrong(o)' => Wrong(o),
           \/ UNCHANGED <<attempt, pos>> /\ (pc \in {"raised", "dead"} => pc' \in {"raised", "dead"})
           \/ attempt' = attempt /\ pc \notin {"raised", "dead"}
           \/ attempt' = attempt + 1
    PROVE  OneRowIsWrong'
  <1>1. \A o \in Outs : o[1] \in Nat
    BY DEF Outs
  <1>2. \A o \in Outs : Wrong(o) => o[1] < attempt \/ (o = Out /\ pc \in {"raised", "dead"})
    BY DEF OneRowIsWrong
  <1>3. Outs' = Outs
    BY DEF Outs
  <1>4. Out[1] = attempt /\ (UNCHANGED <<attempt, pos>> => Out' = Out)
    BY DEF Out
  <1>5. \A o \in Outs : Wrong(o)' => o[1] < attempt' \/ (o = Out' /\ pc' \in {"raised", "dead"})
    BY <1>1, <1>2, <1>4
  <1>6. \A a \in 1 .. Attempts : \A o, q \in Outs :
           o[1] = a /\ q[1] = a /\ Wrong(o)' /\ Wrong(q)' => o = q
    BY DEF OneRowIsWrong
  <1> QED
    BY <1>5, <1>6 DEF OneRowIsWrong

-----------------------------------------------------------------------------
(* Each step keeps the invariant *)

\* The job starts in its invariant.
LEMMA InitHolds == Init => IInv
  <1> SUFFICES ASSUME Init PROVE IInv
    OBVIOUS
  <1> USE SendingAssumption DEF Init
  <1>1. lines \in 1 .. MaxLines /\ Entries \in Nat /\ Receipt = Entries + 1 /\ pos = 1
    BY BatchFits DEF Receipt
  <1>2. tokens \in 0 .. PerMinute /\ today \in 0 .. PerDay /\ fresh \in BOOLEAN
    BY Zenon DEF QuotaIsFound
  <1>3. fresh => tokens = PerMinute /\ today >= Receipt
    BY Zenon DEF QuotaIsFound
  <1>4. SendingType
    BY <1>1, <1>2 DEF SendingType, Steps
  <1>5. PostedOnly /\ RowFirst /\ CallbacksAgree /\ OneRowIsWrong
    BY <1>1 DEF PostedOnly, RowFirst, CallbacksAgree, OneRowIsWrong, Wrong, Outs
  <1>6. ListsWhatIsBehind
    BY <1>1 DEF ListsWhatIsBehind
  <1>7. \A p \in Targets : ~Reached(p)
    BY <1>1, BatchFits DEF Reached
  <1>8. NothingSkipped
    BY <1>7 DEF NothingSkipped
  <1>9. TokensSuffice
    BY <1>1, <1>7, <1>2, <1>3, BatchFits DEF TokensSuffice
  <1> QED
    BY <1>4, <1>5, <1>6, <1>8, <1>9 DEF IInv

\* A step that takes the quota, or refuses.
LEMMA CheckQuotaHolds == IInv /\ CheckQuota => IInv'
  <1> SUFFICES ASSUME IInv, CheckQuota PROVE IInv'
    OBVIOUS
  <1> USE DEF CheckQuota
  <1>1. Entries' = Entries /\ Receipt' = Receipt /\ Targets' = Targets
    BY SameBatch
  <1>2. SendingType /\ lines \in 1 .. MaxLines
    BY DEF IInv, SendingType
  <1>3. SendingType'
    <2>1. tokens' \in 0 .. PerMinute /\ today' \in 0 .. PerDay
      BY <1>2, SendingAssumption DEF SendingType
    <2> QED
      BY <1>1, <1>2, <2>1 DEF SendingType, Steps
  <1>4. PostedOnly'
    BY DEF IInv, PostedOnly, Behind
  <1>5. RowFirst' /\ CallbacksAgree'
    BY DEF IInv, RowFirst, CallbacksAgree
  <1>6. NothingSkipped'
    BY <1>1 DEF IInv, NothingSkipped, Reached
  <1>7. ListsWhatIsBehind'
    BY DEF IInv, ListsWhatIsBehind
  <1>8. TokensSuffice'
    <2>1. /\ pos \in Nat /\ tokens \in Nat /\ today \in Nat /\ pos <= Receipt
          /\ Receipt \in Nat /\ PerMinute \in Nat /\ (PerMinute > 1 => Receipt <= PerMinute)
      BY <1>2, BatchFits DEF SendingType
    <2>2. fresh /\ PerMinute > 1 => tokens > 0 /\ today > 0
      BY <2>1 DEF IInv, TokensSuffice
    <2> QED
      BY <1>1, <2>1, <2>2 DEF IInv, TokensSuffice, Reached
  <1>9. OneRowIsWrong'
    BY <1>2, WrongStays DEF IInv, SendingType, Wrong
  <1> QED
    BY <1>3, <1>4, <1>5, <1>6, <1>7, <1>8, <1>9 DEF IInv

\* A row that is written before the call, or the last word on a refused one.
LEMMA RecordQueuedHolds == IInv /\ RecordQueued => IInv'
  <1> SUFFICES ASSUME IInv, RecordQueued PROVE IInv'
    OBVIOUS
  <1> USE DEF RecordQueued
  <1>1. Entries' = Entries /\ Receipt' = Receipt /\ Targets' = Targets
    BY SameBatch
  <1>2. /\ SendingType /\ Out \in Outs /\ Out' = Out
        /\ \A a \in 1 .. Attempts, p \in 1 .. Lesser(MaxLines, EffectiveCap) + 1 :
              <<a, p>> \in Outs /\ (<<a, p>> = Out <=> a = attempt /\ p = pos)
    BY OutIsOne DEF IInv, Out
  <1>3. /\ lines \in 1 .. MaxLines /\ attempt \in 1 .. Attempts /\ pos \in 1 .. Receipt
        /\ pos \in 1 .. Lesser(MaxLines, EffectiveCap) + 1
    BY <1>2, BatchFits DEF SendingType
  <1>4. bridge[Out] = "none" /\ callback[Out] = "none"
    <2>1. bridge[<<attempt, pos>>] = "none"
      BY <1>3 DEF IInv, PostedOnly, Behind
    <2> QED
      BY <1>2, <2>1 DEF IInv, CallbacksAgree, Outcomes, Out
  <1>5. SendingType'
    BY <1>1, <1>2 DEF SendingType, Steps
  <1>6. PostedOnly'
    BY DEF IInv, PostedOnly, Behind
  <1>7. RowFirst' /\ CallbacksAgree'
    BY <1>2, <1>4 DEF IInv, SendingType, RowFirst, CallbacksAgree
  <1>8. NothingSkipped'
    <2>1. ASSUME NEW p \in Targets, Reached(p)' PROVE p < pos
      BY <2>1 DEF Reached
    <2>2. \A p \in Targets : p \in 1 .. Lesser(MaxLines, EffectiveCap) + 1
      BY <1>3, BatchFits
    <2> QED
      BY <1>1, <1>2, <1>3, <2>1, <2>2 DEF IInv, SendingType, NothingSkipped, Reached
  <1>9. ListsWhatIsBehind' /\ TokensSuffice'
    BY <1>1, <1>3 DEF IInv, SendingType, ListsWhatIsBehind, TokensSuffice, Reached
  <1>10. OneRowIsWrong'
    <2>1. \A o \in Outs : Wrong(o)' => Wrong(o)
      BY <1>2, <1>4 DEF SendingType, Wrong
    <2> QED
      BY <1>2, <1>3, <2>1, WrongStays DEF IInv
  <1> QED
    BY <1>5, <1>6, <1>7, <1>8, <1>9, <1>10 DEF IInv

\* A send that returns: the job goes on to the next entry, or is done.
LEMMA AdvanceHolds == IInv /\ (RecordRateLimited \/ PostAnswered) => IInv'
  <1> SUFFICES ASSUME IInv, RecordRateLimited \/ PostAnswered PROVE IInv'
    OBVIOUS
  <1> USE DEF RecordRateLimited, PostAnswered
  <1>1. Entries' = Entries /\ Receipt' = Receipt /\ Targets' = Targets
    BY SameBatch
  <1>2. /\ SendingType /\ Out \in Outs
        /\ \A a \in 1 .. Attempts, p \in 1 .. Lesser(MaxLines, EffectiveCap) + 1 :
              <<a, p>> \in Outs /\ (<<a, p>> = Out <=> a = attempt /\ p = pos)
    BY OutIsOne DEF IInv
  <1>3. /\ lines \in 1 .. MaxLines /\ attempt \in 1 .. Attempts /\ pos \in 1 .. Receipt
        /\ pos \in 1 .. Lesser(MaxLines, EffectiveCap) + 1 /\ Receipt \in Nat
        /\ Receipt = Entries + 1 /\ Entries \in Nat
    BY <1>2, BatchFits DEF SendingType
  <1>4. \/ /\ pc = "refused" /\ row' = [row EXCEPT ![Out] = "rate_limited"]
           /\ bridge[Out] = "none" /\ callback[Out] = "none"
        \/ pc = "posting" /\ row' = row /\ bridge[Out] # "none"
    <2>1. pc = "refused" => bridge[<<attempt, pos>>] = "none"
      BY <1>3 DEF IInv, PostedOnly, Behind
    <2> QED
      BY <1>2, <2>1 DEF IInv, CallbacksAgree, Outcomes, Out
  <1>5. /\ UNCHANGED <<lines, attempt, tokens, today, fresh, bridge, callback, bounds>>
        /\ \/ pos = Receipt /\ pc' = "done" /\ UNCHANGED <<pos, claimed>>
           \/ /\ pos # Receipt /\ pc' = "quota" /\ pos' = pos + 1
              /\ claimed' = [claimed EXCEPT ![attempt] = @ \cup {pos}]
    BY DEF Advance
  <1> HIDE DEF RecordRateLimited, PostAnswered
  <1>6. SendingType'
    BY <1>1, <1>2, <1>3, <1>4, <1>5 DEF SendingType, Steps
  <1>7. PostedOnly'
    BY <1>3, <1>4, <1>5 DEF IInv, PostedOnly, Behind
  <1>8. RowFirst' /\ CallbacksAgree'
    BY <1>2, <1>4, <1>5 DEF IInv, SendingType, RowFirst, CallbacksAgree
  <1>9. \A p \in Targets : Reached(p)' => p < pos \/ p = pos
    BY <1>3, <1>5, BatchFits DEF Reached
  <1>10. \A p \in Targets : p < pos => Reached(p)
    BY DEF Reached
  <1>11. \A p \in Targets : p \in 1 .. Lesser(MaxLines, EffectiveCap) + 1
    BY <1>3, BatchFits
  <1>12. NothingSkipped'
    <2>1. ASSUME NEW p \in Targets, Reached(p)'
          PROVE  bridge[<<attempt, p>>] # "none" \/ row'[<<attempt, p>>] = "rate_limited"
      <3>1. CASE p = pos
        BY <1>2, <1>4, <3>1 DEF SendingType, Out
      <3>2. CASE p < pos
        <4>1. bridge[<<attempt, p>>] # "none" \/ row[<<attempt, p>>] = "rate_limited"
          BY <1>10, <3>2 DEF IInv, NothingSkipped
        <4>2. <<attempt, p>> # Out /\ <<attempt, p>> \in Outs
          BY <1>2, <1>3, <1>11, <3>2
        <4> QED
          BY <1>2, <1>4, <4>1, <4>2 DEF SendingType
      <3> QED
        BY <1>9, <2>1, <3>1, <3>2
    <2> QED
      BY <1>1, <1>5, <2>1 DEF NothingSkipped
  <1>13. ListsWhatIsBehind'
    <2>1. CASE UNCHANGED <<pos, claimed>>
      BY <1>5, <2>1 DEF IInv, ListsWhatIsBehind
    <2>2. CASE pos' = pos + 1 /\ claimed' = [claimed EXCEPT ![attempt] = @ \cup {pos}]
      <3>1. 1 .. pos = (1 .. pos - 1) \cup {pos} /\ pos' - 1 = pos
        BY <1>3, <2>2
      <3>2. claimed'[attempt] = claimed[attempt] \cup {pos}
        BY <1>2, <1>3, <2>2 DEF SendingType
      <3>3. \A a \in 1 .. Attempts : a > attempt => claimed'[a] = claimed[a]
        BY <1>2, <1>3, <2>2 DEF SendingType
      <3> QED
        BY <1>5, <3>1, <3>2, <3>3 DEF IInv, ListsWhatIsBehind
    <2> QED
      BY <1>5, <2>1, <2>2
  <1>14. TokensSuffice'
    <2>1. ASSUME fresh, PerMinute > 1, NEW p \in Targets, Reached(p)'
          PROVE  bridge[<<attempt, p>>] # "none"
      BY <1>4, <1>9, <1>10, <2>1 DEF IInv, TokensSuffice, Out
    <2>2. fresh /\ PerMinute > 1 =>
             /\ tokens + pos' >= PerMinute + (IF pc' = "quota" THEN 1 ELSE 0)
             /\ today + pos' >= Receipt + (IF pc' = "quota" THEN 1 ELSE 0)
      <3>1. PerMinute \in Nat /\ tokens \in Nat /\ today \in Nat /\ pos \in Nat /\ Receipt \in Nat
        BY <1>2, <1>3, BatchFits DEF SendingType
      <3>2. CASE pos = Receipt
        BY <1>4, <1>5, <3>1, <3>2 DEF IInv, TokensSuffice
      <3>3. CASE pos # Receipt
        BY <1>4, <1>5, <3>1, <3>3 DEF IInv, TokensSuffice
      <3> QED
        BY <3>2, <3>3
    <2> QED
      BY <1>1, <1>5, <2>1, <2>2 DEF TokensSuffice
  <1>15. OneRowIsWrong'
    <2>1. \A o \in Outs : Wrong(o)' => Wrong(o)
      BY <1>2, <1>4, <1>5 DEF SendingType, Wrong
    <2> QED
      BY <1>3, <1>4, <1>5, <2>1, WrongStays DEF IInv
  <1> QED
    BY <1>6, <1>7, <1>8, <1>12, <1>13, <1>14, <1>15 DEF IInv

\* POST /send reaches the bridge: the row is there already.
LEMMA PostReachesBridgeHolds == IInv /\ PostReachesBridge => IInv'
  <1> SUFFICES ASSUME IInv, PostReachesBridge PROVE IInv'
    OBVIOUS
  <1> USE DEF PostReachesBridge
  <1>1. Entries' = Entries /\ Receipt' = Receipt /\ Targets' = Targets
    BY SameBatch
  <1>2. /\ SendingType /\ Out \in Outs /\ Out' = Out
        /\ \A a \in 1 .. Attempts, p \in 1 .. Lesser(MaxLines, EffectiveCap) + 1 :
              <<a, p>> \in Outs /\ (<<a, p>> = Out <=> a = attempt /\ p = pos)
    BY OutIsOne DEF IInv, Out
  <1>3. SendingType'
    BY <1>1, <1>2 DEF SendingType
  <1>4. PostedOnly'
    BY <1>2 DEF IInv, SendingType, PostedOnly, Behind
  <1>5. callback[Out] = "none"
    BY <1>2 DEF IInv, CallbacksAgree, Outcomes, SendingType
  <1>6. RowFirst' /\ CallbacksAgree'
    BY <1>2, <1>5 DEF IInv, SendingType, RowFirst, CallbacksAgree
  <1>7. \A o \in Outs : bridge[o] # "none" => bridge'[o] # "none"
    BY <1>2 DEF SendingType
  <1>8. \A p \in Targets : <<attempt, p>> \in Outs
    BY <1>2, BatchFits DEF SendingType
  <1>9. NothingSkipped' /\ TokensSuffice'
    BY <1>1, <1>7, <1>8 DEF IInv, NothingSkipped, TokensSuffice, Reached
  <1>10. ListsWhatIsBehind'
    BY DEF IInv, ListsWhatIsBehind
  <1>11. OneRowIsWrong'
    <2>1. \A o \in Outs : Wrong(o)' => Wrong(o)
      BY <1>2, <1>5 DEF SendingType, Wrong
    <2> QED
      BY <1>2, <2>1, WrongStays DEF IInv, SendingType
  <1> QED
    BY <1>3, <1>4, <1>6, <1>9, <1>10, <1>11 DEF IInv

\* A call that fails, or a run that is cut, leaves the ledger and the bridge alone.
LEMMA BreaksHolds == IInv /\ (PostFails \/ JobTimesOut) => IInv'
  <1> SUFFICES ASSUME IInv, PostFails \/ JobTimesOut PROVE IInv'
    OBVIOUS
  <1>1. /\ UNCHANGED <<lines, attempt, pos, tokens, today, fresh, row, bridge, callback, claimed>>
        /\ pc' \in {"broken", "raised"} /\ pc # "done"
        /\ pc \in {"quota", "granted", "refused"} => pc' = "raised"
        /\ bounds' \in [timeouts : Nat, refusals : Nat, callbacks : Nat]
        /\ bounds'.refusals >= bounds.refusals /\ bounds.refusals \in Nat
        /\ pc' = "broken" => bounds'.refusals > 0
    BY DEF IInv, SendingType, PostFails, JobTimesOut, Spend
  <1>2. Entries' = Entries /\ Receipt' = Receipt /\ Targets' = Targets
    BY <1>1, SameBatch
  <1>3. SendingType'
    BY <1>1, <1>2 DEF IInv, SendingType, Steps
  <1>4. PostedOnly'
    BY <1>1 DEF IInv, PostedOnly, Behind
  <1>5. RowFirst' /\ CallbacksAgree'
    <2>1. bounds.refusals > 0 => bounds'.refusals > 0
      BY <1>1, <1>3 DEF SendingType
    <2> QED
      BY <1>1, <2>1 DEF IInv, RowFirst, CallbacksAgree
  <1>6. NothingSkipped'
    BY <1>1, <1>2 DEF IInv, NothingSkipped, Reached
  <1>7. ListsWhatIsBehind'
    BY <1>1 DEF IInv, ListsWhatIsBehind
  <1>8. TokensSuffice'
    <2>1. pc' # "refused" /\ (pc = "quota" => pc' # "quota") /\ pc' # "quota" /\ pc' # "done"
      BY <1>1
    <2>2. tokens \in Nat /\ today \in Nat /\ pos \in Nat /\ Receipt \in Nat /\ PerMinute \in Nat
      BY BatchFits DEF IInv, SendingType
    <2> QED
      BY <1>1, <1>2, <2>1, <2>2 DEF IInv, TokensSuffice, Reached
  <1>9. OneRowIsWrong'
    <2>1. pc \notin {"raised", "dead"}
      BY DEF PostFails, JobTimesOut
    <2> QED
      BY <1>1, <2>1, WrongStays DEF IInv, SendingType, Wrong
  <1> QED
    BY <1>3, <1>4, <1>5, <1>6, <1>7, <1>8, <1>9 DEF IInv

\* The row of a call that failed, over whatever the callback has written.
LEMMA RecordFailedHolds == IInv /\ RecordFailed => IInv'
  <1> SUFFICES ASSUME IInv, RecordFailed PROVE IInv'
    OBVIOUS
  <1> USE DEF RecordFailed
  <1>1. Entries' = Entries /\ Receipt' = Receipt /\ Targets' = Targets
    BY SameBatch
  <1>2. /\ SendingType /\ Out \in Outs
        /\ \A a \in 1 .. Attempts, p \in 1 .. Lesser(MaxLines, EffectiveCap) + 1 :
              <<a, p>> \in Outs /\ (<<a, p>> = Out <=> a = attempt /\ p = pos)
    BY OutIsOne DEF IInv
  <1>3. /\ lines \in 1 .. MaxLines /\ attempt \in 1 .. Attempts /\ pos \in 1 .. Receipt
    BY <1>2 DEF SendingType
  <1>4. SendingType'
    BY <1>1, <1>2 DEF SendingType, Steps
  <1>5. PostedOnly'
    BY DEF IInv, PostedOnly, Behind
  <1>6. RowFirst' /\ CallbacksAgree'
    BY <1>2 DEF IInv, SendingType, RowFirst, CallbacksAgree
  <1>7. NothingSkipped'
    <2>1. ASSUME NEW p \in Targets, Reached(p)' PROVE p < pos
      BY <2>1 DEF Reached
    <2>2. \A p \in Targets : p \in 1 .. Lesser(MaxLines, EffectiveCap) + 1
      BY <1>3, BatchFits
    <2> QED
      BY <1>1, <1>2, <1>3, <2>1, <2>2 DEF IInv, SendingType, NothingSkipped, Reached
  <1>8. ListsWhatIsBehind' /\ TokensSuffice'
    BY <1>1, <1>3 DEF IInv, SendingType, ListsWhatIsBehind, TokensSuffice, Reached
  <1>9. OneRowIsWrong'
    <2>1. \A o \in Outs : o # Out => Wrong(o)' = Wrong(o)
      BY <1>2 DEF SendingType, Wrong
    <2>2. \A o \in Outs : Wrong(o) => o[1] < attempt
      BY DEF IInv, OneRowIsWrong
    <2>3. Out[1] = attempt /\ Out' = Out /\ Outs' = Outs /\ ~(attempt < attempt)
      BY <1>3 DEF Out, Outs
    <2>4. \A o \in Outs : Wrong(o)' => o[1] < attempt' \/ (o = Out' /\ pc' \in {"raised", "dead"})
      BY <2>1, <2>2, <2>3
    <2>5. \A a \in 1 .. Attempts : \A o, q \in Outs :
             o[1] = a /\ q[1] = a /\ Wrong(o)' /\ Wrong(q)' => o = q
      BY <2>1, <2>2, <2>3 DEF IInv, OneRowIsWrong
    <2> QED
      BY <2>4, <2>5 DEF OneRowIsWrong
  <1> QED
    BY <1>4, <1>5, <1>6, <1>7, <1>8, <1>9 DEF IInv

\* One more on both sides.
LEMMA OneMore ==
    ASSUME NEW m \in Nat, NEW n \in Nat, m >= n
    PROVE  m + 1 >= n + 1
  OBVIOUS

\* RQ runs the job again from its first entry, under new identifiers, or gives it up.
LEMMA RunAgainHolds == IInv /\ RunAgain => IInv'
  <1> SUFFICES ASSUME IInv, RunAgain PROVE IInv'
    OBVIOUS
  <1> USE DEF RunAgain
  <1>1. Entries' = Entries /\ Receipt' = Receipt /\ Targets' = Targets
    BY SameBatch
  <1>2. SendingType /\ lines \in 1 .. MaxLines /\ attempt \in 1 .. Attempts
    BY DEF IInv, SendingType
  <1>3. /\ Entries \in Nat /\ Receipt = Entries + 1 /\ Targets \subseteq 1 .. Receipt
        /\ (IF Entries > 0 THEN 1 ELSE Receipt) = 1
    BY <1>2, BatchFits
  <1>4. UNCHANGED <<lines, row, bridge, callback, claimed, bounds>>
    OBVIOUS
  <1>5. CASE attempt < Attempts
    <2>1. /\ attempt' = attempt + 1 /\ pos' = 1 /\ pc' = "quota"
          /\ QuotaIsFound(tokens', today', fresh')
      BY <1>3, <1>5
    <2>2. /\ tokens' \in 0 .. PerMinute /\ today' \in 0 .. PerDay
          /\ fresh' \in BOOLEAN /\ (fresh' => tokens' = PerMinute /\ today' >= Receipt)
      BY <2>1, Zenon DEF QuotaIsFound
    <2> HIDE DEF RunAgain
    <2>3. attempt' \in 1 .. Attempts
      BY <1>2, <1>5, <2>1, SendingAssumption
    <2>4. SendingType'
      BY <1>1, <1>2, <1>3, <1>4, <2>1, <2>2, <2>3 DEF SendingType, Steps
    <2>5. PostedOnly'
      BY <1>2, <1>4, <2>1 DEF IInv, PostedOnly, Behind
    <2>6. RowFirst' /\ CallbacksAgree'
      BY <1>4, <2>1 DEF IInv, RowFirst, CallbacksAgree
    <2>7. \A p \in Targets : ~Reached(p)'
      BY <1>3, <2>1 DEF Reached
    <2>8. NothingSkipped'
      BY <1>1, <2>1, <2>7 DEF NothingSkipped
    <2>9. ListsWhatIsBehind'
      BY <1>2, <1>4, <2>1, <2>3 DEF IInv, ListsWhatIsBehind
    <2>10. TokensSuffice'
      <3>1. PerMinute \in Nat /\ Receipt \in Nat
        BY <1>2, BatchFits
      <3>2. ASSUME fresh' PROVE /\ tokens' + pos' >= PerMinute + 1
                                /\ today' + pos' >= Receipt' + 1
        <4>1. tokens' = PerMinute /\ today' >= Receipt /\ today' \in Nat /\ pos' = 1
          BY <2>1, <2>2, <3>2, SendingAssumption DEF SendingAssumption
        <4>2. tokens' \in Nat /\ PerMinute \in Nat /\ tokens' >= PerMinute
          BY <3>1, <4>1
        <4>3. tokens' + 1 >= PerMinute + 1 /\ today' + 1 >= Receipt + 1
          BY <3>1, <4>1, <4>2, OneMore, Zenon
        <4> QED
          BY <1>1, <4>1, <4>3, Zenon
      <3>3. pc' = "quota" /\ \A p \in Targets' : ~Reached(p)'
        BY <1>1, <2>1, <2>7
      <3> QED
        BY <3>2, <3>3 DEF TokensSuffice
    <2>11. OneRowIsWrong'
      BY <1>2, <1>4, <2>1, WrongStays DEF IInv, Wrong
    <2> QED
      BY <2>4, <2>5, <2>6, <2>8, <2>9, <2>10, <2>11 DEF IInv
  <1>6. CASE ~(attempt < Attempts)
    <2>1. pc = "raised" /\ pc' = "dead" /\ UNCHANGED <<attempt, pos, tokens, today, fresh>>
      BY <1>6
    <2> HIDE DEF RunAgain
    <2>2. SendingType' /\ PostedOnly' /\ RowFirst' /\ CallbacksAgree'
      BY <1>1, <1>2, <1>4, <2>1
      DEF IInv, SendingType, Steps, PostedOnly, Behind, RowFirst, CallbacksAgree
    <2>3. NothingSkipped' /\ ListsWhatIsBehind' /\ TokensSuffice'
      BY <1>1, <1>4, <2>1 DEF IInv, NothingSkipped, ListsWhatIsBehind, TokensSuffice, Reached
    <2>11. OneRowIsWrong'
      BY <1>2, <1>4, <2>1, WrongStays DEF IInv, Wrong
    <2> QED
      BY <2>2, <2>3, <2>11 DEF IInv
  <1> QED
    BY <1>5, <1>6

\* More of a quota is enough for what less was enough for.
LEMMA MoreSuffices ==
    ASSUME NEW less \in Nat, NEW more \in Nat, NEW p \in Nat, NEW n \in Nat, more >= less
    PROVE  /\ less + p >= n + 1 => more + p >= n + 1
           /\ less + p >= n + 0 => more + p >= n + 0
  OBVIOUS

\* A new minute gives tokens back.
LEMMA MinuteTurnsHolds == IInv /\ MinuteTurns => IInv'
  <1> SUFFICES ASSUME IInv, MinuteTurns PROVE IInv'
    OBVIOUS
  <1> USE DEF MinuteTurns
  <1>1. Entries' = Entries /\ Receipt' = Receipt /\ Targets' = Targets
    BY SameBatch
  <1>2. SendingType'
    BY <1>1, SendingAssumption DEF IInv, SendingType
  <1>3. PostedOnly'
    BY DEF IInv, PostedOnly, Behind
  <1>4. RowFirst' /\ CallbacksAgree'
    BY DEF IInv, RowFirst, CallbacksAgree
  <1>5. NothingSkipped' /\ ListsWhatIsBehind'
    BY <1>1 DEF IInv, NothingSkipped, ListsWhatIsBehind, Reached
  <1>6. TokensSuffice'
    <2>1. /\ tokens \in 0 .. PerMinute /\ today \in 0 .. PerDay /\ pos \in Nat
          /\ Receipt \in Nat /\ PerMinute \in Nat /\ PerDay \in Nat
      BY BatchFits DEF IInv, SendingType
    <2>2. /\ tokens \in Nat /\ today \in Nat /\ tokens' \in Nat /\ today' \in Nat
          /\ tokens' >= tokens /\ today' >= today
      BY <2>1
    <2>3. UNCHANGED <<pc, attempt, pos, fresh, bridge>>
      OBVIOUS
    <2> HIDE DEF MinuteTurns
    <2>4. \A p \in Targets : Reached(p)' = Reached(p)
      BY <2>3 DEF Reached
    <2>5. fresh /\ PerMinute > 1 =>
             /\ tokens' + pos' >= PerMinute + (IF pc' = "quota" THEN 1 ELSE 0)
             /\ today' + pos' >= Receipt + (IF pc' = "quota" THEN 1 ELSE 0)
      <3>1. ASSUME fresh, PerMinute > 1
            PROVE  /\ tokens + pos >= PerMinute + (IF pc = "quota" THEN 1 ELSE 0)
                   /\ today + pos >= Receipt + (IF pc = "quota" THEN 1 ELSE 0)
        BY <3>1 DEF IInv, TokensSuffice
      <3>2. pc' = pc /\ pos' = pos
        BY <2>3
      <3>3. PerMinute \in Nat /\ Receipt \in Nat
        BY <2>1
      <3>4. pos \in Nat
        BY <2>1
      <3>5. /\ tokens + pos >= PerMinute + 1 => tokens' + pos >= PerMinute + 1
            /\ tokens + pos >= PerMinute + 0 => tokens' + pos >= PerMinute + 0
        BY <2>2, <3>3, <3>4, MoreSuffices
      <3>6. /\ today + pos >= Receipt + 1 => today' + pos >= Receipt + 1
            /\ today + pos >= Receipt + 0 => today' + pos >= Receipt + 0
        BY <2>2, <3>3, <3>4, MoreSuffices
      <3> QED
        BY <3>1, <3>2, <3>5, <3>6
    <2> QED
      BY <1>1, <2>3, <2>4, <2>5 DEF IInv, TokensSuffice
  <1>7. OneRowIsWrong'
    BY WrongStays DEF IInv, SendingType, Wrong
  <1> QED
    BY <1>2, <1>3, <1>4, <1>5, <1>6, <1>7 DEF IInv

\* What the bridge makes of a message, and its callback, which arrives or is lost.
LEMMA BridgeHolds ==
    ASSUME IInv, NEW o \in Outs,
           \/ \E outcome \in Outcomes : BridgeSettles(o, outcome)
           \/ SendStatus(o) \/ SendStatusLost(o)
    PROVE  IInv'
  <1>1. UNCHANGED <<lines, pc, attempt, pos, tokens, today, fresh, claimed>>
    BY DEF BridgeSettles, SendStatus, SendStatusLost
  <1>2. Entries' = Entries /\ Receipt' = Receipt /\ Targets' = Targets
    BY <1>1, SameBatch
  <1>3. SendingType
    BY DEF IInv
  <1>4. bridge[o] # "none" /\ (callback[o] # "none" => bridge[o] \in Outcomes)
    BY <1>3 DEF IInv, SendingType, CallbacksAgree, Outcomes, BridgeSettles, SendStatus, SendStatusLost
  <1>5. row[o] # "none"
    BY <1>4 DEF IInv, RowFirst
  <1> DEFINE RowsStand(x) == /\ bridge'[x] # "none" <=> bridge[x] # "none"
                             /\ row'[x] # "none" <=> row[x] # "none"
                             /\ bridge[x] = "none" => row'[x] = row[x]
             Kept == /\ SendingType' /\ CallbacksAgree'
                     /\ \A x \in Outs : RowsStand(x) /\ (Wrong(x)' => Wrong(x))
                     /\ bounds'.refusals = bounds.refusals
  <1>6. ASSUME \E outcome \in Outcomes : BridgeSettles(o, outcome) PROVE Kept
    <2>1. PICK outcome \in {"sent", "failed"} : BridgeSettles(o, outcome)
      BY <1>6 DEF Outcomes
    <2>2. /\ bridge[o] = "held" /\ bridge' = [bridge EXCEPT ![o] = outcome]
          /\ callback' = [callback EXCEPT ![o] = "due"] /\ UNCHANGED <<row, bounds>>
      BY <2>1 DEF BridgeSettles
    <2>3. SendingType'
      BY <1>1, <1>2, <1>3, <2>2 DEF SendingType
    <2>4. CallbacksAgree'
      BY <1>3, <2>2 DEF IInv, SendingType, CallbacksAgree, Outcomes
    <2>5. \A x \in Outs : RowsStand(x) /\ (Wrong(x)' => Wrong(x))
      BY <1>3, <2>2 DEF SendingType, Wrong
    <2> QED
      BY <2>2, <2>3, <2>4, <2>5
  <1>7. ASSUME SendStatus(o) PROVE Kept
    <2>1. /\ callback[o] = "due" /\ callback' = [callback EXCEPT ![o] = "done"]
          /\ row' = [row EXCEPT ![o] = bridge[o]] /\ UNCHANGED <<bridge, bounds>>
      BY <1>5, <1>7 DEF SendStatus
    <2>2. bridge[o] \in {"sent", "failed"}
      BY <1>4, <2>1 DEF Outcomes
    <2>3. SendingType'
      BY <1>1, <1>2, <1>3, <2>1, <2>2 DEF SendingType
    <2>4. CallbacksAgree'
      BY <1>3, <2>1, <2>2 DEF IInv, SendingType, CallbacksAgree, Outcomes
    <2>5. \A x \in Outs : RowsStand(x) /\ (Wrong(x)' => Wrong(x))
      BY <1>3, <1>4, <1>5, <2>1, <2>2 DEF SendingType, Wrong
    <2> QED
      BY <2>1, <2>3, <2>4, <2>5
  <1>8. ASSUME SendStatusLost(o) PROVE Kept
    <2>1. /\ callback[o] = "due" /\ callback' = [callback EXCEPT ![o] = "lost"]
          /\ UNCHANGED <<row, bridge>>
          /\ bounds' = [bounds EXCEPT !["callbacks"] = @ + 1]
      BY <1>8 DEF SendStatusLost, Spend
    <2>2. SendingType' /\ bounds'.refusals = bounds.refusals
      BY <1>1, <1>2, <1>3, <2>1 DEF SendingType
    <2>3. CallbacksAgree'
      BY <1>3, <2>1, <2>2 DEF IInv, SendingType, CallbacksAgree
    <2>4. \A x \in Outs : RowsStand(x) /\ (Wrong(x)' => Wrong(x))
      BY <1>3, <2>1 DEF SendingType, Wrong
    <2> QED
      BY <2>1, <2>2, <2>3, <2>4
  <1>9. Kept
    BY <1>6, <1>7, <1>8
  <1>10. \A a \in 1 .. Attempts, p \in 1 .. Lesser(MaxLines, EffectiveCap) + 1 : <<a, p>> \in Outs
    BY <1>3, OutIsOne
  <1>11. \A p \in Targets : <<attempt, p>> \in Outs
    BY <1>3, <1>10, BatchFits DEF SendingType
  <1>12. PostedOnly'
    BY <1>1, <1>9, <1>10 DEF IInv, PostedOnly, Behind
  <1>13. RowFirst'
    <2>1. Out' = Out /\ Out \in Outs
      BY <1>1, <1>3, OutIsOne DEF Out
    <2> QED
      BY <1>1, <1>9, <2>1 DEF IInv, RowFirst
  <1>14. NothingSkipped' /\ TokensSuffice'
    BY <1>1, <1>2, <1>9, <1>11 DEF IInv, NothingSkipped, TokensSuffice, Reached
  <1>15. ListsWhatIsBehind'
    BY <1>1 DEF IInv, ListsWhatIsBehind
  <1>16. OneRowIsWrong'
    BY <1>1, <1>3, <1>9, WrongStays DEF IInv, SendingType
  <1> QED
    BY <1>9, <1>12, <1>13, <1>14, <1>15, <1>16 DEF IInv

\* Every step keeps the invariant, and so does one that changes nothing.
LEMMA NextHolds == IInv /\ [Next]_vars => IInv'
  <1> SUFFICES ASSUME IInv, [Next]_vars PROVE IInv'
    OBVIOUS
  <1>1. CASE Step
    BY <1>1, CheckQuotaHolds, AdvanceHolds, RecordQueuedHolds, PostReachesBridgeHolds,
       RecordFailedHolds, RunAgainHolds DEF Step
  <1>2. CASE PostFails \/ JobTimesOut
    BY <1>2, BreaksHolds
  <1>3. CASE MinuteTurns
    BY <1>3, MinuteTurnsHolds
  <1>4. ASSUME NEW o \in Outs,
               \/ \E outcome \in Outcomes : BridgeSettles(o, outcome)
               \/ SendStatus(o) \/ SendStatusLost(o)
        PROVE  IInv'
    BY <1>4, BridgeHolds
  <1>5. CASE UNCHANGED vars
    <2>1. Entries' = Entries /\ Receipt' = Receipt /\ Targets' = Targets /\ Out' = Out
      BY <1>5, SameBatch DEF vars, Out
    <2>2. SendingType' /\ PostedOnly'
      BY <1>5, <2>1 DEF vars, IInv, SendingType, PostedOnly, Behind
    <2>3. RowFirst' /\ CallbacksAgree'
      BY <1>5, <2>1 DEF vars, IInv, RowFirst, CallbacksAgree
    <2>4. NothingSkipped' /\ ListsWhatIsBehind' /\ TokensSuffice'
      BY <1>5, <2>1 DEF vars, IInv, NothingSkipped, ListsWhatIsBehind, TokensSuffice, Reached
    <2>5. OneRowIsWrong'
      BY <1>5, WrongStays DEF vars, IInv, SendingType, Wrong
    <2> QED
      BY <2>2, <2>3, <2>4, <2>5 DEF IInv
  <1> QED
    BY <1>1, <1>2, <1>3, <1>4, <1>5 DEF Next
-----------------------------------------------------------------------------
(* The theorems *)

\* Where the job is, what it has posted and what its rows say, in every reachable state.
THEOREM SendingInvariantHolds == Spec => []IInv
  BY InitHolds, NextHolds, PTL DEF Spec

\* A call whose 202 comes too late makes the ledger wrong about one message of its run at
\* most, and about none of the run that ended well (sending.py, the except branch).
THEOREM LateAnswerCostsOneRowHolds == Spec => []LateAnswerCostsOneRow
  <1>1. IInv => LateAnswerCostsOneRow
    <2> SUFFICES ASSUME IInv PROVE LateAnswerCostsOneRow
      OBVIOUS
    <2>1. ASSUME pc = "done", NEW p \in Targets PROVE ~Wrong(<<attempt, p>>)
      <3>1. SendingType
        BY DEF IInv
      <3>2. /\ attempt \in 1 .. Attempts /\ lines \in 1 .. MaxLines
            /\ p \in 1 .. Lesser(MaxLines, EffectiveCap) + 1
        BY <3>1, BatchFits DEF SendingType
      <3>3. <<attempt, p>> \in Outs /\ <<attempt, p>>[1] = attempt /\ ~(attempt < attempt)
        BY <3>1, <3>2, OutIsOne
      <3> QED
        BY <2>1, <3>3 DEF IInv, OneRowIsWrong
    <2>2. \A a \in 1 .. Attempts : \A o, q \in Outs :
             o[1] = a /\ q[1] = a /\ Wrong(o) /\ Wrong(q) => o = q
      BY DEF IInv, OneRowIsWrong
    <2> QED
      BY <2>1, <2>2 DEF LateAnswerCostsOneRow, Wrong
  <1> QED
    BY <1>1, SendingInvariantHolds, PTL

\* A job that ends well has handed over, or left a row for, every message of its last
\* run: nothing disappears silently (sending.py).
THEOREM NothingSilentHolds == Spec => []NothingSilent
  <1>1. IInv => NothingSilent
    <2> SUFFICES ASSUME IInv, pc = "done", NEW p \in Targets
                 PROVE  \/ bridge[<<attempt, p>>] # "none"
                        \/ row[<<attempt, p>>] = "rate_limited"
      BY DEF NothingSilent
    <2>1. lines \in 1 .. MaxLines /\ pos = Receipt
      BY DEF IInv, SendingType, NothingSkipped
    <2>2. Reached(p)
      BY <2>1, BatchFits DEF Reached
    <2> QED
      BY <2>2 DEF IInv, NothingSkipped
  <1> QED
    BY <1>1, SendingInvariantHolds, PTL

\* Once the callback is in, the row has the final status, but for a call whose answer
\* came too late (sending.py, the except branch of LiveSender).
THEOREM SettledRowIsFinalHolds == Spec => []SettledRowIsFinal
  <1>1. IInv => SettledRowIsFinal
    BY DEF IInv, CallbacksAgree, SettledRowIsFinal
  <1> QED
    BY <1>1, SendingInvariantHolds, PTL

\* With a quota of two or more, a run that begins a full minute, with enough of the day
\* left for it, hands every entry and the receipt to the bridge, and the receipt lists them all (broadcast.py,
\* _effective_cap).  A quota of one has no token left for the receipt.
THEOREM FullMinuteSufficesHolds == ASSUME PerMinute > 1 PROVE Spec => []FullMinuteSuffices
  <1>1. IInv => FullMinuteSuffices
    <2> SUFFICES ASSUME IInv, pc = "done", fresh
                 PROVE  /\ claimed[attempt] = 1 .. Entries
                        /\ \A p \in Targets : bridge[<<attempt, p>>] # "none"
      BY DEF FullMinuteSuffices
    <2>1. lines \in 1 .. MaxLines /\ pos = Receipt
      BY DEF IInv, SendingType, NothingSkipped
    <2>2. Receipt - 1 = Entries /\ \A p \in Targets : Reached(p)
      BY <2>1, BatchFits DEF Reached
    <2> QED
      BY <2>1, <2>2 DEF IInv, TokensSuffice, ListsWhatIsBehind
  <1> QED
    BY <1>1, SendingInvariantHolds, PTL
=============================================================================
