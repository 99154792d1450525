----------------------- MODULE WebhookDeliveryProofs -----------------------
(***************************************************************************)
(* What the bridge's buffer of undelivered messages keeps, for every       *)
(* number of messages, attempts, overlapping flushes, failures and exits   *)
(* and every size of the buffer.                                           *)
(***************************************************************************)
EXTENDS WebhookDelivery, SequenceTheorems, TLAPS

-----------------------------------------------------------------------------
(* The invariant *)

SenderState  == {NotSent} \cup [pc : {"posting", "waiting", "done"}, attempt : Nat]
FlusherState == {Resting} \cup [pc : {"posting"}, payload : Msgs]

WebhookType ==
    /\ sender \in [Msgs -> SenderState]
    /\ flusher \in [Flushes -> FlusherState]
    /\ pending \in Seq(Msgs) /\ buffered \in Seq(Msgs) /\ flushed \in Seq(Msgs)
    /\ overflowed \subseteq Msgs
    /\ timer \in BOOLEAN /\ raced \in BOOLEAN
    /\ exits \in Nat

Distinct(q) == \A j, k \in 1 .. Len(q) : q[j] = q[k] => j = k

\* A message is buffered once, when its sender gives up: it is not in the buffer twice,
\* nor there again after it was dropped.
BufferedOnce ==
    /\ Distinct(pending)
    /\ \A m \in ToSet(pending) : sender[m].pc = "done" /\ m \notin overflowed
    /\ \A m \in overflowed : sender[m].pc = "done"

\* Without a race a flush posts the head of the buffer, and no other flush does.
PostsTheHead ==
    ~raced => \A f \in Flushes : flusher[f].pc = "posting" =>
        /\ pending # <<>> /\ flusher[f].payload = Head(pending)
        /\ \A g \in Flushes : flusher[g].pc = "posting" => g = f

Accounted ==
    ~raced => \A m \in Msgs : sender[m].pc = "done" =>
        m \in received \cup ToSet(pending) \cup overflowed \cup exited

\* Nothing is taken from the buffer but what was delivered.
InOrder == exits = 0 /\ overflowed = {} /\ ~raced => buffered = flushed \o pending

WInv ==
    WebhookType /\ BufferHasTimer /\ BufferedOnce /\ PostsTheHead /\ Accounted /\ InOrder

-----------------------------------------------------------------------------
(* The buffer as a sequence *)

\* A message that joins the end of the buffer leaves the rest where it is.
LEMMA Pushed ==
    ASSUME NEW q, q \in Seq(Msgs), NEW m \in Msgs
    PROVE  /\ Append(q, m) \in Seq(Msgs) /\ Append(q, m) # <<>>
           /\ ToSet(Append(q, m)) = ToSet(q) \cup {m}
           /\ q # <<>> => Head(Append(q, m)) = Head(q)
           /\ Distinct(q) /\ m \notin ToSet(q) => Distinct(Append(q, m))
  <1> DEFINE e == Append(q, m)
  <1>1. PICK n \in Nat : n = Len(q) /\ DOMAIN q = 1 .. n
    BY LenProperties
  <1>2. /\ e \in Seq(Msgs) /\ e # <<>> /\ Len(e) = n + 1
        /\ \A j \in 1 .. n : e[j] = q[j]
        /\ e[n + 1] = m
    BY <1>1, AppendProperties
  <1>3. q # <<>> => Head(e) = Head(q)
    BY HeadTailAppend
  <1> HIDE DEF e
  <1>4. DOMAIN e = 1 .. n + 1
    BY <1>2, LenProperties
  <1>5. ToSet(e) = ToSet(q) \cup {m}
    BY <1>1, <1>2, <1>4 DEF ToSet
  <1>6. ASSUME Distinct(q), m \notin ToSet(q) PROVE Distinct(e)
    <2>1. /\ \A j, k \in 1 .. n : q[j] = q[k] => j = k
          /\ \A j \in 1 .. n : q[j] # m
      BY <1>1, <1>6 DEF Distinct, ToSet
    <2>2. ASSUME NEW j \in 1 .. n + 1, NEW k \in 1 .. n + 1, e[j] = e[k], j # k PROVE FALSE
      <3>1. (j \in 1 .. n \/ j = n + 1) /\ (k \in 1 .. n \/ k = n + 1)
        OBVIOUS
      <3> QED
        BY <1>2, <2>1, <2>2, <3>1
    <2> QED
      BY <1>2, <2>2 DEF Distinct
  <1> QED
    BY <1>2, <1>3, <1>5, <1>6 DEF e

\* Taking the head of the buffer takes that message and no other.
LEMMA Shifted ==
    ASSUME NEW q, q \in Seq(Msgs), q # <<>>
    PROVE  /\ Tail(q) \in Seq(Msgs) /\ Head(q) \in Msgs
           /\ ToSet(q) = {Head(q)} \cup ToSet(Tail(q))
           /\ Distinct(q) => Distinct(Tail(q)) /\ Head(q) \notin ToSet(Tail(q))
  <1> DEFINE t == Tail(q)
  <1>1. PICK n \in Nat : n = Len(q) /\ DOMAIN q = 1 .. n
    BY LenProperties
  <1>2. n >= 1 /\ Head(q) = q[1]
    BY <1>1, EmptySeq
  <1>3. /\ t \in Seq(Msgs) /\ Head(q) \in Msgs /\ Len(t) = n - 1
        /\ \A j \in 1 .. Len(t) : t[j] = q[j + 1]
    BY <1>1, HeadTailProperties
  <1> HIDE DEF t
  <1>4. DOMAIN t = 1 .. n - 1 /\ \A j \in 1 .. n - 1 : t[j] = q[j + 1]
    BY <1>3, LenProperties
  <1>5. ToSet(q) = {q[1]} \cup ToSet(t)
    <2>1. ASSUME NEW j \in 2 .. n PROVE q[j] \in ToSet(t)
      <3>1. j - 1 \in 1 .. n - 1 /\ (j - 1) + 1 = j
        OBVIOUS
      <3> QED
        BY <1>4, <3>1 DEF ToSet
    <2>2. ASSUME NEW j \in 1 .. n - 1 PROVE t[j] \in ToSet(q)
      <3>1. j + 1 \in 1 .. n
        OBVIOUS
      <3> QED
        BY <1>1, <1>4, <3>1 DEF ToSet
    <2>3. \A j \in 1 .. n : j = 1 \/ j \in 2 .. n
      BY <1>2
    <2> QED
      BY <1>1, <1>2, <1>4, <2>1, <2>2, <2>3 DEF ToSet
  <1>6. ASSUME Distinct(q) PROVE Distinct(t) /\ q[1] \notin ToSet(t)
    <2>1. \A j, k \in 1 .. n : q[j] = q[k] => j = k
      BY <1>1, <1>6 DEF Distinct
    <2>2. ASSUME NEW j \in 1 .. n - 1, NEW k \in 1 .. n - 1, t[j] = t[k] PROVE j = k
      <3>1. j + 1 \in 1 .. n /\ k + 1 \in 1 .. n
        OBVIOUS
      <3>2. q[j + 1] = q[k + 1]
        BY <1>4, <2>2
      <3>3. j + 1 = k + 1
        BY <2>1, <3>1, <3>2
      <3> QED
        BY <3>3
    <2>3. ASSUME NEW j \in 1 .. n - 1, t[j] = q[1] PROVE FALSE
      <3>1. j + 1 \in 1 .. n /\ 1 \in 1 .. n /\ q[j + 1] = q[1]
        BY <1>2, <1>4, <2>3
      <3>2. j + 1 = 1
        BY <2>1, <3>1
      <3> QED
        BY <3>2
    <2> QED
      BY <1>3, <1>4, <2>2, <2>3 DEF Distinct, ToSet
  <1> QED
    BY <1>2, <1>3, <1>5, <1>6 DEF t

\* No message is in an empty buffer.
LEMMA EmptyBuffer == ToSet(<<>>) = {} /\ Distinct(<<>>) /\ <<>> \in Seq(Msgs)
  BY EmptySeq DEF ToSet, Distinct

-----------------------------------------------------------------------------
(* The senders *)

\* A step of a sender that is not done afterwards leaves everything but itself alone.
LEMMA SenderStep ==
    ASSUME WInv, NEW m \in Msgs, sender[m].pc # "done",
           NEW pc \in {"posting", "waiting"}, NEW a \in Nat,
           sender' = [sender EXCEPT ![m] = [pc |-> pc, attempt |-> a]],
           UNCHANGED <<pending, timer, flusher, buffered, flushed, overflowed, exited, raced, exits>>,
           received \subseteq received'
    PROVE  WInv'
  <1>1. \A x \in Msgs : sender'[x].pc = "done" <=> sender[x].pc = "done"
    BY DEF WInv, WebhookType
  <1>2. WebhookType' /\ BufferHasTimer' /\ PostsTheHead' /\ InOrder'
    BY DEF WInv, WebhookType, SenderState, BufferHasTimer, PostsTheHead, InOrder
  <1>3. ToSet(pending) \subseteq Msgs
    BY ElementOfSeq, LenProperties DEF ToSet, WInv, WebhookType
  <1>4. BufferedOnce'
    BY <1>1, <1>3 DEF WInv, BufferedOnce, WebhookType
  <1>5. Accounted'
    BY <1>1 DEF WInv, Accounted
  <1> QED
    BY <1>2, <1>4, <1>5 DEF WInv

\* A message that is posted for the first time keeps the invariant.
LEMMA SendWebhookHolds == \A m \in Msgs : WInv /\ SendWebhook(m) => WInv'
  BY SenderStep DEF SendWebhook, history, bounds

\* An attempt that fails keeps the invariant: the message waits or is buffered.
LEMMA RetryLaterHolds == \A m \in Msgs : WInv /\ RetryLater(m) => WInv'
  <1> SUFFICES ASSUME NEW m \in Msgs, WInv, RetryLater(m) PROVE WInv'
    OBVIOUS
  <1>1. received \subseteq received'
    BY DEF RetryLater, PostFails
  <1>2. sender[m].attempt \in Nat
        /\ sender' = [sender EXCEPT ![m] = [pc |-> "waiting", attempt |-> sender[m].attempt]]
    <2>1. sender[m] = [pc |-> sender[m].pc, attempt |-> sender[m].attempt]
          /\ sender[m].attempt \in Nat
      BY DEF WInv, WebhookType, SenderState, NotSent
    <2>2. sender' = [sender EXCEPT ![m] = [sender[m] EXCEPT !.pc = "waiting"]]
      BY DEF RetryLater
    <2>3. [sender[m] EXCEPT !.pc = "waiting"] = [pc |-> "waiting", attempt |-> sender[m].attempt]
      BY <2>1
    <2> QED
      BY <2>1, <2>2, <2>3
  <1> QED
    BY <1>1, <1>2, SenderStep DEF RetryLater

\* A retry keeps the invariant.
LEMMA PostAgainHolds == \A m \in Msgs : WInv /\ PostAgain(m) => WInv'
  <1> SUFFICES ASSUME NEW m \in Msgs, WInv, PostAgain(m) PROVE WInv'
    OBVIOUS
  <1>1. sender[m].attempt + 1 \in Nat
    BY DEF WInv, WebhookType, SenderState, NotSent
  <1> QED
    BY <1>1, SenderStep DEF PostAgain, history, bounds

\* What the api stored needs no place in the buffer.
LEMMA DeliveredHolds == \A m \in Msgs : WInv /\ Delivered(m) => WInv'
  <1> SUFFICES ASSUME NEW m \in Msgs, WInv, Delivered(m) PROVE WInv'
    OBVIOUS
  <1>1. \A x \in Msgs : sender'[x].pc = IF x = m THEN "done" ELSE sender[x].pc
    BY DEF Delivered, WInv, WebhookType
  <1>2. WebhookType' /\ BufferHasTimer' /\ PostsTheHead' /\ InOrder'
    <2>1. sender' \in [Msgs -> SenderState]
      BY DEF Delivered, WInv, WebhookType, SenderState, FlusherState, NotSent, Resting
    <2>2. UNCHANGED <<pending, timer, flusher, buffered, flushed, overflowed, raced, exits>>
      BY DEF Delivered, bounds
    <2> QED
      BY <2>1, <2>2 DEF WInv, WebhookType, BufferHasTimer, PostsTheHead, InOrder
  <1>3. ToSet(pending) \subseteq Msgs
    BY ElementOfSeq, LenProperties DEF ToSet, WInv, WebhookType
  <1>4. BufferedOnce'
    BY <1>1, <1>3 DEF Delivered, WInv, BufferedOnce, WebhookType
  <1>5. Accounted'
    BY <1>1 DEF Delivered, WInv, Accounted
  <1> QED
    BY <1>2, <1>4, <1>5 DEF WInv

\* The sender that gives up puts its message into the buffer.  When that drops the oldest
\* message while a flush posts it, the step is a race.
LEMMA GiveUpHolds == \A m \in Msgs : WInv /\ GiveUp(m) => WInv'
  <1> SUFFICES ASSUME NEW m \in Msgs, WInv, GiveUp(m) PROVE WInv'
    OBVIOUS
  <1>1. /\ pending \in Seq(Msgs) /\ buffered \in Seq(Msgs) /\ flushed \in Seq(Msgs)
        /\ Distinct(pending)
    BY DEF WInv, WebhookType, BufferedOnce
  <1>2. m \notin ToSet(pending) /\ m \notin overflowed
    BY DEF GiveUp, WInv, BufferedOnce
  <1>3. \A x \in Msgs : sender'[x].pc = IF x = m THEN "done" ELSE sender[x].pc
    BY DEF GiveUp, WInv, WebhookType
  <1>4. ToSet(pending) \subseteq Msgs
    BY <1>1, ElementOfSeq, LenProperties DEF ToSet
  <1>5. received \subseteq received' /\ UNCHANGED <<flusher, flushed, exited, exits>>
    BY DEF GiveUp, PostFails
  <1>6. /\ sender' \in [Msgs -> SenderState]
        /\ buffered' \in Seq(Msgs) /\ timer' = TRUE /\ raced' \in BOOLEAN
    <2>1. buffered' \in Seq(Msgs)
      BY <1>1, AppendProperties DEF GiveUp
    <2>2. raced' \in BOOLEAN
      BY DEF GiveUp, WInv, WebhookType
    <2>3. sender' \in [Msgs -> SenderState]
      BY DEF GiveUp, WInv, WebhookType, SenderState, NotSent
    <2> QED
      BY <2>1, <2>2, <2>3 DEF GiveUp, Buffer
  <1>7. CASE pending' = Append(pending, m) /\ overflowed' = overflowed
    <2>1. /\ pending' \in Seq(Msgs) /\ pending' # <<>> /\ Distinct(pending')
          /\ ToSet(pending') = ToSet(pending) \cup {m}
          /\ pending # <<>> => Head(pending') = Head(pending)
      BY <1>1, <1>2, <1>7, Pushed
    <2>2. raced' = raced
      BY <1>7 DEF GiveUp, WInv, WebhookType
    <2>3. WebhookType' /\ BufferHasTimer'
      BY <1>5, <1>6, <1>7, <2>1 DEF WInv, WebhookType, BufferHasTimer
    <2>4. BufferedOnce'
      BY <1>2, <1>3, <1>4, <1>7, <2>1 DEF WInv, WebhookType, BufferedOnce
    <2>5. PostsTheHead'
      BY <1>5, <2>1, <2>2 DEF WInv, PostsTheHead
    <2>6. Accounted'
      BY <1>3, <1>5, <1>7, <2>1, <2>2 DEF WInv, Accounted
    <2>7. InOrder'
      <3> SUFFICES ASSUME exits' = 0, overflowed' = {}, ~raced'
                   PROVE  buffered' = flushed' \o pending'
        BY DEF InOrder
      <3>1. buffered = flushed \o pending
        BY <1>5, <1>7, <2>2 DEF WInv, InOrder
      <3>2. pending' = pending \o <<m>> /\ buffered' = buffered \o <<m>>
        BY <1>1, <1>7, AppendIsConcat DEF GiveUp
      <3>3. <<m>> \in Seq(Msgs)
        OBVIOUS
      <3> QED
        BY <1>1, <1>5, <3>1, <3>2, <3>3, ConcatAssociative
    <2> QED
      BY <2>3, <2>4, <2>5, <2>6, <2>7 DEF WInv
  <1>8. CASE /\ Len(pending) >= PendingLimit
             /\ pending' = Append(Tail(pending), m)
             /\ overflowed' = overflowed \cup {Head(pending)}
    <2>1. pending # <<>>
      BY <1>8, EmptySeq, WebhookAssumption
    <2>2. /\ Tail(pending) \in Seq(Msgs) /\ Head(pending) \in Msgs
          /\ ToSet(pending) = {Head(pending)} \cup ToSet(Tail(pending))
          /\ Distinct(Tail(pending)) /\ Head(pending) \notin ToSet(Tail(pending))
      BY <1>1, <2>1, Shifted
    <2>3. /\ pending' \in Seq(Msgs) /\ pending' # <<>> /\ Distinct(pending')
          /\ ToSet(pending') = ToSet(Tail(pending)) \cup {m}
      BY <1>2, <1>8, <2>2, Pushed
    <2>4. Head(pending) \notin overflowed /\ sender[Head(pending)].pc = "done"
          /\ Head(pending) # m
      BY <1>2, <2>2 DEF WInv, BufferedOnce
    <2>5. raced' = (raced \/ \E f \in Flushes : flusher[f].pc = "posting")
      BY <1>8, <2>4 DEF GiveUp
    <2>6. WebhookType' /\ BufferHasTimer'
      BY <1>5, <1>6, <1>8, <2>2, <2>3 DEF WInv, WebhookType, BufferHasTimer
    <2>7. BufferedOnce'
      BY <1>2, <1>3, <1>4, <1>8, <2>2, <2>3, <2>4 DEF WInv, WebhookType, BufferedOnce
    <2>8. PostsTheHead'
      BY <1>5, <2>5 DEF PostsTheHead
    <2>9. Accounted'
      BY <1>3, <1>5, <1>8, <2>2, <2>3, <2>5 DEF WInv, Accounted
    <2>10. InOrder'
      BY <1>8 DEF InOrder
    <2> QED
      BY <2>6, <2>7, <2>8, <2>9, <2>10 DEF WInv
  <1> QED
    BY <1>7, <1>8 DEF GiveUp, Buffer

-----------------------------------------------------------------------------
(* The flushes *)

\* What the test at the top of flush's loop makes of the activation and the timer.
LEMMA NextPayloadProperties ==
    ASSUME WebhookType, NEW f \in Flushes, pending' \in Seq(Msgs), NextPayload(f)
    PROVE  /\ flusher' \in [Flushes -> FlusherState]
           /\ \A g \in Flushes : g # f => flusher'[g] = flusher[g]
           /\ flusher'[f].pc = "posting" =>
                pending' # <<>> /\ flusher'[f].payload = Head(pending')
           /\ timer' \in BOOLEAN
           /\ pending' # <<>> => timer' = timer
  <1>1. PICK x \in FlusherState :
            /\ flusher' = [flusher EXCEPT ![f] = x]
            /\ x.pc = "posting" => pending' # <<>> /\ x.payload = Head(pending')
    <2>1. CASE pending' # <<>>
      <3> DEFINE x == [pc |-> "posting", payload |-> Head(pending')]
      <3>1. x \in FlusherState /\ x.payload = Head(pending')
        BY <2>1, HeadTailProperties DEF FlusherState
      <3>2. flusher' = [flusher EXCEPT ![f] = x]
        BY <2>1 DEF NextPayload
      <3> QED
        BY <2>1, <3>1, <3>2
    <2>2. CASE pending' = <<>>
      <3>1. Resting \in FlusherState /\ Resting.pc # "posting"
        BY DEF FlusherState, Resting
      <3>2. flusher' = [flusher EXCEPT ![f] = Resting]
        BY <2>2 DEF NextPayload
      <3> QED
        BY <3>1, <3>2
    <2> QED
      BY <2>1, <2>2
  <1>2. timer' \in BOOLEAN /\ (pending' # <<>> => timer' = timer)
    BY DEF NextPayload, WebhookType
  <1> QED
    BY <1>1, <1>2 DEF WebhookType

\* A tick of the flush timer keeps the invariant.
LEMMA TickHolds == \A f \in Flushes : WInv /\ Tick(f) => WInv'
  <1> SUFFICES ASSUME NEW f \in Flushes, WInv, Tick(f) PROVE WInv'
    OBVIOUS
  <1>1. UNCHANGED <<sender, pending, received, buffered, flushed, overflowed, exited, exits>>
    BY DEF Tick, history, bounds
  <1>2. /\ flusher' \in [Flushes -> FlusherState]
        /\ \A g \in Flushes : g # f => flusher'[g] = flusher[g]
        /\ flusher'[f].pc = "posting" => pending' # <<>> /\ flusher'[f].payload = Head(pending')
        /\ timer' \in BOOLEAN
        /\ pending' # <<>> => timer' = timer
    <2>1. WebhookType /\ pending' \in Seq(Msgs) /\ NextPayload(f)
      BY <1>1 DEF WInv, WebhookType, Tick
    <2> QED
      BY <2>1, NextPayloadProperties
  <1>3. raced' = (raced \/ \E g \in Flushes : flusher[g].pc = "posting")
    BY DEF Tick
  <1>4. WebhookType'
    BY <1>1, <1>2, <1>3 DEF WInv, WebhookType
  <1>5. BufferHasTimer' /\ BufferedOnce' /\ InOrder'
    <2>1. raced => raced'
      BY <1>3
    <2> QED
      BY <1>1, <1>2, <2>1 DEF WInv, BufferHasTimer, BufferedOnce, InOrder
  <1>6. PostsTheHead'
    BY <1>1, <1>2, <1>3 DEF PostsTheHead
  <1>7. Accounted'
    BY <1>1, <1>3 DEF WInv, Accounted
  <1> QED
    BY <1>4, <1>5, <1>6, <1>7 DEF WInv

\* Without a race what is shifted out of the buffer is what was delivered.
LEMMA FlushedHolds == \A f \in Flushes : WInv /\ Flushed(f) => WInv'
  <1> SUFFICES ASSUME NEW f \in Flushes, WInv, Flushed(f) PROVE WInv'
    OBVIOUS
  <1> DEFINE m == flusher[f].payload
  <1>1. /\ flusher[f].pc = "posting" /\ m \in Msgs
        /\ received' = received \cup {m} /\ flushed' = Append(flushed, m)
        /\ UNCHANGED <<sender, buffered, overflowed, exited, raced, exits>>
    BY DEF Flushed, bounds, WInv, WebhookType, FlusherState, Resting
  <1>2. /\ pending \in Seq(Msgs) /\ buffered \in Seq(Msgs) /\ flushed \in Seq(Msgs)
        /\ Distinct(pending)
    BY DEF WInv, WebhookType, BufferedOnce
  <1>3. pending' \in Seq(Msgs) /\ Distinct(pending') /\ ToSet(pending') \subseteq ToSet(pending)
        /\ (pending' # <<>> => pending # <<>>)
    <2>1. pending' = IF pending = <<>> THEN <<>> ELSE Tail(pending)
      BY DEF Flushed
    <2>2. CASE pending = <<>>
      BY <2>1, <2>2, EmptyBuffer
    <2>3. CASE pending # <<>>
      BY <1>2, <2>1, <2>3, Shifted
    <2> QED
      BY <2>2, <2>3
  <1>4. /\ flusher' \in [Flushes -> FlusherState]
        /\ \A g \in Flushes : g # f => flusher'[g] = flusher[g]
        /\ flusher'[f].pc = "posting" => pending' # <<>> /\ flusher'[f].payload = Head(pending')
        /\ timer' \in BOOLEAN
        /\ pending' # <<>> => timer' = timer
    BY <1>3, NextPayloadProperties DEF WInv, Flushed
  <1>5. WebhookType'
    <2>1. flushed' \in Seq(Msgs)
      BY <1>1, <1>2, AppendProperties
    <2> QED
      BY <1>1, <1>3, <1>4, <2>1 DEF WInv, WebhookType
  <1>6. BufferHasTimer' /\ BufferedOnce'
    BY <1>1, <1>3, <1>4 DEF WInv, BufferHasTimer, BufferedOnce
  <1>7. ASSUME ~raced PROVE /\ pending # <<>> /\ m = Head(pending) /\ pending' = Tail(pending)
                            /\ \A g \in Flushes : flusher[g].pc = "posting" => g = f
    BY <1>1, <1>7 DEF WInv, PostsTheHead, Flushed
  <1> HIDE DEF m
  <1>8. PostsTheHead'
    BY <1>1, <1>4, <1>7 DEF PostsTheHead
  <1>9. Accounted'
    <2>1. ASSUME ~raced PROVE ToSet(pending) = {m} \cup ToSet(pending')
      BY <1>2, <1>7, <2>1, Shifted
    <2> QED
      BY <1>1, <2>1 DEF WInv, Accounted
  <1>10. InOrder'
    <2> SUFFICES ASSUME exits = 0, overflowed = {}, ~raced
                 PROVE  buffered = flushed' \o pending'
      BY <1>1 DEF InOrder
    <2>1. buffered = flushed \o pending
      BY DEF WInv, InOrder
    <2>2. pending = <<m>> \o Tail(pending) /\ Tail(pending) \in Seq(Msgs)
      BY <1>2, <1>7, HeadTailProperties, ConcatProperties
    <2>3. flushed' = flushed \o <<m>> /\ <<m>> \in Seq(Msgs)
      BY <1>1, <1>2, AppendIsConcat
    <2>4. flushed \o (<<m>> \o Tail(pending)) = (flushed \o <<m>>) \o Tail(pending)
      BY <1>2, <2>2, <2>3, ConcatAssociative
    <2> QED
      BY <1>7, <2>1, <2>2, <2>3, <2>4
  <1> QED
    BY <1>5, <1>6, <1>8, <1>9, <1>10 DEF WInv

\* A flush that fails leaves the buffer and its timer to the next one.
LEMMA FlushFailsHolds == \A f \in Flushes : WInv /\ FlushFails(f) => WInv'
  <1> SUFFICES ASSUME NEW f \in Flushes, WInv, FlushFails(f) PROVE WInv'
    OBVIOUS
  <1>1. /\ UNCHANGED <<sender, pending, timer, buffered, flushed, overflowed, exited, raced, exits>>
        /\ received \subseteq received'
    BY DEF FlushFails, PostFails
  <1>2. /\ flusher' \in [Flushes -> FlusherState]
        /\ \A g \in Flushes : g # f => flusher'[g] = flusher[g]
        /\ flusher'[f].pc = "idle"
    BY DEF FlushFails, WInv, WebhookType, FlusherState, Resting
  <1>3. WebhookType' /\ BufferHasTimer' /\ BufferedOnce' /\ InOrder'
    BY <1>1, <1>2 DEF WInv, WebhookType, BufferHasTimer, BufferedOnce, InOrder
  <1>4. PostsTheHead'
    BY <1>1, <1>2 DEF WInv, PostsTheHead
  <1>5. Accounted'
    BY <1>1 DEF WInv, Accounted
  <1> QED
    BY <1>3, <1>4, <1>5 DEF WInv

-----------------------------------------------------------------------------
(* The bridge's exit, and the whole step *)

\* An exit empties the memory and keeps the invariant.
LEMMA ExitHolds == WInv /\ Exit => WInv'
  <1> SUFFICES ASSUME WInv, Exit PROVE WInv'
    OBVIOUS
  <1>1. \A m \in Msgs : /\ sender[m] = NotSent => sender'[m] = NotSent
                        /\ sender[m] # NotSent =>
                            sender'[m].pc = "done" /\ sender'[m].attempt = sender[m].attempt
    BY DEF Exit, WInv, WebhookType
  <1>2. sender' \in [Msgs -> SenderState]
    <2>1. ASSUME NEW m \in Msgs
          PROVE  (IF sender[m] = NotSent THEN NotSent ELSE [sender[m] EXCEPT !.pc = "done"])
                    \in SenderState
      BY DEF WInv, WebhookType, SenderState
    <2> QED
      BY <2>1 DEF Exit
  <1>3. exits' # 0 /\ exits' \in Nat
    BY DEF Exit, WInv, WebhookType
  <1>4. /\ pending' = <<>> /\ ~timer' /\ timer' \in BOOLEAN
        /\ \A f \in Flushes : flusher'[f].pc = "idle"
        /\ flusher' \in [Flushes -> FlusherState]
        /\ UNCHANGED <<received, buffered, flushed, overflowed, raced>>
        /\ exited' = exited \cup ToSet(pending)
                       \cup {m \in Msgs : sender[m].pc \in {"posting", "waiting"}}
    BY DEF Exit, Resting, FlusherState
  <1>5. WebhookType'
    BY <1>2, <1>3, <1>4, EmptyBuffer DEF WInv, WebhookType
  <1>6. BufferHasTimer' /\ PostsTheHead' /\ InOrder'
    BY <1>3, <1>4 DEF BufferHasTimer, PostsTheHead, InOrder
  <1>7. BufferedOnce'
    BY <1>1, <1>4, EmptyBuffer DEF WInv, WebhookType, BufferedOnce
  <1>8. Accounted'
    <2> SUFFICES ASSUME ~raced, NEW m \in Msgs, sender'[m].pc = "done"
                 PROVE  m \in received \cup overflowed \cup exited'
      BY <1>4 DEF Accounted
    <2>1. sender[m] # NotSent
      BY <1>1 DEF NotSent
    <2>2. sender[m].pc = "done" => m \in received \cup ToSet(pending) \cup overflowed \cup exited
      BY DEF WInv, Accounted
    <2>3. CASE sender[m].pc \in {"posting", "waiting", "done"}
      BY <1>4, <2>2, <2>3
    <2>4. CASE sender[m].pc = "none"
      BY <1>4, <2>1, <2>4 DEF WInv, WebhookType, SenderState
    <2> QED
      BY <2>3, <2>4 DEF WInv, WebhookType, SenderState, NotSent
  <1> QED
    BY <1>5, <1>6, <1>7, <1>8 DEF WInv

\* The invariant holds at the start.
LEMMA WebhookInitHolds == Init => WInv
  <1> SUFFICES ASSUME Init PROVE WInv
    OBVIOUS
  <1>1. WebhookType
    BY EmptySeq DEF Init, WebhookType, SenderState, FlusherState
  <1>2. BufferHasTimer /\ BufferedOnce
    BY EmptyBuffer DEF Init, BufferHasTimer, BufferedOnce
  <1>3. PostsTheHead /\ Accounted
    BY DEF Init, PostsTheHead, Accounted, Resting, NotSent
  <1>4. InOrder
    BY EmptySeq, ConcatEmptySeq DEF Init, InOrder
  <1> QED
    BY <1>1, <1>2, <1>3, <1>4 DEF WInv

\* Every step keeps the invariant.
LEMMA WebhookNextHolds == WInv /\ [Next]_vars => WInv'
  <1> SUFFICES ASSUME WInv, [Next]_vars PROVE WInv'
    OBVIOUS
  <1>1. CASE UNCHANGED vars
    BY <1>1 DEF vars, history, bounds, WInv, WebhookType, BufferHasTimer, BufferedOnce,
                PostsTheHead, Accounted, InOrder
  <1>2. CASE \E m \in Msgs : SendWebhook(m) \/ Send(m)
    BY <1>2, SendWebhookHolds, DeliveredHolds, RetryLaterHolds, PostAgainHolds, GiveUpHolds
       DEF Send
  <1>3. CASE \E f \in Flushes : Flush(f)
    BY <1>3, TickHolds, FlushedHolds, FlushFailsHolds DEF Flush
  <1> QED
    BY <1>1, <1>2, <1>3, ExitHolds DEF Next

\* What was flushed is the beginning of what was buffered when the buffer holds the rest.
LEMMA PrefixOfConcat ==
    ASSUME NEW s \in Seq(Msgs), NEW t \in Seq(Msgs)
    PROVE  IsPrefix(s, s \o t)
  <1>1. Len(s) \in Nat /\ Len(s) <= Len(s \o t)
    BY LenProperties, ConcatProperties
  <1>2. CASE Len(s) = 0
    <2>1. SubSeq(s, 1, 0) = <<>> /\ SubSeq(s \o t, 1, 0) = <<>>
      BY SubSeqEmpty
    <2> QED
      BY <1>1, <1>2, <2>1 DEF IsPrefix
  <1>3. CASE Len(s) # 0
    <2>1. 1 \in 1 .. Len(s) /\ Len(s) \in 1 .. Len(s)
      BY <1>1, <1>3
    <2>2. SubSeq(s \o t, 1, Len(s)) = SubSeq(s, 1, Len(s))
      BY <2>1, SubSeqOfConcat1
    <2> QED
      BY <1>1, <2>2 DEF IsPrefix
  <1> QED
    BY <1>2, <1>3
-----------------------------------------------------------------------------
(* Theorems *)

\* The inductive invariant holds in every reachable state.
THEOREM WebhookInvariantHolds == Spec => []WInv
  BY WebhookInitHolds, WebhookNextHolds, PTL DEF Spec

\* No order of ticks, ends of flush and new failures clears the timer under a message
\* (api-client.js, #startFlushing and flush).
THEOREM BufferHasTimerHolds == Spec => []BufferHasTimer
  <1>1. WInv => BufferHasTimer
    BY DEF WInv
  <1> QED
    BY <1>1, WebhookInvariantHolds, PTL

\* Unless two flushes overlap or the buffer overflows under one, a message that was
\* received is at the api, in the buffer, or was dropped for a full buffer or an exit
\* (the header of api-client.js).
THEOREM LossNeedsARaceHolds == Spec => []LossNeedsARace
  <1>1. WInv => LossNeedsARace
    BY DEF WInv, Accounted, LossNeedsARace, Lost
  <1> QED
    BY <1>1, WebhookInvariantHolds, PTL

\* What is buffered reaches the api in the order it was buffered, unless a race, an
\* overflow or an exit takes some of it away (api-client.js, flush).
THEOREM FlushesInOrderHolds == Spec => []FlushesInOrder
  <1>1. WInv => FlushesInOrder
    BY PrefixOfConcat DEF WInv, WebhookType, InOrder, FlushesInOrder
  <1> QED
    BY <1>1, WebhookInvariantHolds, PTL
=============================================================================
