--------------------------- MODULE DurableDelivery ---------------------------
(***************************************************************************)
(* What the bridge promises a caller of POST /send, without the queue, the *)
(* loop or the file: once a message is accepted the bridge holds it        *)
(* through every restart, and lets it go only after WhatsApp took a copy   *)
(* or after maxAttempts failed sends.  A message let go never comes back.  *)
(***************************************************************************)
EXTENDS Naturals

CONSTANTS Ids, MaxAttempts

VARIABLES
    promised,   \* messages answered 202
    held,       \* messages the bridge would send after a restart
    copies,     \* how many copies of each message WhatsApp took
    tries       \* how many sends of each message failed

vars == <<promised, held, copies, tries>>

Init ==
    /\ promised = {} /\ held = {}
    /\ copies = [i \in Ids |-> 0] /\ tries = [i \in Ids |-> 0]

Accept(i) ==
    /\ i \notin promised
    /\ promised' = promised \cup {i} /\ held' = held \cup {i}
    /\ UNCHANGED <<copies, tries>>

Deliver(i) ==
    /\ i \in held
    /\ copies' = [copies EXCEPT ![i] = @ + 1]
    /\ UNCHANGED <<promised, held, tries>>

Fail(i) ==
    /\ i \in held
    /\ tries' = [tries EXCEPT ![i] = @ + 1]
    /\ UNCHANGED <<promised, held, copies>>

Release(i) ==
    /\ i \in held
    /\ copies[i] > 0 \/ tries[i] >= MaxAttempts
    /\ held' = held \ {i}
    /\ UNCHANGED <<promised, copies, tries>>

Next == \E i \in Ids : Accept(i) \/ Deliver(i) \/ Fail(i) \/ Release(i)

Spec == Init /\ [][Next]_vars
=============================================================================
