-------------------------- MODULE OutboxRefinement --------------------------
(***************************************************************************)
(* The outbox implements DurableDelivery as long as saves do not overlap   *)
(* and do not fail (MaxSaves = 1, MaxFsErrors = 0): what the bridge holds  *)
(* is what the queue file names, so a crash and a restart are stuttering.  *)
(***************************************************************************)
EXTENDS Outbox

Promise == INSTANCE DurableDelivery WITH
    promised <- accepted,
    held     <- {i \in Ids : OnDisk(i)},
    copies   <- [i \in Ids |-> CopiesOf(i)],
    tries    <- fails

\* Every step of the outbox, crashes and restarts included, is a step of the promise
\* made by POST /send or invisible to its caller.
KeepsThePromise == Promise!Spec
=============================================================================
