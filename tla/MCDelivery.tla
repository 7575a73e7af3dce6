----------------------------- MODULE MCDelivery -----------------------------
(***************************************************************************)
(* What has to arrive although its carrier fails: jobs through the outbox  *)
(* and the queue, and invalidations through the event stream to a          *)
(* dashboard, each on an instance of its own.  A behaviour is about one of *)
(* them, its focus, and the other keeps its initial state.                 *)
(***************************************************************************)
EXTENDS JobOutbox, DashboardSync

VARIABLE focus

deliveryVars == <<vars, syncVars, focus>>

DeliveryInit ==
    /\ focus \in {"queue", "sync"}
    /\ Init
    /\ SyncInit /\ (focus = "sync" \/ location = "work")

DeliveryNext ==
    \/ focus = "queue" /\ Next /\ UNCHANGED <<syncVars, focus>>
    \/ focus = "sync" /\ SyncNext /\ UNCHANGED <<vars, focus>>

\* Fairness is that of the part in focus; a dashboard loads as it starts, so
\* the fairness of one that is not in focus would rule its behaviours out.
DeliverySpec ==
    /\ DeliveryInit /\ [][DeliveryNext]_deliveryVars
    /\ focus = "queue" => Fairness
    /\ focus = "sync" => SyncFairness

\* A dashboard that says live shows what the host has (sync-controller.ts).
SyncHolds == focus = "sync" => SyncSafety
=============================================================================
