---------------------------- MODULE MCOperations ----------------------------
(***************************************************************************)
(* Operating the Runtime: the cost budget, starting hosts, admitting       *)
(* knowledge, checkpoints, updates of the distribution, purging a runtime  *)
(* home, and the system services, each on an instance of its own.  A       *)
(* behaviour is about one of them, its focus, and the others keep their    *)
(* initial state.                                                          *)
(***************************************************************************)
EXTENDS CostBudget, HostStartup, KnowledgeAdmission, CheckpointStore,
        DistributionUpdate, RuntimePurge, OfficeServices

\* A worker and a requirement validation on one project budget. Reasoning is
\* the dearer output; the second price is a cheaper fallback.
Tokens(i, c, o, r) == [input |-> i, cached |-> c, output |-> o, reasoning |-> r]
TwoPrices == {Tokens(4, 1, 2, 4), Tokens(2, 1, 2, 2)}
AllCandidates == [c \in Calls |-> Prices]
OneEach == [c \in Calls |-> [input |-> 1, output |-> 1]]
\* The bound, all of it reasoning; cached input and nothing else; more than the
\* bound; and more cached than there was.
SomeUsages == {Tokens(1, 0, 1, 1), Tokens(1, 1, 0, 0), Tokens(2, 0, 1, 0), Tokens(0, 1, 0, 0)}
WorkerLimit == [c \in Workers |-> 4]

\* r1 to r3 are upstream history, fork an unrelated one, mine a local commit.
History == [r1 |-> {}, r2 |-> {"r1"}, r3 |-> {"r1", "r2"}, fork |-> {}, mine |-> {"r1"}]

OperationSymmetry == Permutations(Callers) \cup Permutations(Operators)

VARIABLE focus

operationVars == <<vars, startupVars, knowledgeVars, checkpointVars, updateVars, purgeVars,
                   serviceVars, focus>>

OperationsInit ==
    /\ focus \in {"cost", "startup", "knowledge", "checkpoints", "update", "purge", "services"}
    /\ Init /\ (focus = "cost" \/ limit = Unset)
    /\ StartupInit /\ (focus = "startup" \/ socket = "absent")
    /\ KnowledgeInit /\ CheckpointInit
    /\ UpdateInit /\ (focus = "update" \/ upstream = FirstRevision)
    /\ PurgeInit /\ (focus = "purge" \/ (0 \notin Range(entry) /\ oddKind = {}))
    /\ ServicesInit /\ (focus = "services" \/ manager = "systemd")

OperationsNext ==
    \/ focus = "cost" /\ Next
         /\ UNCHANGED <<startupVars, knowledgeVars, checkpointVars, updateVars, purgeVars, serviceVars>>
    \/ focus = "startup" /\ StartupNext
         /\ UNCHANGED <<vars, knowledgeVars, checkpointVars, updateVars, purgeVars, serviceVars>>
    \/ focus = "knowledge" /\ KnowledgeNext
         /\ UNCHANGED <<vars, startupVars, checkpointVars, updateVars, purgeVars, serviceVars>>
    \/ focus = "checkpoints" /\ CheckpointNext
         /\ UNCHANGED <<vars, startupVars, knowledgeVars, updateVars, purgeVars, serviceVars>>
    \/ focus = "update" /\ UpdateNext
         /\ UNCHANGED <<vars, startupVars, knowledgeVars, checkpointVars, purgeVars, serviceVars>>
    \/ focus = "purge" /\ PurgeNext
         /\ UNCHANGED <<vars, startupVars, knowledgeVars, checkpointVars, updateVars, serviceVars>>
    \/ focus = "services" /\ ServicesNext
         /\ UNCHANGED <<vars, startupVars, knowledgeVars, checkpointVars, updateVars, purgeVars>>

OperationsSpec == OperationsInit /\ [][OperationsNext /\ UNCHANGED focus]_operationVars

\* Hosts on one runtime home: nothing leaks, and two serve it only after the
\* socket of a live one was removed (bootstrap.ts, office-daemon.ts).
StartupHolds == focus = "startup" => StartupSafety

\* Knowledge: every record approved, every report true, no retry in conflict
\* with its own record (manage-knowledge-admission.ts).
AdmissionHolds == focus = "knowledge" => AdmissionSafety

\* Checkpoints never fork and are never lost (checkpoint-store.ts).
CheckpointsHold == focus = "checkpoints" => CheckpointSafety

\* What the maintenance commands report is true: of the checkout after an
\* update, of files, service manager and processes after install, status and
\* uninstall.
ReportsHold ==
    /\ focus = "update" => UpdateSafety
    /\ focus = "services" => ServicesSafety
    /\ focus = "purge" => PurgeTypeOK

\* What no maintenance step may do: move the checkout anywhere but forward to
\* the approved revision, call an update complete without its dependencies,
\* remove what was not in the approved plan, the database before the rest, or
\* a knowledge record.
MaintenanceSteps ==
    [][/\ focus = "update" => OnlyApprovedFastForward /\ UpdatedIsComplete
       /\ focus = "purge" => RemovesOnlyThePlan /\ DatabaseLast /\ CompletePurgeLeavesOnlyPreserved
       /\ focus = "knowledge" => RecordsKept
      ]_operationVars
=============================================================================
