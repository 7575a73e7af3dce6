------------------------- MODULE TaskReconciliation -------------------------
(***************************************************************************)
(* task:reconcile compares tasks with the pipelines, agent runs, linked    *)
(* requirements and milestones they stand for, reports contradictions, and *)
(* repairs those whose outcome is determined, against the exact plan an    *)
(* operator approved.                                                      *)
(*                                                                         *)
(* A repair is one transaction: the plan is derived again inside it, must  *)
(* have the approved hash, and its repairs are applied in order or not at  *)
(* all.  The hash of a plan is modelled by what it covers.                 *)
(*                                                                         *)
(* The prerequisite edges are fixed and acyclic (TaskBoard is about their  *)
(* editing), so the two findings about broken edges never occur.  Titles   *)
(* are abstracted to the pairs the title heuristic calls similar.          *)
(***************************************************************************)
EXTENDS TaskDomain, FiniteSets, SequencesExt

CONSTANTS TaskOrder,      \* the tasks in the order listByProject returns them
          TaskEdges,      \* <<task, the task it depends on>>
          LinkedTasks,    \* the tasks linked to the requirement
          SimilarTasks,   \* <<later task, earlier task>> with similar titles
          PipelineTasks,  \* the tasks that pipelines are started for
          RunTasks,       \* the tasks that agent runs are started for
          MaxPipelineRows \* pipelines ever started

BoardTasks == ToSet(TaskOrder)

ASSUME ReconcileAssumption ==
    /\ TaskEdges \subseteq BoardTasks \X BoardTasks
    /\ \A C \in (SUBSET BoardTasks) \ {{}} : \E t \in C : \A p \in C : <<t, p>> \notin TaskEdges
    /\ LinkedTasks \subseteq BoardTasks /\ PipelineTasks \cup RunTasks \subseteq BoardTasks
    /\ MaxPipelineRows \in Nat

VARIABLES
    taskStatus,    \* [BoardTasks -> TaskStatuses]
    pipelineRows,  \* [BoardTasks -> set of statuses of the task's pipelines]
    activeRuns,    \* tasks with an agent run that is not over
    requirement,   \* status of the linked requirement
    milestone,     \* status of the requirement's milestone
    started,       \* pipelines started so far, a bound
    shown          \* what the operator holds: the hash, and the repairs behind it

reconcileVars ==
    <<taskStatus, pipelineRows, activeRuns, requirement, milestone, started, shown>>

NothingShown == [hash |-> {}, repairs |-> {}]

-----------------------------------------------------------------------------
(* Inspection: a pure function of the rows it reads.                       *)

PrerequisitesOf(t) == {p \in BoardTasks : <<t, p>> \in TaskEdges}

\* Statuses are passed so that the same test serves a batch half applied.
blockingPrerequisites(s, t, need) == {p \in PrerequisitesOf(t) : s[p] \notin satisfying(need)}

reviewExits(s, t) ==
    {[task |-> p, to |-> s[p]] : p \in {q \in PrerequisitesOf(t) :
                                          s[q] \in {"blocked", "failed", "cancelled"}}}

inFlightTaskStatuses == {"assigned", "running", "waiting_review"}

executing(t) == t \in activeRuns \/ "active" \in pipelineRows[t]

terminalRequirementStatuses == {"verified", "rejected"}

\* requirementProgress of the requirements linked to a task.
progress(t) ==
    IF t \notin LinkedTasks THEN "none"
    ELSE IF requirement \in terminalRequirementStatuses THEN "terminal" ELSE "open"

\* A suggestion names a lifecycle operation, or the historical attestation.
Issue(t, finding, suggest, repair, exits) ==
    [task |-> t, finding |-> finding, suggest |-> suggest, repair |-> repair, exits |-> exits]

Reported(t, finding) == Issue(t, finding, "none", "none", {})

\* A prerequisite that can never complete asks for a cancel, one that is only
\* blocked for a block; live execution is never stopped by a batch.
dependencyIssues(t) ==
    LET exits == reviewExits(taskStatus, t)
        operation == IF \E e \in exits : e.to \in terminalTaskStatuses THEN "cancel" ELSE "block"
    IN IF \/ blockingPrerequisites(taskStatus, t, "start") = {}
          \/ taskStatus[t] \in terminalTaskStatuses
       THEN {}
       ELSE IF taskStatus[t] \in {"running", "waiting_review"} /\ exits # {}
            THEN {Issue(t, "blocking_prerequisite_incomplete", operation,
                        IF executing(t) THEN "none" ELSE operation, exits)}
            ELSE {Reported(t, "blocking_prerequisite_incomplete")}

governanceIssues(t) ==
    IF t \notin LinkedTasks THEN {}
    ELSE {Reported(t, f) : f \in {g \in {"completed_milestone_active_task",
                                          "verified_requirement_competing_tasks",
                                          "verified_requirement_duplicate_tasks"} :
            CASE g = "completed_milestone_active_task" ->
                   milestone \in {"completed", "archived"} /\ taskStatus[t] \in inFlightTaskStatuses
              [] g = "verified_requirement_competing_tasks" ->
                   /\ requirement = "verified" /\ taskStatus[t] \in inFlightTaskStatuses
                   /\ \E p \in LinkedTasks : /\ <<t, p>> \in SimilarTasks \/ <<p, t>> \in SimilarTasks
                                             /\ taskStatus[p] = "completed"
              [] OTHER ->
                   /\ requirement = "verified" /\ taskStatus[t] \in terminalTaskStatuses
                   /\ \E p \in LinkedTasks : <<t, p>> \in SimilarTasks
                                             /\ taskStatus[p] \in terminalTaskStatuses}}

\* The correction an operator may attest to, where the lifecycle cannot help.
correctionCommandFor(from, to) ==
    IF to = "completed" /\ isHistoricalCompletionApplicable(from) THEN "record" ELSE "none"

lifecycleAllows(from, to) == isTaskTransitionAllowed(from, to)

\* Fault: a task that already has a repair in the plan gets a second one.
pipelineIssue_NotCovered(t) ==
    LET outcomes == pipelineRows[t] \ {"active"}
        to == IF "completed" \in outcomes THEN "completed" ELSE "cancelled"
        operation == IF to = "completed" THEN "complete" ELSE "cancel"
        reachable == lifecycleAllows(taskStatus[t], to)
        open == to = "completed" /\ blockingPrerequisites(taskStatus, t, "completion") # {}
    IN Issue(t, "terminal_pipeline_open_task",
             IF open THEN "none" ELSE IF reachable THEN operation ELSE correctionCommandFor(taskStatus[t], to),
             IF Cardinality(outcomes) = 1 /\ "active" \notin pipelineRows[t] /\ reachable /\ ~open
             THEN operation ELSE "none", {})

\* A terminal pipeline whose task never followed it.  Pipelines that ended
\* differently, or one still active, determine no outcome.
pipelineIssue(t) ==
    LET outcomes == pipelineRows[t] \ {"active"}
        to == IF "completed" \in outcomes THEN "completed" ELSE "cancelled"
        operation == IF to = "completed" THEN "complete" ELSE "cancel"
        ambiguous == Cardinality(outcomes) > 1 \/ "active" \in pipelineRows[t]
        reachable == lifecycleAllows(taskStatus[t], to)
        open == to = "completed" /\ blockingPrerequisites(taskStatus, t, "completion") # {}
        covered == \E i \in dependencyIssues(t) : i.repair # "none"
    IN Issue(t, "terminal_pipeline_open_task",
             IF open THEN "none" ELSE IF reachable THEN operation ELSE correctionCommandFor(taskStatus[t], to),
             IF ~ambiguous /\ reachable /\ ~open /\ ~covered THEN operation ELSE "none", {})

leftBehind(t) == pipelineRows[t] \ {"active"} # {} /\ taskStatus[t] \notin terminalTaskStatuses

stalePendingIssues(t) ==
    IF taskStatus[t] \in {"pending", "assigned"} /\ progress(t) = "terminal"
    THEN {Issue(t, "stale_pending_task", correctionCommandFor(taskStatus[t], "completed"), "none", {})}
    ELSE {}

\* Findings that are only ever reported.
reportedIssues(t) ==
    {Reported(t, f) : f \in {g \in {"active_pipeline_terminal_task", "completed_task_open_requirements",
                                     "in_flight_task_without_execution"} :
        CASE g = "active_pipeline_terminal_task" ->
               "active" \in pipelineRows[t] /\ taskStatus[t] \in terminalTaskStatuses
          [] g = "completed_task_open_requirements" ->
               taskStatus[t] = "completed" /\ progress(t) = "open"
          [] OTHER ->
               ~leftBehind(t) /\ taskStatus[t] \in inFlightTaskStatuses /\ ~executing(t)}}

taskIssues(t) ==
    dependencyIssues(t) \cup governanceIssues(t)
      \cup (IF leftBehind(t) THEN {pipelineIssue(t)} ELSE {})
      \cup stalePendingIssues(t) \cup reportedIssues(t)

\* Fault: prerequisites may be repaired by the same plan.
deferConflicts_Never(issues) == issues

\* A review-exit repair waits for the repairs of its prerequisites, and is not
\* suggested as a direct command meanwhile.
deferConflicts(issues) ==
    LET repaired == {i.task : i \in {j \in issues : j.repair # "none"}}
    IN {IF i.repair # "none" /\ i.exits # {} /\ PrerequisitesOf(i.task) \cap repaired # {}
        THEN [i EXCEPT !.repair = "none", !.suggest = "none"] ELSE i : i \in issues}

inspect == deferConflicts(UNION {taskIssues(t) : t \in BoardTasks})

repairsOf(issues) ==
    {[task |-> i.task, finding |-> i.finding, from |-> taskStatus[i.task],
      operation |-> i.repair, exits |-> i.exits] : i \in {j \in issues : j.repair # "none"}}

reconcileHash(repairs) == repairs

-----------------------------------------------------------------------------
(* Applying a plan: the repairs in issue order, each through the lifecycle *)
(* service, in one transaction.                                            *)

targetOf == [cancel |-> "cancelled", block |-> "blocked", complete |-> "completed"]

applyWithinCurrentTransaction(s, r) ==
    LET to == targetOf[r.operation]
    IN [ok |-> /\ isTaskTransitionAllowed(s[r.task], to)
               /\ to = "completed" => blockingPrerequisites(s, r.task, "completion") = {},
        status |-> [s EXCEPT ![r.task] = to]]

\* The exit set is read again just before a review-exit repair.
applyRepair(batch, r) ==
    IF ~batch.ok THEN batch
    ELSE IF r.exits # {} /\ reviewExits(batch.status, r.task) # r.exits
         THEN [batch EXCEPT !.ok = FALSE]
         ELSE applyWithinCurrentTransaction(batch.status, r)

\* At most one repair per task, save under a fault: the dependency finding first.
inIssueOrder(repairs) ==
    LET of(t, f) == SetToSeq({r \in repairs : r.task = t /\ r.finding = f})
    IN FlattenSeq([k \in 1 .. Len(TaskOrder) |->
         of(TaskOrder[k], "blocking_prerequisite_incomplete")
           \o of(TaskOrder[k], "terminal_pipeline_open_task")])

applyPlan(repairs) ==
    FoldLeft(applyRepair, [ok |-> TRUE, status |-> taskStatus], inIssueOrder(repairs))

-----------------------------------------------------------------------------
ReconcileInit ==
    /\ taskStatus = [t \in BoardTasks |-> "pending"]
    /\ pipelineRows = [t \in BoardTasks |-> {}]
    /\ activeRuns = {}
    /\ requirement = "implemented"
    /\ milestone = "completed"
    /\ started = 0
    /\ shown = NothingShown

\* task:start, submit-review, complete, block, unblock, fail and cancel.
Lifecycle(t, to) ==
    /\ isTaskTransitionAllowed(taskStatus[t], to)
    /\ to = "running" => blockingPrerequisites(taskStatus, t, "start") = {}
    /\ to = "completed" => blockingPrerequisites(taskStatus, t, "completion") = {}
    /\ taskStatus' = [taskStatus EXCEPT ![t] = to]
    /\ UNCHANGED <<pipelineRows, activeRuns, requirement, milestone, started, shown>>

\* Agent runs come and go while their task is runnable.
RunMoves(t) ==
    /\ t \in activeRuns \/ (isTaskRunnable(taskStatus[t])
                            /\ blockingPrerequisites(taskStatus, t, "start") = {})
    /\ activeRuns' = IF t \in activeRuns THEN activeRuns \ {t} ELSE activeRuns \cup {t}
    /\ UNCHANGED <<taskStatus, pipelineRows, requirement, milestone, started, shown>>

PipelineStarts(t) ==
    /\ started < MaxPipelineRows /\ "active" \notin pipelineRows[t]
    /\ taskStatus[t] \in {"pending", "running", "waiting_review"}
    /\ blockingPrerequisites(taskStatus, t, "start") = {}
    /\ started' = started + 1
    /\ pipelineRows' = [pipelineRows EXCEPT ![t] = @ \cup {"active"}]
    /\ taskStatus' = [taskStatus EXCEPT ![t] = IF @ = "pending" THEN "running" ELSE @]
    /\ UNCHANGED <<activeRuns, requirement, milestone, shown>>

\* A pipeline ends and its task follows - unless this was interrupted, which is
\* the damage the command exists for.
PipelineEnds(t, outcome, interrupted) ==
    /\ "active" \in pipelineRows[t]
    /\ pipelineRows' = [pipelineRows EXCEPT ![t] = (@ \ {"active"}) \cup {outcome}]
    /\ interrupted \/ (/\ lifecycleAllows(taskStatus[t], outcome)
                       /\ outcome = "completed" => blockingPrerequisites(taskStatus, t, "completion") = {})
    /\ taskStatus' = IF interrupted THEN taskStatus ELSE [taskStatus EXCEPT ![t] = outcome]
    /\ UNCHANGED <<activeRuns, requirement, milestone, started, shown>>

GovernanceMoves ==
    /\ \/ requirement' \in governanceTransitions["requirement"][requirement] /\ UNCHANGED milestone
       \/ milestone' \in governanceTransitions["milestone"][milestone] /\ UNCHANGED requirement
    /\ UNCHANGED <<taskStatus, pipelineRows, activeRuns, started, shown>>

\* task:reconcile: the report, and the hash to approve when there is a plan.
Reconcile ==
    LET repairs == repairsOf(inspect)
    IN /\ repairs # {}
       /\ shown' = [hash |-> reconcileHash(repairs), repairs |-> repairs]
       /\ UNCHANGED <<taskStatus, pipelineRows, activeRuns, requirement, milestone, started>>

\* task:reconcile --fix --approve: all the repairs, or an error and none.
repair ==
    LET repairs == repairsOf(inspect)
        batch == applyPlan(repairs)
    IN /\ shown # NothingShown
       /\ repairs # {} /\ reconcileHash(repairs) = shown.hash
       /\ batch.ok /\ taskStatus' = batch.status
       /\ shown' = NothingShown
       /\ UNCHANGED <<pipelineRows, activeRuns, requirement, milestone, started>>

ReconcileNext ==
    \/ \E t \in BoardTasks :
         \/ \E to \in TaskStatuses : Lifecycle(t, to)
         \/ t \in RunTasks /\ RunMoves(t)
         \/ t \in PipelineTasks /\ PipelineStarts(t)
         \/ \E o \in {"completed", "cancelled"}, i \in BOOLEAN : PipelineEnds(t, o, i)
    \/ GovernanceMoves \/ Reconcile \/ repair

ReconcileSpec == ReconcileInit /\ [][ReconcileNext]_reconcileVars

-----------------------------------------------------------------------------
ReconcileTypeOK ==
    /\ taskStatus \in [BoardTasks -> TaskStatuses]
    /\ pipelineRows \in [BoardTasks -> SUBSET {"active", "completed", "cancelled"}]
    /\ activeRuns \subseteq BoardTasks
    /\ requirement \in DOMAIN governanceTransitions["requirement"]
    /\ milestone \in DOMAIN governanceTransitions["milestone"]

\* Whatever state the board is in, the plan that inspection derives from it can
\* be applied as a whole: no repair of it is refused because of an earlier one
\* or by the lifecycle (one repair per task, prerequisites of a completion,
\* deferred conflicts).
PlanAppliesAsAWhole == LET repairs == repairsOf(inspect) IN repairs # {} => applyPlan(repairs).ok

\* The comment on suggestedCommand: "Always executable from `status` as shown."
\* Every command the report suggests would be accepted in the state reported.
SuggestionsExecutable ==
    \A i \in inspect : i.suggest # "none" =>
        IF i.suggest = "record" THEN isHistoricalCompletionApplicable(taskStatus[i.task])
        ELSE applyWithinCurrentTransaction(
               taskStatus, [task |-> i.task, operation |-> i.suggest]).ok

\* An applied plan is the plan the operator was shown, down to the review exits
\* each repair is justified by, however long ago it was shown and whatever
\* commands ran since (the plan hash).
RepairsWereShown ==
    shown # NothingShown /\ shown' = NothingShown => repairsOf(inspect) = shown.repairs

\* A plan never blocks a dependent behind a prerequisite that can no longer
\* complete, not even one that the same plan cancels: such a dependent is
\* cancelled, by this plan or by the next.
NeverStranded ==
    shown # NothingShown /\ shown' = NothingShown =>
        \A t \in BoardTasks : taskStatus'[t] = "blocked" /\ taskStatus[t] # "blocked" =>
            \A p \in PrerequisitesOf(t) : taskStatus'[p] \notin {"failed", "cancelled"}

\* What inspection derives from any board can be carried out as reported.
ReconcileSafety == ReconcileTypeOK /\ PlanAppliesAsAWhole /\ SuggestionsExecutable

=============================================================================
