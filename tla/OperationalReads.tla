-------------------------- MODULE OperationalReads --------------------------
(***************************************************************************)
(* What the dashboard is told about the work in progress: the pure         *)
(* projections of operational-projection.ts, the counts and samples that   *)
(* SqliteOperationalReadRepository feeds them and the attention lists of    *)
(* OperationalQueryService.  The same condition is often computed twice,    *)
(* once in SQL over a whole project and once in the projection of one       *)
(* entity, and most lists are samples beside an exact total; the properties *)
(* say that the two computations agree and that no sample decides a status. *)
(*                                                                         *)
(* SQLite answers synchronously, so the calls of one Promise.all see one    *)
(* state: a read is an operator of the state.  (PagedReads models the reads   *)
(* that take several awaits.)  The writers below are the committed effects   *)
(* of the commands that TaskBoard, AgentRuns, PipelineRuns and Governance    *)
(* model in detail.  Every write has its own instant, "now".                *)
(***************************************************************************)
EXTENDS Integers, Sequences, SequencesExt, FiniteSetsExt, TaskDomain

CONSTANTS
    Projects, Tasks, Runs, Agents,
    ProjectOf,          \* task -> its project
    TaskOf, AgentOf,    \* run -> its task, its agent
    LeaseLength,        \* instants a task lock is held for
    AttentionLimit,     \* queryLimits.attention
    ConcurrencyLimit,   \* queryLimits.concurrency
    MaxInstant,         \* bound on "now"
    Nobody              \* no agent, no run

ASSUME ReadsAssumption ==
    /\ Projects \cup Tasks \cup Runs \subseteq Nat
    /\ ProjectOf \in [Tasks -> Projects]
    /\ TaskOf \in [Runs -> Tasks]
    /\ AgentOf \in [Runs -> Agents]
    /\ {LeaseLength, AttentionLimit, ConcurrencyLimit} \subseteq Nat \ {0}
    /\ Nobody \notin Agents \cup Runs

VARIABLES
    now,            \* the clock: one instant per write
    taskStatus,     \* task.status
    taskUpdated,    \* task.updated_at
    run,            \* agent_run.status, or "absent"
    runUpdated,     \* agent_run.updated_at
    lock,           \* task_lock: the row of the task, or NoLock
    reviews,        \* instants of the task's pending reviews
    openStage,      \* current stage of the task's active pipeline run, or NoStage
    enabled         \* agent.enabled

readVars == <<now, taskStatus, taskUpdated, run, runUpdated, lock, reviews, openStage, enabled>>

-----------------------------------------------------------------------------
(* Vocabulary.                                                             *)

activeAgentRunStatuses == {"queued", "preparing", "running", "reviewing"}
executingAgentRunStatuses == {"running", "reviewing"}
endedRunStatuses == {"completed", "failed", "cancelled"}
runTransitions ==
    [s \in activeAgentRunStatuses |->
        CASE s = "queued" -> {"preparing", "cancelled"}
          [] s = "preparing" -> {"running", "failed", "cancelled"}
          [] s = "running" -> {"reviewing", "completed", "failed", "cancelled"}
          [] s = "reviewing" -> {"completed", "failed", "cancelled"}]

NoLock == [run |-> Nobody, acquired |-> 0, expires |-> 0]
NoStage == [status |-> "none", agent |-> Nobody, updated |-> 0]

isActive(r) == run[r] \in activeAgentRunStatuses
TaskRuns(t) == {r \in Runs : TaskOf[r] = t /\ run[r] # "absent"}
AgentRunsOf(a) == {r \in Runs : AgentOf[r] = a /\ run[r] # "absent"}
ProjectRuns(P) == {r \in Runs : ProjectOf[TaskOf[r]] \in P /\ run[r] # "absent"}
ProjectTasks(P) == {t \in Tasks : ProjectOf[t] \in P}

FirstOf(s, n) == SubSeq(s, 1, IF Len(s) < n THEN Len(s) ELSE n)

\* Newest first; ties by id.
Newest(S, at(_)) == SetToSortSeq(S, LAMBDA x, y : at(x) > at(y) \/ (at(x) = at(y) /\ x < y))

-----------------------------------------------------------------------------
(* Authoritative aggregates: countTasksByStatus and the others.            *)

countTasksByStatus(P) ==
    [s \in TaskStatuses |-> Cardinality({t \in ProjectTasks(P) : taskStatus[t] = s})]

countAgentRuns(P, statuses) == Cardinality({r \in ProjectRuns(P) : run[r] \in statuses})

\* Only enabled agents: a disabled one never reports "working".
countDistinctRunAgents(P) ==
    Cardinality({AgentOf[r] : r \in {q \in ProjectRuns(P) : isActive(q) /\ enabled[AgentOf[q]]}})

countReviews(P) == MapThenSumSet(LAMBDA t : Cardinality(reviews[t]), ProjectTasks(P))

needsStageAttention(s) == s.status = "awaiting_approval" \/ (s.status = "active" /\ s.agent = Nobody)
countAttentionStages(P) == Cardinality({t \in ProjectTasks(P) : needsStageAttention(openStage[t])})

countActivePipelineRuns(P) == Cardinality({t \in ProjectTasks(P) : openStage[t] # NoStage})

\* Fault: a lease is still good at the very instant a takeover is allowed.
invalidLeasePredicate_Strict(r) ==
    LET l == lock[TaskOf[r]] IN l.run = Nobody \/ l.run # r \/ l.expires < now
\* A run lacks authority unless it owns a lock row that has not expired.
invalidLeasePredicate(r) ==
    LET l == lock[TaskOf[r]] IN l.run = Nobody \/ l.run # r \/ l.expires <= now

UnleasedRuns(P) == {r \in ProjectRuns(P) : isActive(r) /\ invalidLeasePredicate(r)}
countTasksWithoutValidRunLease(P) == Cardinality({TaskOf[r] : r \in UnleasedRuns(P)})

-----------------------------------------------------------------------------
(* Scoped projection inputs: samples limited per entity beside exact counts. *)

topRunsPerPartition(S, limit) == FirstOf(Newest(S, LAMBDA r : runUpdated[r]), limit)

countActiveRunsPerColumn(S) ==
    [count |-> Cardinality({r \in S : isActive(r)}),
     executing |-> Cardinality({r \in S : run[r] \in executingAgentRunStatuses})]

runFacts(S) ==
    LET latest == topRunsPerPartition(S, 1)
        counts == countActiveRunsPerColumn(S)
    IN  [activeRuns |-> topRunsPerPartition({r \in S : isActive(r)}, ConcurrencyLimit),
         activeRunCount |-> counts.count,
         executingRunCount |-> counts.executing,
         latestRun |-> IF latest = <<>> THEN Nobody ELSE latest[1]]

listTaskRunFacts(t) == runFacts(TaskRuns(t))
listAgentRunFacts(a) == runFacts(AgentRunsOf(a))

listTaskLeases(t) ==
    [row |-> lock[t], ownerRunStatus |-> IF lock[t].run = Nobody THEN "absent" ELSE run[lock[t].run]]

listActiveStagesForAgents(a) ==
    LET S == {t \in Tasks : openStage[t] # NoStage /\ openStage[t].agent = a}
    IN  [stages |-> FirstOf(Newest(S, LAMBDA t : openStage[t].updated), ConcurrencyLimit),
         stageCount |-> Cardinality(S),
         awaitingApprovalCount |-> Cardinality({t \in S : openStage[t].status = "awaiting_approval"})]

listTaskReviewFacts(t) ==
    [pendingCount |-> Cardinality(reviews[t]),
     earliestPending |-> IF reviews[t] = {} THEN 0 ELSE Min(reviews[t])]

-----------------------------------------------------------------------------
(* Attention reasons: what, about which subject, since when.               *)

reason(kind, subject, since) == [kind |-> kind, subject |-> subject, since |-> since]

reviewAttentionReason(t, at) == reason("review_pending", t, at)
agentRunAttentionReasons(r) ==
    IF run[r] = "failed" THEN {reason("agent_run_failed", r, runUpdated[r])} ELSE {}
attentionTaskReason(t) ==
    reason(IF taskStatus[t] = "blocked" THEN "task_blocked" ELSE "task_failed", t, taskUpdated[t])

\* The one derivation of a lease anomaly: since the expiry, else since the
\* takeover, else, with no lock row, since the task's own update.
taskLeaseAttention(t, runs, expired) ==
    [kind |-> IF expired THEN "task_lease_expired" ELSE "task_run_without_lease",
     subject |-> t, runs |-> runs,
     since |-> CASE expired -> lock[t].expires
                 [] ~expired /\ lock[t] # NoLock -> lock[t].acquired
                 [] OTHER -> taskUpdated[t]]

\* The same stage, from the attention list's row and from the whole run.
activePipelineStageAttention(t) ==
    IF openStage[t].status = "awaiting_approval"
    THEN {reason("pipeline_stage_awaiting_approval", t, openStage[t].updated)}
    ELSE IF openStage[t].status = "active" /\ openStage[t].agent = Nobody
         THEN {reason("pipeline_stage_unassigned", t, openStage[t].updated)} ELSE {}

projectPipelineRunState(t) ==
    {reason("pipeline_stage_awaiting_approval", t, at) :
        at \in {q \in {openStage[t].updated} : openStage[t].status = "awaiting_approval"}}
    \cup {reason("pipeline_stage_unassigned", t, at) :
        at \in {q \in {openStage[t].updated} : openStage[t].status = "active" /\ openStage[t].agent = Nobody}}

-----------------------------------------------------------------------------
(* Projection of one task and of one agent.                                *)

leaseExpired(t) == lock[t] # NoLock /\ lock[t].expires <= now

\* At most one active run can hold the lease; every other one runs without it.
runsWithoutValidLease(t) ==
    LET l == listTaskLeases(t)
        validLeaseOwnerIsActive == /\ l.row # NoLock /\ ~leaseExpired(t)
                                   /\ l.ownerRunStatus \in activeAgentRunStatuses
    IN  listTaskRunFacts(t).activeRunCount - (IF validLeaseOwnerIsActive THEN 1 ELSE 0)

stoppedOnFailure(t) ==
    LET f == listTaskRunFacts(t)
    IN  /\ f.activeRunCount = 0
        /\ f.latestRun # Nobody /\ run[f.latestRun] = "failed"
        /\ openStage[t] = NoStage

\* The single derivation of a task's operational status.
operationalStatus(t) ==
    LET f == listTaskRunFacts(t)
        awaiting == \/ listTaskReviewFacts(t).pendingCount > 0
                    \/ openStage[t].status = "awaiting_approval"
                    \/ taskStatus[t] = "waiting_review"
    IN  IF taskStatus[t] \in {"cancelled", "failed", "completed", "blocked"} THEN taskStatus[t]
        ELSE IF awaiting THEN "awaiting_review"
        ELSE IF f.activeRunCount > 0
             THEN IF f.executingRunCount > 0 THEN "in_progress" ELSE "scheduled"
        ELSE IF stoppedOnFailure(t) THEN "failed"
        ELSE IF taskStatus[t] = "running" THEN "in_progress"
        ELSE "not_started"

\* Recorded only where the recorded status and a persisted fact disagree.
divergenceReasons(t) ==
    LET f == listTaskRunFacts(t)
    IN  {d \in {"agent_run_active_without_task_transition",
                "agent_run_scheduled_without_task_transition",
                "agent_run_failed_without_task_transition",
                "pipeline_stage_awaiting_approval", "review_pending"} :
          CASE d = "agent_run_active_without_task_transition" ->
                 taskStatus[t] \in {"pending", "assigned"} /\ f.executingRunCount > 0
            [] d = "agent_run_scheduled_without_task_transition" ->
                 /\ taskStatus[t] \in {"pending", "assigned"}
                 /\ f.activeRunCount > 0 /\ f.executingRunCount = 0
            [] d = "agent_run_failed_without_task_transition" ->
                 taskStatus[t] \notin terminalTaskStatuses /\ stoppedOnFailure(t)
            [] d = "pipeline_stage_awaiting_approval" ->
                 taskStatus[t] # "waiting_review" /\ openStage[t].status = "awaiting_approval"
            [] d = "review_pending" -> taskStatus[t] # "waiting_review" /\ reviews[t] # {}}

taskLeaseReasons(t) ==
    IF runsWithoutValidLease(t) > 0
    THEN {taskLeaseAttention(t, runsWithoutValidLease(t), leaseExpired(t))} ELSE {}

taskAttentionReasons(t) ==
    LET f == listTaskRunFacts(t)
        v == listTaskReviewFacts(t)
    IN  (IF v.pendingCount > 0 THEN {reviewAttentionReason(t, v.earliestPending)} ELSE {})
        \cup (IF taskStatus[t] \in {"blocked", "failed"} THEN {attentionTaskReason(t)} ELSE {})
        \cup (IF f.latestRun # Nobody THEN agentRunAttentionReasons(f.latestRun) ELSE {})

\* disabled > working > awaiting_approval > assigned > last_run_failed > idle
projectAgentState(a) ==
    LET f == listAgentRunFacts(a)
        s == listActiveStagesForAgents(a)
    IN  IF ~enabled[a] THEN "disabled"
        ELSE IF f.activeRunCount > 0 THEN "working"
        ELSE IF s.awaitingApprovalCount > 0 THEN "awaiting_approval"
        ELSE IF s.stageCount > 0 THEN "assigned"
        ELSE IF f.latestRun # Nobody /\ run[f.latestRun] = "failed" THEN "last_run_failed"
        ELSE "idle"

-----------------------------------------------------------------------------
(* Bounded samples over projects.                                          *)

boundedList(items, total) == [total |-> total, items |-> items, truncated |-> Len(items) < total]

listAgentRuns(P, statuses, limit) ==
    FirstOf(Newest({r \in ProjectRuns(P) : run[r] \in statuses}, LAMBDA r : runUpdated[r]), limit)

listPendingReviews(P, limit) ==
    FirstOf(SetToSortSeq(UNION {{<<t, at>> : at \in reviews[t]} : t \in ProjectTasks(P)},
                         LAMBDA v, w : v[2] > w[2]), limit)

listAttentionTasks(P, limit) ==
    FirstOf(Newest({t \in ProjectTasks(P) : taskStatus[t] \in {"blocked", "failed"}},
                   LAMBDA t : taskUpdated[t]), limit)

listActivePipelineStages(P, limit) ==
    FirstOf(Newest({t \in ProjectTasks(P) : needsStageAttention(openStage[t])},
                   LAMBDA t : openStage[t].updated), limit)

\* leaseAnomalySinceExpression: the ORDER BY of the list.
leaseAnomalySince(t) ==
    IF lock[t] = NoLock THEN taskUpdated[t]
    ELSE IF lock[t].expires <= now THEN lock[t].expires ELSE lock[t].acquired

\* Grouped per task: one anomaly is one affected task.
listTasksWithoutValidRunLease(P, limit) ==
    LET tasks == FirstOf(Newest({TaskOf[r] : r \in UnleasedRuns(P)}, leaseAnomalySince), limit)
        anomaly(t) == taskLeaseAttention(t, Cardinality({r \in UnleasedRuns(P) : TaskOf[r] = t}),
                                         lock[t] # NoLock /\ lock[t].expires <= now)
    IN  [i \in DOMAIN tasks |-> anomaly(tasks[i])]

-----------------------------------------------------------------------------
(* The attention list of a project, from samples taken over the projects P. *)

attentionTaskTotal(p) ==
    countTasksByStatus({p})["blocked"] + countTasksByStatus({p})["failed"]

attentionTotal(p) ==
    countReviews({p}) + countAgentRuns({p}, {"failed"}) + countAttentionStages({p})
    + countTasksWithoutValidRunLease({p}) + attentionTaskTotal(p)

attentionItems(p, P, limit) ==
    LET inProject(s, t(_)) == SelectSeq(s, LAMBDA x : ProjectOf[t(x)] = p)
        each(s, f(_)) == [i \in DOMAIN s |-> f(s[i])]
        single(S) == CHOOSE x \in S : TRUE
    IN  each(inProject(listPendingReviews(P, limit), LAMBDA v : v[1]),
             LAMBDA v : reviewAttentionReason(v[1], v[2]))
        \o each(inProject(listAgentRuns(P, {"failed"}, limit), LAMBDA r : TaskOf[r]),
                LAMBDA r : single(agentRunAttentionReasons(r)))
        \o each(inProject(listActivePipelineStages(P, limit), LAMBDA t : t),
                LAMBDA t : single(activePipelineStageAttention(t)))
        \o each(inProject(listAttentionTasks(P, limit), LAMBDA t : t), attentionTaskReason)
        \o inProject(listTasksWithoutValidRunLease(P, limit), LAMBDA a : a.subject)

projectAttention(p, P, limit) ==
    LET items == attentionItems(p, P, limit)
    IN  [total |-> attentionTotal(p),
         items |-> FirstOf(items, limit),
         truncated |-> Len(items) < attentionTotal(p)]

summary(p, P) ==
    LET counts == countTasksByStatus({p})
        attention == projectAttention(p, P, AttentionLimit)
    IN  [openTasks |-> MapThenSumSet(LAMBDA s : counts[s], TaskStatuses \ terminalTaskStatuses),
         activeAgentRuns |-> countAgentRuns({p}, activeAgentRunStatuses),
         activePipelineRuns |-> countActivePipelineRuns({p}),
         pendingReviews |-> countReviews({p}),
         agentsWorking |-> countDistinctRunAgents({p}),
         attentionRequired |-> attention.total > 0,
         attention |-> attention]

getProjectDetail(p) == summary(p, {p})

getDashboardOverview ==
    LET summaries == [p \in Projects |-> summary(p, Projects)]
        order == SetToSortSeq(Projects, <)
        items == FoldSeq(LAMBDA p, acc : acc \o summaries[p].attention.items, <<>>, Reverse(order))
        total == MapThenSumSet(LAMBDA p : summaries[p].attention.total, Projects)
    IN  [projects |-> summaries,
         agentsWorking |-> MapThenSumSet(LAMBDA p : summaries[p].agentsWorking, Projects),
         attention |-> [total |-> total, items |-> FirstOf(items, AttentionLimit),
                        truncated |-> Len(items) < total],
         activeRuns |-> boundedList(listAgentRuns(Projects, activeAgentRunStatuses, AttentionLimit),
                                    countAgentRuns(Projects, activeAgentRunStatuses))]

-----------------------------------------------------------------------------
(* Writers.  Each commits at a new instant.                                *)

ReadsInit ==
    /\ now = 0
    /\ taskStatus = [t \in Tasks |-> "pending"]
    /\ taskUpdated = [t \in Tasks |-> 0]
    /\ run = [r \in Runs |-> "absent"]
    /\ runUpdated = [r \in Runs |-> 0]
    /\ lock = [t \in Tasks |-> NoLock]
    /\ reviews = [t \in Tasks |-> {}]
    /\ openStage = [t \in Tasks |-> NoStage]
    /\ enabled = [a \in Agents |-> TRUE]

commit == now < MaxInstant /\ now' = now + 1

WriteTask(t, s) ==
    /\ s \in taskTransitions[taskStatus[t]]
    /\ commit
    /\ taskStatus' = [taskStatus EXCEPT ![t] = s]
    /\ taskUpdated' = [taskUpdated EXCEPT ![t] = now']
    /\ UNCHANGED <<run, runUpdated, lock, reviews, openStage, enabled>>

\* Inserts a queued run and takes the task's lock, or takes it over once it
\* has expired; the owner it is taken from keeps running.
ScheduleRun(r) ==
    LET t == TaskOf[r] IN
    /\ run[r] = "absent"
    /\ isTaskRunnable(taskStatus[t])
    /\ enabled[AgentOf[r]]
    /\ commit
    /\ lock[t] = NoLock \/ lock[t].expires <= now'
    /\ lock' = [lock EXCEPT ![t] = [run |-> r, acquired |-> now', expires |-> now' + LeaseLength]]
    /\ run' = [run EXCEPT ![r] = "queued"]
    /\ runUpdated' = [runUpdated EXCEPT ![r] = now']
    /\ UNCHANGED <<taskStatus, taskUpdated, reviews, openStage, enabled>>

\* The lock is released with the run's end, or is left when that write fails.
MoveRun(r, s, released) ==
    LET t == TaskOf[r] IN
    /\ isActive(r) /\ s \in runTransitions[run[r]]
    /\ released => s \in endedRunStatuses /\ lock[t].run = r
    /\ commit
    /\ run' = [run EXCEPT ![r] = s]
    /\ runUpdated' = [runUpdated EXCEPT ![r] = now']
    /\ lock' = IF released THEN [lock EXCEPT ![t] = NoLock] ELSE lock
    /\ UNCHANGED <<taskStatus, taskUpdated, reviews, openStage, enabled>>

RenewLock(r) ==
    LET t == TaskOf[r] IN
    /\ isActive(r) /\ lock[t].run = r /\ lock[t].expires > now
    /\ commit
    /\ lock' = [lock EXCEPT ![t].expires = now' + LeaseLength]
    /\ UNCHANGED <<taskStatus, taskUpdated, run, runUpdated, reviews, openStage, enabled>>

RequestReview(t) ==
    /\ commit
    /\ reviews' = [reviews EXCEPT ![t] = @ \cup {now'}]
    /\ UNCHANGED <<taskStatus, taskUpdated, run, runUpdated, lock, openStage, enabled>>

DecideReview(t, at) ==
    /\ at \in reviews[t]
    /\ commit
    /\ reviews' = [reviews EXCEPT ![t] = @ \ {at}]
    /\ UNCHANGED <<taskStatus, taskUpdated, run, runUpdated, lock, openStage, enabled>>

\* pipeline:start, assign, complete (for approval) and the move to the next stage.
WriteStage(t, s) ==
    /\ \/ openStage[t] = NoStage /\ taskStatus[t] \notin terminalTaskStatuses /\ s.status = "active" /\ s.agent = Nobody
       \/ openStage[t].status = "active" /\ openStage[t].agent = Nobody
          /\ s.status = "active" /\ s.agent # Nobody /\ enabled[s.agent]
       \/ openStage[t].status = "active" /\ openStage[t].agent # Nobody
          /\ s.status = "awaiting_approval" /\ s.agent = openStage[t].agent
       \/ openStage[t].agent # Nobody /\ s.status = "active" /\ s.agent = Nobody
    /\ commit
    /\ openStage' = [openStage EXCEPT ![t] = [s EXCEPT !.updated = now']]
    /\ UNCHANGED <<taskStatus, taskUpdated, run, runUpdated, lock, reviews, enabled>>

EndPipeline(t) ==
    /\ openStage[t] # NoStage
    /\ commit
    /\ openStage' = [openStage EXCEPT ![t] = NoStage]
    /\ UNCHANGED <<taskStatus, taskUpdated, run, runUpdated, lock, reviews, enabled>>

DisableAgent(a) ==
    /\ enabled[a]
    /\ commit
    /\ enabled' = [enabled EXCEPT ![a] = FALSE]
    /\ UNCHANGED <<taskStatus, taskUpdated, run, runUpdated, lock, reviews, openStage>>

TimePasses ==
    /\ commit
    /\ UNCHANGED <<taskStatus, taskUpdated, run, runUpdated, lock, reviews, openStage, enabled>>

StageWrites == [status : {"active", "awaiting_approval"}, agent : Agents \cup {Nobody},
                updated : {0}]

ReadsNext ==
    \/ \E t \in Tasks, s \in TaskStatuses : WriteTask(t, s)
    \/ \E r \in Runs : ScheduleRun(r) \/ RenewLock(r)
    \/ \E r \in Runs, s \in activeAgentRunStatuses \cup endedRunStatuses, released \in BOOLEAN :
          MoveRun(r, s, released)
    \/ \E t \in Tasks : RequestReview(t) \/ EndPipeline(t)
    \/ \E t \in Tasks, at \in 1 .. MaxInstant : DecideReview(t, at)
    \/ \E t \in Tasks, s \in StageWrites : WriteStage(t, s)
    \/ \E a \in Agents : DisableAgent(a)
    \/ TimePasses

ReadsSpec == ReadsInit /\ [][ReadsNext]_readVars

-----------------------------------------------------------------------------
ReadsTypeOK ==
    /\ now \in 0 .. MaxInstant
    /\ taskStatus \in [Tasks -> TaskStatuses]
    /\ taskUpdated \in [Tasks -> 0 .. now]
    /\ run \in [Runs -> {"absent"} \cup activeAgentRunStatuses \cup endedRunStatuses]
    /\ runUpdated \in [Runs -> 0 .. now]
    /\ \A t \in Tasks :
         /\ lock[t] # NoLock => /\ lock[t].run \in Runs /\ TaskOf[lock[t].run] = t
                                /\ run[lock[t].run] # "absent"
                                /\ lock[t].acquired \in 1 .. now
         /\ reviews[t] \subseteq 1 .. now
         /\ openStage[t] # NoStage => openStage[t].status \in {"active", "awaiting_approval"}
    /\ enabled \in [Agents -> BOOLEAN]

\* The lease anomaly of a task is the same whichever query reports it: the
\* projection of the task (exact counts minus the valid owner) and the
\* project-wide list (a SQL predicate per run) find it together and give the
\* same kind, number of runs and starting instant, and the list is ordered by
\* the instant it reports (taskLeaseAttention, invalidLeasePredicate,
\* leaseAnomalySinceExpression).
LeaseAnomalyAgrees ==
    LET listed == listTasksWithoutValidRunLease(Projects, Cardinality(Tasks))
    IN  /\ UNION {taskLeaseReasons(t) : t \in Tasks} = ToSet(listed)
        /\ Len(listed) = MapThenSumSet(LAMBDA p : countTasksWithoutValidRunLease({p}), Projects)
        /\ \A i \in 1 .. Len(listed) - 1 : listed[i].since >= listed[i + 1].since

\* No status depends on which runs a bounded sample happened to hold, and no
\* stale failure hides live work: an open task with an executing run is never
\* shown as scheduled, stopped or not started, and it is shown as failed only
\* when the record says so or nothing is left that could carry it on
\* (projectTaskOperationalState).
StatusShowsTheWork ==
    \A t \in Tasks :
        LET executing == \E r \in TaskRuns(t) : run[r] \in executingAgentRunStatuses
            open == taskStatus[t] \in {"pending", "assigned", "running"}
        IN  /\ executing /\ open => operationalStatus(t) \in {"in_progress", "awaiting_review"}
            /\ operationalStatus(t) = "failed" =>
                 \/ taskStatus[t] = "failed"
                 \/ /\ \A r \in TaskRuns(t) : ~isActive(r)
                    /\ openStage[t] = NoStage
                    /\ \E r \in TaskRuns(t) : run[r] = "failed"
            /\ operationalStatus(t) = "scheduled" => \E r \in TaskRuns(t) : isActive(r)

\* The number of agents at work in the summaries is the number of agents whose
\* own state says "working" (countDistinctRunAgents, projectAgentState).
WorkingAgentsAgree ==
    MapThenSumSet(LAMBDA p : countDistinctRunAgents({p}), Projects)
        = Cardinality({a \in Agents : projectAgentState(a) = "working"})

\* Nothing that needs attention is hidden by a limit: a task, a lease or a
\* stage that needs it makes its project need it, and a list shows no more than
\* its exact total (attentionTotal, projectProjectSummary).
AttentionSurfaces ==
    \A p \in Projects :
        LET s == summary(p, Projects)
        IN  /\ (\E t \in ProjectTasks({p}) :
                   taskAttentionReasons(t) \cup taskLeaseReasons(t) \cup projectPipelineRunState(t) # {})
               => s.attentionRequired
            /\ Len(attentionItems(p, Projects, AttentionLimit)) <= s.attention.total
            /\ Len(attentionItems(p, {p}, s.attention.total + 1)) = s.attention.total

\* A task recorded as neither waiting for review nor at an end, but shown as
\* awaiting review or failed, or started before its record says so, is
\* reported as diverging (divergenceReasons).
DivergenceReported ==
    \A t \in Tasks :
        LET shown == operationalStatus(t)
        IN  (\/ shown = "awaiting_review" /\ taskStatus[t] # "waiting_review"
             \/ shown = "failed" /\ taskStatus[t] # "failed"
             \/ shown \in {"in_progress", "scheduled"} /\ taskStatus[t] \in {"pending", "assigned"})
            => divergenceReasons(t) # {}

\* A list that says it was truncated misses something (operational-read-models.ts:
\* "True when items does not contain every matching record").
TruncatedMissesSomething ==
    LET lists == {getProjectDetail(p).attention : p \in Projects} \cup {getDashboardOverview.attention}
    IN  \A l \in lists : l.truncated => Len(l.items) < l.total

\* What the read models say agrees with the records and with each other.
ReadsSafety ==
    /\ ReadsTypeOK /\ LeaseAnomalyAgrees /\ StatusShowsTheWork /\ WorkingAgentsAgree
    /\ AttentionSurfaces /\ DivergenceReported /\ TruncatedMissesSomething
=============================================================================
