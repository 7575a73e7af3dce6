---------------------------- MODULE PipelineRuns ----------------------------
(***************************************************************************)
(* Enforced pipelines: a sequence of stages per task, each assigned to an  *)
(* agent, worked on by an agent run bound to it, and where required gated  *)
(* by an operator's approval; the orchestrator that schedules stage runs;  *)
(* and the recovery of suspended stages.                                   *)
(*                                                                         *)
(* Actors.  The operator's commands go through the daemon's CommandQueue,  *)
(* one at a time.  Beside them run the ticks (executions, the bridge from  *)
(* a completed run to its stage, the recovery sweep) and the queue worker  *)
(* (pipeline:orchestrate).  A transaction is one step; what an actor read  *)
(* before it is carried in starting, job, todo and bridge, which a crash   *)
(* loses.                                                                  *)
(*                                                                         *)
(* Abstracted: manifests, packs, pins, audit events, rationale.  change()  *)
(* reads and writes the row in one transaction, so the version check of    *)
(* PipelineRunRepository.save succeeds and versions are left out.  The     *)
(* operator is always "local-operator", never an agent, so an independent  *)
(* approval differs in nothing from any other.  A stage's run is queued,   *)
(* running or orphaned as in AgentRuns, whose task lock admits one         *)
(* unfinished run per task.  Prerequisites and agents do not change.       *)
(***************************************************************************)
EXTENDS TaskDomain, Naturals, FiniteSets

CONSTANTS Tasks,
          Prerequisites,    \* task -> the tasks it depends on, frozen by the start
          NumPipelines,     \* pipeline runs, numbered in the order of their ids
          TaskOf,           \* pipeline run -> its task
          NumStages,
          RequiresApproval, \* stages with requiresApproval
          Separated,        \* stage -> requiresDifferentAgentFrom
          Agents,           \* enabled agents, numbered in the order of their ids
          Serves,           \* agent -> the stages whose role is its own
          Workers,          \* who orchestrates: the operator and, with a provider, the queue
          NoStart,          \* no pipeline:start is under way
          MaxCrashes        \* bound on crashes

Pipelines == 1 .. NumPipelines
Stages == 1 .. NumStages
NoAgent == 0

\* Separation names earlier stages only: the manifest schema refuses others.
ASSUME PipelineAssumption ==
    /\ Prerequisites \in [Tasks -> SUBSET Tasks]
    /\ NumPipelines \in Nat \ {0}
    /\ TaskOf \in [Pipelines -> Tasks]
    /\ NumStages \in Nat \ {0}
    /\ RequiresApproval \subseteq Stages
    /\ Separated \in [Stages -> SUBSET Stages]
    /\ \A s \in Stages : \A e \in Separated[s] : e < s
    /\ Agents \subseteq Nat \ {NoAgent}
    /\ Serves \in [Agents -> SUBSET Stages]
    /\ "operator" \in Workers
    /\ NoStart \notin [p : Pipelines, from : TaskStatuses]
    /\ MaxCrashes \in Nat

VARIABLES
    taskStatus,
    pstatus, cur,   \* pipeline_run.status ("absent" before the start), current_stage_index
    stage, agent,   \* pipeline_stage_run.status, assigned_agent_id
    decided,        \* the approval decision, or that pipeline_override names the stage
    open,           \* the unfinished agent run bound to a stage
    done, stopped,  \* stages with a completed, and with a failed or cancelled, run
    loose,          \* tasks with an unfinished run that is bound to no stage
    starting,       \* pipeline:start past its reads, with the task status it read
    due,            \* task:complete has committed and its sweep is to follow
    bridge,         \* stages whose run completed and whose tick has yet to say so
    job,            \* orchestrations and run:schedule commands under way
    todo,           \* what a recovery sweep has still to resume
    crashes

board == <<taskStatus, pstatus, cur, stage, decided>>
runs == <<open, done, stopped, loose>>
host == <<starting, due, bridge, job, todo>>
vars == <<taskStatus, pstatus, cur, stage, agent, decided, open, done, stopped, loose,
          starting, due, bridge, job, todo, crashes>>

StageStatuses == {"pending", "active", "awaiting_approval", "completed", "cancelled"}
Sweepers == {"command", "tick"}
IdleJob == [at |-> "idle", p |-> 1, s |-> 1, a |-> NoAgent]

-----------------------------------------------------------------------------
prerequisitesComplete(t, requirement) ==
    \A q \in Prerequisites[t] : taskStatus[q] \in satisfying(requirement)

\* Fault: a pipeline whose task went back to pending no longer counts.
activePipelines_RunningOnly(t) ==
    {p \in Pipelines : TaskOf[p] = t /\ pstatus[p] = "active" /\ taskStatus[t] = "running"}

\* findActiveByTask, and the partial unique index on active pipeline runs.
activePipelines(t) == {p \in Pipelines : TaskOf[p] = t /\ pstatus[p] = "active"}

\* PipelineRun.requireCurrent
current(p, status) == pstatus[p] = "active" /\ stage[p][cur[p]] = status

hasUnfinishedRun(t) ==
    \/ t \in loose
    \/ \E p \in Pipelines, s \in Stages : TaskOf[p] = t /\ open[p][s] # "none"

\* Fault: the daemon executes socket commands as they arrive.
commandIdle_Unqueued == TRUE

\* CommandQueue: an operator's command begins when the one before has returned.
commandIdle ==
    /\ starting = NoStart
    /\ ~due
    /\ todo["command"] = {}
    /\ job["operator"].at = "idle"

-----------------------------------------------------------------------------
(* Finishing the current stage.                                            *)

\* syncTaskTerminal: the end of a pipeline moves its task in the same
\* transaction, or is rolled back.
taskFollows(p, to) ==
    LET t == TaskOf[p] IN
    /\ to = "completed" => prerequisitesComplete(t, "completion")
    /\ isTaskTransitionAllowed(taskStatus[t], to)

finishable(p) == cur[p] < NumStages \/ taskFollows(p, "completed")

\* PipelineRun.finishCurrent, persisted, with the task's completion.
finishCurrent(p) ==
    LET s == cur[p] IN
    IF s < NumStages
      THEN /\ cur' = [cur EXCEPT ![p] = s + 1]
           /\ stage' = [stage EXCEPT ![p][s] = "completed", ![p][s + 1] = "active"]
           /\ UNCHANGED <<pstatus, taskStatus>>
      ELSE /\ pstatus' = [pstatus EXCEPT ![p] = "completed"]
           /\ stage' = [stage EXCEPT ![p][s] = "completed"]
           /\ taskStatus' = [taskStatus EXCEPT ![TaskOf[p]] = "completed"]
           /\ UNCHANGED cur

\* The run bound to stage s may complete it: the stage is still the active one.
\* Assignments are immutable, so the run's agent is the stage's.
mayComplete(p, s) == cur[p] = s /\ current(p, "active")

completable(p, s) ==
    mayComplete(p, s) /\ (s \in RequiresApproval \/ finishable(p))

\* PipelineRun.completeStage
completeStage(p) ==
    /\ \/ /\ cur[p] \in RequiresApproval
          /\ stage' = [stage EXCEPT ![p][cur[p]] = "awaiting_approval"]
          /\ UNCHANGED <<taskStatus, pstatus, cur>>
       \/ /\ cur[p] \notin RequiresApproval
          /\ finishCurrent(p)
    /\ UNCHANGED decided

\* completeStageFromAgentRun: the stage is completed, or the transaction is
\* rolled back because the run is not the active stage's (any more), because a
\* prerequisite is not completed or because the task's status forbids it.
completeStageFromAgentRun(p, s) ==
    /\ IF completable(p, s) THEN completeStage(p) ELSE UNCHANGED board
    /\ UNCHANGED <<agent, open, done, stopped, loose>>

-----------------------------------------------------------------------------
Init ==
    /\ taskStatus = [t \in Tasks |-> "pending"]
    /\ pstatus = [p \in Pipelines |-> "absent"]
    /\ cur = [p \in Pipelines |-> 1]
    /\ stage = [p \in Pipelines |-> [s \in Stages |-> "pending"]]
    /\ agent = [p \in Pipelines |-> [s \in Stages |-> NoAgent]]
    /\ decided = [p \in Pipelines |-> [s \in Stages |-> "none"]]
    /\ open = [p \in Pipelines |-> [s \in Stages |-> "none"]]
    /\ done = {}
    /\ stopped = {}
    /\ loose = {}
    /\ starting = NoStart
    /\ due = FALSE
    /\ bridge = {}
    /\ job = [w \in Workers |-> IdleJob]
    /\ todo = [w \in Sweepers |-> {}]
    /\ crashes = 0

(* pipeline:start reads the task, its prerequisites and the task's active  *)
(* pipeline, then writes what it read in one transaction.                  *)

startRead(p) ==
    LET t == TaskOf[p] IN
    /\ commandIdle
    /\ pstatus[p] = "absent"
    /\ prerequisitesComplete(t, "start")
    /\ activePipelines(t) = {}
    /\ starting' = [p |-> p, from |-> taskStatus[t]]
    /\ UNCHANGED <<board, agent, runs, due, bridge, job, todo, crashes>>

startable(p, from) ==
    /\ prerequisitesComplete(TaskOf[p], "start")
    /\ isTaskTransitionAllowed(from, "running")
    /\ activePipelines(TaskOf[p]) = {}

\* The task is saved with the status its copy moved to, whatever the row says.
startCommit ==
    /\ starting # NoStart
    /\ LET p == starting.p IN
       \/ /\ startable(p, starting.from)
          /\ taskStatus' = [taskStatus EXCEPT ![TaskOf[p]] = "running"]
          /\ pstatus' = [pstatus EXCEPT ![p] = "active"]
          /\ stage' = [stage EXCEPT ![p][1] = "active"]
       \/ /\ ~startable(p, starting.from)
          /\ UNCHANGED <<taskStatus, pstatus, stage>>
    /\ starting' = NoStart
    /\ UNCHANGED <<cur, agent, decided, runs, due, bridge, job, todo, crashes>>

-----------------------------------------------------------------------------
(* The operator's decisions on the current stage, one transaction each.    *)

unassigned(p) == agent[p][cur[p]] = NoAgent

separatedFrom(p, s, a) == \A e \in Separated[s] : agent[p][e] # a

\* PipelineRun.assign
assignable(p, a) ==
    /\ current(p, "active")
    /\ unassigned(p)
    /\ cur[p] \in Serves[a]
    /\ separatedFrom(p, cur[p], a)

assign(p, a) ==
    /\ commandIdle
    /\ assignable(p, a)
    /\ agent' = [agent EXCEPT ![p][cur[p]] = a]
    /\ UNCHANGED <<board, runs, host, crashes>>

approveStage(p) ==
    /\ commandIdle
    /\ current(p, "awaiting_approval")
    /\ finishable(p)
    /\ finishCurrent(p)
    /\ decided' = [decided EXCEPT ![p][cur[p]] = "approved"]
    /\ UNCHANGED <<agent, runs, host, crashes>>

\* Cancelling the stages in the given statuses, the pipeline and its task.
cancelStages(p, statuses) ==
    /\ stage' = [stage EXCEPT ![p] =
                    [s \in Stages |-> IF @[s] \in statuses THEN "cancelled" ELSE @[s]]]
    /\ pstatus' = [pstatus EXCEPT ![p] = "cancelled"]
    /\ taskStatus' = [taskStatus EXCEPT ![TaskOf[p]] = "cancelled"]
    /\ UNCHANGED cur

rejectStage(p) ==
    /\ commandIdle
    /\ current(p, "awaiting_approval")
    /\ taskFollows(p, "cancelled")
    /\ cancelStages(p, {"pending", "awaiting_approval"})
    /\ decided' = [decided EXCEPT ![p][cur[p]] = "rejected"]
    /\ UNCHANGED <<agent, runs, host, crashes>>

\* An override completes the stage as it is, assigned or not.
overrideCurrent(p) ==
    /\ commandIdle
    /\ pstatus[p] = "active"
    /\ finishable(p)
    /\ finishCurrent(p)
    /\ decided' = [decided EXCEPT ![p][cur[p]] = "overridden"]
    /\ UNCHANGED <<agent, runs, host, crashes>>

cancel(p) ==
    /\ commandIdle
    /\ pstatus[p] = "active"
    /\ taskFollows(p, "cancelled")
    /\ cancelStages(p, {"pending", "active", "awaiting_approval"})
    /\ UNCHANGED <<agent, decided, runs, host, crashes>>

\* pipeline:transition --event complete --agent-run: a run that is running (also
\* one that a crash orphaned) or completed.
transitionComplete(p, s) ==
    /\ commandIdle
    /\ open[p][s] \in {"running", "orphaned"} \/ <<p, s>> \in done
    /\ completable(p, s)
    /\ completeStageFromAgentRun(p, s)
    /\ UNCHANGED <<host, crashes>>

\* The task commands of TaskBoard; a completion is followed by a sweep.
moveTask(t, to) ==
    /\ commandIdle
    /\ isTaskTransitionAllowed(taskStatus[t], to)
    /\ to = "running" => prerequisitesComplete(t, "start")
    /\ to = "completed" => prerequisitesComplete(t, "completion")
    /\ taskStatus' = [taskStatus EXCEPT ![t] = to]
    /\ due' = (to = "completed")
    /\ UNCHANGED <<pstatus, cur, stage, agent, decided, runs, starting, bridge, job, todo, crashes>>

recordCompletion(t) ==
    /\ commandIdle
    /\ isHistoricalCompletionApplicable(taskStatus[t])
    /\ taskStatus' = [taskStatus EXCEPT ![t] = "completed"]
    /\ UNCHANGED <<pstatus, cur, stage, agent, decided, runs, host, crashes>>

-----------------------------------------------------------------------------
(* pipeline:orchestrate, by the queue worker or the operator, reads the    *)
(* stage and its runs, then assigns, schedules or repairs in transactions  *)
(* of their own.                                                           *)

candidates(p, s) == {a \in Agents : s \in Serves[a] /\ separatedFrom(p, s, a)}

firstOf(c) == {a \in c : \A b \in c : a <= b}

idle(w) == job[w].at = "idle" /\ (w = "operator" => commandIdle)

jobAt(w, at, p, s, a) == job' = [job EXCEPT ![w] = [at |-> at, p |-> p, s |-> s, a |-> a]]

jobEnds(w) == job' = [job EXCEPT ![w] = IdleJob]

orchestrate(w, p) ==
    LET s == cur[p] IN
    /\ idle(w)
    /\ current(p, "active")
    /\ open[p][s] = "none"
    /\ \/ /\ <<p, s>> \in done
          /\ jobAt(w, "complete", p, s, NoAgent)
       \/ /\ <<p, s>> \notin done \cup stopped
          /\ ~unassigned(p)
          /\ jobAt(w, "schedule", p, s, agent[p][s])
       \/ /\ <<p, s>> \notin done \cup stopped
          /\ unassigned(p)
          /\ \E a \in firstOf(candidates(p, s)) : jobAt(w, "assign", p, s, a)
    /\ UNCHANGED <<board, agent, runs, starting, due, bridge, todo, crashes>>

\* The stage that is current now is assigned, which may be a later one.
orchestrateAssign(w) ==
    LET p == job[w].p
        a == job[w].a IN
    /\ job[w].at = "assign"
    /\ \/ /\ assignable(p, a)
          /\ agent' = [agent EXCEPT ![p][cur[p]] = a]
          /\ jobAt(w, "schedule", p, job[w].s, a)
       \/ /\ ~assignable(p, a)
          /\ jobEnds(w)
          /\ UNCHANGED agent
    /\ UNCHANGED <<board, runs, starting, due, bridge, todo, crashes>>

\* A completed run left before the bridge, or suspended, is replayed.
orchestrateComplete(w) ==
    /\ job[w].at = "complete"
    /\ completeStageFromAgentRun(job[w].p, job[w].s)
    /\ jobEnds(w)
    /\ UNCHANGED <<starting, due, bridge, todo, crashes>>

\* run:schedule by the operator, for any agent; p only names the task.
runSchedule(p, a) ==
    /\ idle("operator")
    /\ jobAt("operator", "schedule", p, cur[p], a)
    /\ UNCHANGED <<board, agent, runs, starting, due, bridge, todo, crashes>>

\* ScheduleAgentRun before its transaction.
schedulable(t) ==
    /\ isTaskRunnable(taskStatus[t])
    /\ prerequisitesComplete(t, "start")
    /\ ~hasUnfinishedRun(t)

scheduleCheck(w) ==
    LET p == job[w].p IN
    /\ job[w].at = "schedule"
    /\ IF schedulable(TaskOf[p])
         THEN jobAt(w, "commit", p, job[w].s, job[w].a)
         ELSE jobEnds(w)
    /\ UNCHANGED <<board, agent, runs, starting, due, bridge, todo, crashes>>

\* ScheduleAgentRun's transaction: the run is bound to the stage that is current
\* now, to no stage if the task has no active pipeline, and refused if the
\* stage is not this agent's or the task lock is taken.
scheduleCommit(w) ==
    LET t == TaskOf[job[w].p]
        a == job[w].a
        free == prerequisitesComplete(t, "start") /\ ~hasUnfinishedRun(t) IN
    /\ job[w].at = "commit"
    /\ \/ /\ free
          /\ \E q \in activePipelines(t) :
                /\ current(q, "active")
                /\ agent[q][cur[q]] = a
                /\ open' = [open EXCEPT ![q][cur[q]] = "queued"]
          /\ UNCHANGED loose
       \/ /\ free
          /\ activePipelines(t) = {}
          /\ loose' = loose \cup {t}
          /\ UNCHANGED open
       \/ /\ ~free \/ \E q \in activePipelines(t) :
                        ~current(q, "active") \/ agent[q][cur[q]] # a
          /\ UNCHANGED <<open, loose>>
    /\ jobEnds(w)
    /\ UNCHANGED <<board, agent, done, stopped, starting, due, bridge, todo, crashes>>

-----------------------------------------------------------------------------
(* The runs, as AgentRuns has them: claimed while the stage is current and *)
(* its agent entitled, refused (cancelled) otherwise.                      *)

admissible(p, s) ==
    /\ mayComplete(p, s)
    /\ isTaskRunnable(taskStatus[TaskOf[p]])
    /\ prerequisitesComplete(TaskOf[p], "start")

admit(p, s) ==
    /\ open[p][s] = "queued"
    /\ \/ /\ admissible(p, s)
          /\ open' = [open EXCEPT ![p][s] = "running"]
          /\ UNCHANGED stopped
       \/ /\ ~admissible(p, s)
          /\ open' = [open EXCEPT ![p][s] = "none"]
          /\ stopped' = stopped \cup {<<p, s>>}
    /\ UNCHANGED <<board, agent, done, loose, host, crashes>>

\* The run completes, and its tick goes on to the stage.
completeRun(p, s) ==
    /\ open[p][s] = "running"
    /\ open' = [open EXCEPT ![p][s] = "none"]
    /\ done' = done \cup {<<p, s>>}
    /\ bridge' = bridge \cup {<<p, s>>}
    /\ UNCHANGED <<board, agent, stopped, loose, starting, due, job, todo, crashes>>

\* It fails, is cancelled or, left over by a crash, is reconciled.
stopRun(p, s) ==
    /\ open[p][s] # "none"
    /\ open' = [open EXCEPT ![p][s] = "none"]
    /\ stopped' = stopped \cup {<<p, s>>}
    /\ UNCHANGED <<board, agent, done, loose, host, crashes>>

endLooseRun(t) ==
    /\ t \in loose
    /\ loose' = loose \ {t}
    /\ UNCHANGED <<board, agent, open, done, stopped, host, crashes>>

\* run:tick after the run: the stage is completed or the refusal reported.
bridgeStage(p, s) ==
    /\ <<p, s>> \in bridge
    /\ completeStageFromAgentRun(p, s)
    /\ bridge' = bridge \ {<<p, s>>}
    /\ UNCHANGED <<starting, due, job, todo, crashes>>

-----------------------------------------------------------------------------
(* RecoverSuspendedPipelines: one scan, then the candidates in the order   *)
(* of their ids.                                                           *)

\* findSuspendedStageCandidates
suspended(p) == current(p, "active") /\ <<p, cur[p]>> \in done

\* Not skipped as superseded or as awaiting prerequisites.
resumable(p) ==
    /\ suspended(p)
    /\ taskStatus[TaskOf[p]] \notin terminalTaskStatuses
    /\ prerequisitesComplete(TaskOf[p], "completion")

\* Fault: a task submitted for review is taken for finished.
suspendedStages_RunningOnly ==
    {<<p, cur[p]>> : p \in {q \in Pipelines : resumable(q) /\ taskStatus[TaskOf[q]] = "running"}}

suspendedStages == {<<p, cur[p]>> : p \in {q \in Pipelines : resumable(q)}}

scan(w) ==
    /\ todo[w] = {}
    /\ IF w = "command" THEN due ELSE suspendedStages # {}
    /\ todo' = [todo EXCEPT ![w] = suspendedStages]
    /\ due' = (due /\ w # "command")
    /\ UNCHANGED <<board, agent, runs, starting, bridge, job, crashes>>

\* The resume is refused by the task's lifecycle, for which execute has no case:
\* it throws, and the candidates that follow are not looked at.
taskRefuses(p, s) ==
    /\ mayComplete(p, s)
    /\ s = NumStages
    /\ s \notin RequiresApproval
    /\ prerequisitesComplete(TaskOf[p], "completion")
    /\ ~isTaskTransitionAllowed(taskStatus[TaskOf[p]], "completed")

resumeNext(w) ==
    \E c \in todo[w] :
        /\ \A d \in todo[w] : c[1] <= d[1]
        /\ completeStageFromAgentRun(c[1], c[2])
        /\ todo' = [todo EXCEPT ![w] = IF taskRefuses(c[1], c[2]) THEN {} ELSE @ \ {c}]
        /\ UNCHANGED <<starting, due, bridge, job, crashes>>

-----------------------------------------------------------------------------
\* The host is gone with everything it held; running rows are orphans.
crash ==
    /\ crashes < MaxCrashes
    /\ crashes' = crashes + 1
    /\ open' = [p \in Pipelines |-> [s \in Stages |->
                    IF open[p][s] = "running" THEN "orphaned" ELSE open[p][s]]]
    /\ starting' = NoStart
    /\ due' = FALSE
    /\ bridge' = {}
    /\ job' = [w \in Workers |-> IdleJob]
    /\ todo' = [w \in Sweepers |-> {}]
    /\ UNCHANGED <<board, agent, done, stopped, loose>>

Next ==
    \/ \E p \in Pipelines :
        \/ startRead(p)
        \/ \E a \in Agents : assign(p, a) \/ runSchedule(p, a)
        \/ approveStage(p) \/ rejectStage(p) \/ overrideCurrent(p) \/ cancel(p)
        \/ \E w \in Workers : orchestrate(w, p)
        \/ \E s \in Stages :
            \/ transitionComplete(p, s)
            \/ admit(p, s) \/ completeRun(p, s) \/ stopRun(p, s) \/ bridgeStage(p, s)
    \/ startCommit
    \/ \E t \in Tasks :
        \/ \E to \in TaskStatuses : moveTask(t, to)
        \/ recordCompletion(t) \/ endLooseRun(t)
    \/ \E w \in Workers :
        orchestrateAssign(w) \/ orchestrateComplete(w) \/ scheduleCheck(w) \/ scheduleCommit(w)
    \/ \E w \in Sweepers : scan(w) \/ resumeNext(w)
    \/ crash

Spec == Init /\ [][Next]_vars

\* Ticks keep coming, and a sweep or a bridge that has begun goes on.
Fairness ==
    /\ \A w \in Sweepers : WF_vars(scan(w)) /\ WF_vars(resumeNext(w))
    /\ \A p \in Pipelines, s \in Stages : WF_vars(bridgeStage(p, s))

FairSpec == Spec /\ Fairness

-----------------------------------------------------------------------------
\* Rows and host state keep their types.
TypeOK ==
    /\ taskStatus \in [Tasks -> TaskStatuses]
    /\ pstatus \in [Pipelines -> {"absent", "active", "completed", "cancelled"}]
    /\ cur \in [Pipelines -> Stages]
    /\ stage \in [Pipelines -> [Stages -> StageStatuses]]
    /\ agent \in [Pipelines -> [Stages -> Agents \cup {NoAgent}]]
    /\ decided \in [Pipelines -> [Stages -> {"none", "approved", "rejected", "overridden"}]]
    /\ open \in [Pipelines -> [Stages -> {"none", "queued", "running", "orphaned"}]]
    /\ done \subseteq Pipelines \X Stages
    /\ stopped \subseteq Pipelines \X Stages
    /\ loose \subseteq Tasks
    /\ starting \in [p : Pipelines, from : TaskStatuses] \cup {NoStart}
    /\ due \in BOOLEAN
    /\ bridge \subseteq Pipelines \X Stages
    /\ job \in [Workers -> [at : {"idle", "assign", "schedule", "commit", "complete"},
                            p : Pipelines, s : Stages, a : Agents \cup {NoAgent}]]
    /\ todo \in [Sweepers -> SUBSET (Pipelines \X Stages)]
    /\ crashes \in 0 .. MaxCrashes

\* Stages are worked through in order: whatever bridges, sweeps, replays and
\* operators race to finish a stage, everything before the current one is
\* completed and nothing after it was touched (finishCurrent, completeStage).
StageInOrder(p, s) ==
    /\ s < cur[p] => stage[p][s] = "completed"
    /\ s > cur[p] => /\ stage[p][s] \in {"pending", "cancelled"}
                     /\ agent[p][s] = NoAgent /\ decided[p][s] = "none"
                     /\ <<p, s>> \notin done \cup stopped /\ open[p][s] = "none"
    /\ pstatus[p] = "active" => stage[p][cur[p]] \in {"active", "awaiting_approval"}
    /\ pstatus[p] = "completed" => stage[p][s] = "completed"
StagesInOrder == \A p \in Pipelines, s \in Stages : StageInOrder(p, s)

\* A completed stage was overridden, or an agent was assigned to it and had a
\* run bound to it, and its approval gate, if any, was passed.
Evidenced(p, s) ==
    (stage[p][s] = "completed" /\ decided[p][s] # "overridden") =>
        /\ agent[p][s] # NoAgent
        /\ open[p][s] # "none" \/ <<p, s>> \in done \cup stopped
        /\ s \in RequiresApproval => decided[p][s] = "approved"
StageEvidence == \A p \in Pipelines, s \in Stages : Evidenced(p, s)

\* Separation of duties survives stale orchestration: an agent chosen for one
\* stage and assigned to whatever stage is current by then is never one the
\* current stage excludes (PipelineRun.assign).
SeparationOfDuties ==
    \A p \in Pipelines, s \in Stages :
        agent[p][s] # NoAgent => \A e \in Separated[s] : agent[p][e] # agent[p][s]

\* A pipeline and its task end together and alike (syncTaskTerminal): a
\* completed pipeline's task is completed, a cancelled one's cancelled.
TaskFollowsPipeline ==
    \A p \in Pipelines :
        pstatus[p] \in {"completed", "cancelled"} => taskStatus[TaskOf[p]] = pstatus[p]

\* A task never has two pipeline runs, not even one after another: a second
\* start needs a pending task without an active pipeline, and every end of the
\* first is the end of the task (start, the partial unique index).
OnePipelinePerTask ==
    \A p, q \in Pipelines :
        TaskOf[p] = TaskOf[q] /\ pstatus[p] # "absent" /\ pstatus[q] # "absent" => p = q

\* A finished task stays as it is, although pipeline:start writes back a copy
\* read before its transaction.
KeepsFinishedTasks ==
    \A t \in Tasks : taskStatus[t] \in terminalTaskStatuses
            => taskStatus'[t] = taskStatus[t]

\* A pipeline whose task has ended without it never ends: no command, replay or
\* sweep can complete or cancel it (the finding active_pipeline_terminal_task is
\* permanent), so recovery never completes work underneath a finished task.
KeepsStranded ==
    \A p \in Pipelines :
        (pstatus[p] = "active" /\ taskStatus[TaskOf[p]] \in terminalTaskStatuses)
            => pstatus'[p] = "active"

\* An assignment and a decision are made once.
KeepsDecisions ==
    \A p \in Pipelines, s \in Stages :
        /\ agent[p][s] # NoAgent => agent'[p][s] = agent[p][s]
        /\ decided[p][s] # "none" => decided'[p][s] = decided[p][s]

\* A suspended stage whose task can be completed and whose prerequisites are.
Ready(p) ==
    resumable(p) /\ isTaskTransitionAllowed(taskStatus[TaskOf[p]], "completed")

\* A candidate on which the sweep throws.
Jams(p) == resumable(p) /\ taskRefuses(p, cur[p])

\* docs/development/task-board.md: "once every prerequisite is completed, the
\* Runtime resumes the pipeline automatically".  No pipeline stays suspended
\* while it could be resumed.
ResumesAutomatically == \A p \in Pipelines : []<>~Ready(p)

\* What the sweep does deliver: a pipeline that could be resumed stays suspended
\* only behind one with a lower id whose task refuses to complete.
ResumesUnlessJammed ==
    \A p \in Pipelines : []<>(~Ready(p) \/ \E q \in 1 .. p - 1 : Jams(q))

\* What holds of pipelines, stages and their tasks at any time.
PipelineSafety ==
    /\ TypeOK /\ StagesInOrder /\ StageEvidence /\ SeparationOfDuties
    /\ TaskFollowsPipeline /\ OnePipelinePerTask

\* What no step may do: reopen a finished task, end a pipeline underneath one,
\* or change a decision or an assignment.
PipelineSteps == [][KeepsFinishedTasks /\ KeepsStranded /\ KeepsDecisions]_vars

=============================================================================
