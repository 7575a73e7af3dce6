------------------------------ MODULE TaskBoard ------------------------------
(***************************************************************************)
(* The task board: tasks, their prerequisites and their execution history. *)
(*                                                                         *)
(* Every command below is one SQLite transaction (BEGIN IMMEDIATE), so it  *)
(* is one atomic step.  A task that was ever executed - it became running  *)
(* or waiting_review, or an agent run or a pipeline run was inserted for   *)
(* it - has an append-only row in task_execution_history, written by the   *)
(* triggers of migration 0048; from then on its prerequisites are frozen.  *)
(*                                                                         *)
(* Abstracted: titles, descriptions, priorities, reasons, audit payloads,  *)
(* and the requirement evidence that a completion attestation also covers. *)
(***************************************************************************)
EXTENDS TaskDomain, FiniteSets

CONSTANTS Tasks,    \* the task identifiers that may ever be created
          NoPlan    \* no historical completion awaits the operator's approval

ASSUME NoPlanAssumption == NoPlan \notin [task : Tasks, from : TaskStatuses]

VARIABLES
    status,         \* task.status, or "absent" before task:create
    deps,           \* task_dependency: <<task, the task it depends on>>
    history,        \* tasks with a row in task_execution_history
    recorded,       \* tasks whose completion is a task.completion_recorded event
    approved        \* the attestation whose plan hash the operator holds

vars == <<status, deps, history, recorded, approved>>

Exists(t) == status[t] # "absent"

requireTask(p) == Exists(p)

Prerequisites(t) == {p \in Tasks : <<t, p>> \in deps}

\* blockingPrerequisites(...) is empty.
prerequisitesComplete(t, requirement) ==
    \A p \in Prerequisites(t) : status[p] \in satisfying(requirement)

-----------------------------------------------------------------------------
(* The breadth-first search of assertAcyclicDependency starts at the       *)
(* dependent, follows the edges backwards and refuses the new edge when it *)
(* meets the prerequisite.  What it visits is the least set that contains  *)
(* its start and every dependent of its members.                           *)

closedUnderDependents(S) == \A e \in deps : e[2] \in S => e[1] \in S

reachedFrom(t) ==
    {x \in Tasks : \A S \in SUBSET Tasks : t \in S /\ closedUnderDependents(S) => x \in S}

assertAcyclicDependency(t, p) == t # p /\ p \notin reachedFrom(t)

\* Fault: the current status alone decides.
assertEditable_StatusOnly(t) == status[t] \in {"pending", "blocked"}

assertEditable(t) == status[t] \in {"pending", "blocked"} /\ t \notin history

-----------------------------------------------------------------------------
Init ==
    /\ status = [t \in Tasks |-> "absent"]
    /\ deps = {}
    /\ history = {}
    /\ recorded = {}
    /\ approved = NoPlan

\* task:create
CreateTask(t) ==
    /\ status[t] = "absent"
    /\ status' = [status EXCEPT ![t] = "pending"]
    /\ UNCHANGED <<deps, history, recorded, approved>>

\* task:dependency:add of an edge that is not there yet; adding an existing one
\* changes nothing.
link(t, p) ==
    /\ assertEditable(t)
    /\ requireTask(p)
    /\ <<t, p>> \notin deps
    /\ assertAcyclicDependency(t, p)
    /\ deps' = deps \cup {<<t, p>>}
    /\ UNCHANGED <<status, history, recorded, approved>>

\* task:dependency:remove
unlink(t, p) ==
    /\ assertEditable(t)
    /\ requireTask(p)
    /\ <<t, p>> \in deps
    /\ deps' = deps \ {<<t, p>>}
    /\ UNCHANGED <<status, history, recorded, approved>>

-----------------------------------------------------------------------------
(* ManageTaskLifecycle: one validated transition and its audit event, in   *)
(* one transaction, through the trigger that records execution.            *)

moveTo(t, to) ==
    /\ Exists(t)
    /\ isTaskTransitionAllowed(status[t], to)
    /\ status' = [status EXCEPT ![t] = to]
    /\ history' = IF to \in {"running", "waiting_review"} THEN history \cup {t} ELSE history
    /\ UNCHANGED <<deps, recorded, approved>>

\* task:start, and the task half of pipeline:start
start(t) == prerequisitesComplete(t, "start") /\ moveTo(t, "running")

\* task:submit-review
submitForReview(t) == moveTo(t, "waiting_review")

\* task:complete, and the task half of a pipeline's completion
complete(t) == prerequisitesComplete(t, "completion") /\ moveTo(t, "completed")

\* task:block
block(t) == moveTo(t, "blocked")

\* task:unblock: back to pending whatever preceded the block
unblock(t) == moveTo(t, "pending")

\* task:fail
fail(t) == moveTo(t, "failed")

\* task:cancel; stopping the task's runs is a later step of AgentRuns
cancel(t) == moveTo(t, "cancelled")

\* Inserting an agent run executes the task without moving it: the trigger
\* refuses open prerequisites and writes the history row.
insertAgentRun(t) ==
    /\ Exists(t)
    /\ isTaskRunnable(status[t])
    /\ prerequisitesComplete(t, "start")
    /\ t \notin history
    /\ history' = history \cup {t}
    /\ UNCHANGED <<status, deps, recorded, approved>>

-----------------------------------------------------------------------------
(* RecordTaskCompletion: an attestation is planned, its hash shown to the  *)
(* operator, and applied only if the plan rebuilt inside the transaction   *)
(* has that hash.                                                          *)

planHash(t) == [task |-> t, from |-> status[t]]

planCompletion(t) ==
    /\ Exists(t)
    /\ isHistoricalCompletionApplicable(status[t])
    /\ approved' = planHash(t)
    /\ UNCHANGED <<status, deps, history, recorded>>

recordCompletion(t) ==
    /\ Exists(t)
    /\ isHistoricalCompletionApplicable(status[t])
    /\ approved = planHash(t)
    /\ status' = [status EXCEPT ![t] = "completed"]
    /\ recorded' = recorded \cup {t}
    /\ approved' = NoPlan
    /\ UNCHANGED <<deps, history>>

Next ==
    \/ \E t \in Tasks :
        \/ CreateTask(t)
        \/ start(t)
        \/ submitForReview(t)
        \/ complete(t)
        \/ block(t)
        \/ unblock(t)
        \/ fail(t)
        \/ cancel(t)
        \/ insertAgentRun(t)
        \/ planCompletion(t)
        \/ recordCompletion(t)
    \/ \E t, p \in Tasks : link(t, p) \/ unlink(t, p)

Spec == Init /\ [][Next]_vars

-----------------------------------------------------------------------------
\* Each variable has its type, and edges and history rows name existing tasks.
TypeOK ==
    /\ status \in [Tasks -> TaskStatuses \cup {"absent"}]
    /\ deps \subseteq {t \in Tasks : Exists(t)} \X {t \in Tasks : Exists(t)}
    /\ history \subseteq {t \in Tasks : Exists(t)}
    /\ recorded \subseteq Tasks
    /\ approved \in [task : Tasks, from : TaskStatuses] \cup {NoPlan}

\* The prerequisite graph never has a cycle, however link and unlink commands
\* are interleaved (assertAcyclicDependency): every non-empty set of tasks has
\* a member that depends on no member of the set, so some task can go first.
DependenciesAcyclic ==
    \A C \in (SUBSET Tasks) \ {{}} : \E t \in C : Prerequisites(t) \cap C = {}

\* A task that completed through the lifecycle has only completed
\* prerequisites, for ever: the completion gate (assertTaskPrerequisitesComplete
\* with "completion"), the frozen edges and the finality of "completed" together.
\* A recorded historical completion is exempt.
CompletedAfterPrerequisites ==
    \A t \in Tasks : status[t] = "completed" /\ t \notin recorded =>
        \A p \in Prerequisites(t) : status[p] = "completed"

\* The assumption ReconcileTasks.inspect makes when it reports a review exit: a
\* started task was admitted with every prerequisite completed or in review, so
\* a prerequisite that is not completed now has been executed before, even if
\* it has been blocked, unblocked or cancelled since.
ReviewExitEvidence ==
    \A t \in Tasks : status[t] \in {"running", "waiting_review"} =>
        \A p \in Prerequisites(t) : status[p] = "completed" \/ p \in history

\* Once a task has execution history no command adds or removes a prerequisite
\* of it, also after it was blocked and went back to pending (assertEditable and
\* the task_dependency_history triggers).
KeepsPrerequisites == \A t \in history : Prerequisites(t)' = Prerequisites(t)
PrerequisitesFrozen == [][KeepsPrerequisites]_vars

\* A terminal status is never rewritten: not by a lifecycle command, and not by
\* applying an attestation that was planned while the task was still open.
KeepsTerminal == \A t \in Tasks : status[t] \in terminalTaskStatuses => status'[t] = status[t]
TerminalIsFinal == [][KeepsTerminal]_vars

\* What holds of the board at any time: an acyclic graph, completions gated by
\* prerequisites, and review exits that are evidence of execution.
BoardSafety == TypeOK /\ DependenciesAcyclic /\ CompletedAfterPrerequisites /\ ReviewExitEvidence

\* What no command may do to it: rewire an executed task, or reopen a finished one.
BoardSteps == [][KeepsPrerequisites /\ KeepsTerminal]_vars

=============================================================================
