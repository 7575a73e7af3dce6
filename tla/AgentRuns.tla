------------------------------ MODULE AgentRuns ------------------------------
(***************************************************************************)
(* Agent runs: scheduling, the task lock and its lease, admission,         *)
(* execution by the one Runtime host, cancellation, crash and recovery.    *)
(*                                                                         *)
(* Persisted state (SQLite) survives a crash; the host's state (live       *)
(* executions with their abort signals, commands between two awaits) does  *)
(* not.  Every database call is one atomic step; everything the code does  *)
(* on either side of an await is a different step.                         *)
(*                                                                         *)
(* rev[t] stands for all the revisions a fence compares: the task row, the *)
(* agent, its role and the active pipeline.  granted[t] says whether that  *)
(* configuration lets the scheduled agent work on the task (agent enabled, *)
(* role present, the active stage assigned to it); ready[t] whether the    *)
(* prerequisites of t are completed or in review, which changes without    *)
(* touching any of those rows.                                             *)
(***************************************************************************)
EXTENDS TaskDomain, Naturals, FiniteSets

CONSTANTS Tasks,
          Runs,         \* run identifiers, each used once
          ActionRuns,   \* the runs with an action intent; the others use a worker
          NoRun,        \* no owner of a task lock
          Lease,        \* taskRunLeaseDurationMs, in clock ticks
          MaxTime,      \* bound on the clock
          MaxRev,       \* bound on authority changes per task
          MaxChurn      \* bound on stops, crashes and readiness changes together

ASSUME RunsAssumption ==
    /\ ActionRuns \subseteq Runs
    /\ NoRun \notin Runs
    /\ Lease \in Nat \ {0}
    /\ MaxTime \in Nat
    /\ MaxRev \in Nat
    /\ MaxChurn \in Nat

VARIABLES
    taskStatus, rev, granted, ready,    \* the authority over each task
    runStatus,      \* agent_run.status, "absent" before scheduling
    taskOf,         \* agent_run.task_id
    effect,         \* runs with a controlled action executing or of unknown outcome
    lockRun, lockExpires,   \* task_lock
    now,
    pc,             \* where the host is in executing a run; "idle" when not live
    fence,          \* the authority revision an execution has read
    signal,         \* runs whose abort signal fired
    leaseLost,      \* executions whose renewal failed
    listed,         \* runs that some run:tick has read as queued
    scheduling,     \* runs whose run:schedule command is past its checks
    toCancel,       \* runs that task:cancel has still to stop
    stopping,       \* RunExecutionControl.stopping
    churn           \* stops, crashes and readiness changes so far

authority == <<taskStatus, rev, granted, ready>>
rows == <<runStatus, taskOf>>
locks == <<lockRun, lockExpires>>
host == <<pc, fence, signal, leaseLost, listed, stopping>>
commands == <<scheduling, toCancel>>
vars == <<authority, rows, effect, locks, now, host, commands, churn>>

-----------------------------------------------------------------------------
RunStatuses == {"queued", "preparing", "running", "reviewing",
                "completed", "failed", "cancelled"}
terminalRun == {"completed", "failed", "cancelled"}
activeRun == {"queued", "preparing", "running", "reviewing"}

transitions ==
    [from \in RunStatuses |->
        CASE from = "queued" -> {"preparing", "cancelled"}
          [] from = "preparing" -> {"running", "failed", "cancelled"}
          [] from = "running" -> {"reviewing", "completed", "failed", "cancelled"}
          [] from = "reviewing" -> {"completed", "failed", "cancelled"}
          [] OTHER -> {}]

has(r) == pc[r] # "idle"        \* RunExecutionControl.has

RunsOf(t) == {r \in Runs : taskOf[r] = t /\ runStatus[r] # "absent"}

hasActiveRun(t) == \E r \in RunsOf(t) : runStatus[r] \in activeRun

\* The authority under which agents may be admitted to a task.
eligible(t) == isTaskRunnable(taskStatus[t]) /\ granted[t]

-----------------------------------------------------------------------------
(* The task lock.                                                          *)

\* acquireTaskLock: insert, or take over a lock whose lease has run out.
\* Fault: the conflict clause forgets the lease.
lockAvailable_Always(t) == TRUE
lockAvailable(t) == lockRun[t] = NoRun \/ lockExpires[t] <= now

acquireTaskLock(t, r) ==
    /\ lockRun' = [lockRun EXCEPT ![t] = r]
    /\ lockExpires' = [lockExpires EXCEPT ![t] = now + Lease]

holdsLease(r) == lockRun[taskOf[r]] = r /\ lockExpires[taskOf[r]] > now

\* releaseTaskLock deletes the lock this run owns, and no other.
ownLock(r, t) == lockRun[t] = r

releaseTaskLock(r) ==
    /\ lockRun' = [t \in Tasks |-> IF ownLock(r, t) THEN NoRun ELSE lockRun[t]]
    /\ lockExpires' = [t \in Tasks |-> IF ownLock(r, t) THEN 0 ELSE lockExpires[t]]

-----------------------------------------------------------------------------
Init ==
    /\ taskStatus = [t \in Tasks |-> "pending"]
    /\ rev = [t \in Tasks |-> 0]
    /\ granted = [t \in Tasks |-> TRUE]
    /\ ready = [t \in Tasks |-> TRUE]
    /\ runStatus = [r \in Runs |-> "absent"]
    /\ taskOf \in [Runs -> Tasks]
    /\ effect = {}
    /\ lockRun = [t \in Tasks |-> NoRun]
    /\ lockExpires = [t \in Tasks |-> 0]
    /\ now = 0
    /\ pc = [r \in Runs |-> "idle"]
    /\ fence = [r \in Runs |-> 0]
    /\ signal = {}
    /\ leaseLost = {}
    /\ listed = {}
    /\ scheduling = {}
    /\ toCancel = {}
    /\ stopping = FALSE
    /\ churn = 0

-----------------------------------------------------------------------------
(* run:schedule.  The checks before the transaction and the transaction    *)
(* itself are two steps; other commands and queue jobs run between them.   *)

scheduleCheck(r) ==
    LET t == taskOf[r] IN
    /\ ~stopping
    /\ runStatus[r] = "absent"
    /\ r \notin scheduling
    /\ eligible(t)
    /\ ready[t]
    /\ ~hasActiveRun(t)
    /\ scheduling' = scheduling \cup {r}
    /\ UNCHANGED <<churn, authority, rows, effect, locks, now, host, toCancel>>

\* The transaction rechecks prerequisites and the agent, but neither the task's
\* status nor its other runs: the lock decides.
scheduleCommit(r) ==
    LET t == taskOf[r] IN
    /\ r \in scheduling
    /\ scheduling' = scheduling \ {r}
    /\ IF ready[t] /\ granted[t] /\ lockAvailable(t)
       THEN /\ runStatus' = [runStatus EXCEPT ![r] = "queued"]
            /\ acquireTaskLock(t, r)
       ELSE UNCHANGED <<runStatus, locks>>
    /\ UNCHANGED <<churn, authority, taskOf, effect, now, host, toCancel>>

-----------------------------------------------------------------------------
(* run:tick.  A run is listed as queued, reserved in memory, admitted.     *)

listQueuedRuns ==
    /\ ~stopping
    /\ listed' = listed \cup {r \in Runs : runStatus[r] = "queued"}
    /\ listed' # listed
    /\ UNCHANGED <<churn, authority, rows, effect, locks, now, commands>>
    /\ UNCHANGED <<pc, fence, signal, leaseLost, stopping>>

\* RunExecutionControl.reserve: a second reservation of a live run is refused.
\* Ticks overlap (the timer, the queue jobs, run:tick) and each holds its own
\* list, so a run stays listed after one of them has taken it.
reserve(r) ==
    /\ r \in listed
    /\ ~stopping
    /\ ~has(r)
    /\ pc' = [pc EXCEPT ![r] = "reserved"]
    /\ UNCHANGED <<churn, authority, rows, effect, locks, now, commands>>
    /\ UNCHANGED <<fence, signal, leaseLost, listed, stopping>>

\* Fault: a run without authority is passed over instead of being refused.
readAuthority_SkipsInvalid(r) ==
    LET t == taskOf[r] IN
    /\ pc[r] = "reserved"
    /\ pc' = [pc EXCEPT ![r] = IF eligible(t) /\ ready[t] THEN "checked" ELSE "idle"]
    /\ fence' = [fence EXCEPT ![r] = rev[t]]
    /\ UNCHANGED <<churn, authority, rows, effect, locks, now, commands>>
    /\ UNCHANGED <<signal, leaseLost, listed, stopping>>

\* AdmitAgentRun reads the authority; "refused" is a null authority.
readAuthority(r) ==
    LET t == taskOf[r] IN
    /\ pc[r] = "reserved"
    /\ pc' = [pc EXCEPT ![r] = IF eligible(t) /\ ready[t] THEN "checked" ELSE "refused"]
    /\ fence' = [fence EXCEPT ![r] = rev[t]]
    /\ UNCHANGED <<churn, authority, rows, effect, locks, now, commands>>
    /\ UNCHANGED <<signal, leaseLost, listed, stopping>>

\* admitQueuedRun: the row must still be queued and the authority unchanged,
\* compared again in the claiming transaction.
claimable(r) == runStatus[r] = "queued"

authorityHolds(r) ==
    /\ pc[r] = "checked"
    /\ rev[taskOf[r]] = fence[r]
    /\ holdsLease(r)

\* The handle's progress; nothing else of the host changes.
goto(r, label) ==
    /\ pc' = [pc EXCEPT ![r] = label]
    /\ UNCHANGED <<signal, leaseLost, listed, stopping>>

\* RunExecutionControl.release: the handle and all it holds are gone.
release(r) ==
    /\ pc' = [pc EXCEPT ![r] = "idle"]
    /\ fence' = [fence EXCEPT ![r] = 0]
    /\ signal' = signal \ {r}
    /\ leaseLost' = leaseLost \ {r}
    /\ UNCHANGED <<listed, stopping>>

admitQueuedRun(r) ==
    /\ pc[r] \in {"checked", "refused"}
    /\ \/ /\ ~claimable(r)
          /\ release(r)
          /\ UNCHANGED <<rows, locks>>
       \/ /\ claimable(r)
          /\ authorityHolds(r)
          /\ ready[taskOf[r]]
          /\ goto(r, "admitted")
          /\ runStatus' = [runStatus EXCEPT ![r] = "preparing"]
          /\ UNCHANGED <<taskOf, locks, fence>>
       \/ \* the claim trigger refuses open prerequisites: the run stays queued
          /\ claimable(r)
          /\ authorityHolds(r)
          /\ ~ready[taskOf[r]]
          /\ release(r)
          /\ UNCHANGED <<rows, locks>>
       \/ \* RUN_NOT_ELIGIBLE
          /\ claimable(r)
          /\ ~authorityHolds(r)
          /\ release(r)
          /\ runStatus' = [runStatus EXCEPT ![r] = "cancelled"]
          /\ releaseTaskLock(r)
          /\ UNCHANGED taskOf
    /\ UNCHANGED <<churn, authority, effect, now, commands>>

-----------------------------------------------------------------------------
(* ExecuteAgentRun, for the run just claimed.                              *)

\* saveRun: compare-and-swap on the row the execution last persisted.
persist(r, from, to) ==
    /\ runStatus[r] = from
    /\ to \in transitions[from]
    /\ runStatus' = [runStatus EXCEPT ![r] = to]
    /\ UNCHANGED taskOf

\* WorkerAgentExecutor.prepare reads the authority once more and builds the
\* fence; an action run has none.
prepare(r) ==
    LET t == taskOf[r] IN
    /\ pc[r] = "admitted"
    /\ goto(r, IF r \in signal THEN "cancelling"
               ELSE IF r \in ActionRuns \/ eligible(t) THEN "prepared" ELSE "failing")
    /\ fence' = [fence EXCEPT ![r] = rev[t]]
    /\ UNCHANGED <<churn, authority, rows, effect, locks, now, commands>>

beginRunning(r) ==
    /\ pc[r] = "prepared"
    /\ persist(r, "preparing", "running")
    /\ goto(r, "started")
    /\ UNCHANGED <<churn, authority, effect, locks, now, commands, fence>>

\* renewTaskLock, after the authority was compared with the fence.
renewable(r) ==
    LET t == taskOf[r] IN
    /\ eligible(t)
    /\ rev[t] = fence[r]
    /\ holdsLease(r)
    /\ runStatus[r] \in activeRun

extendLease(r) ==
    /\ lockExpires' = [lockExpires EXCEPT ![taskOf[r]] = now + Lease]
    /\ UNCHANGED lockRun

\* The first renewal gates the dispatch; an aborted signal precedes it.
dispatch(r) ==
    /\ pc[r] = "started"
    /\ \/ /\ r \in signal
          /\ goto(r, "cancelling")
          /\ UNCHANGED <<locks, effect>>
       \/ /\ r \notin signal
          /\ r \notin ActionRuns
          /\ renewable(r)
          /\ extendLease(r)
          /\ goto(r, "working")
          /\ UNCHANGED effect
       \/ /\ r \notin signal
          /\ r \notin ActionRuns
          /\ ~renewable(r)
          /\ goto(r, "failing")
          /\ UNCHANGED <<locks, effect>>
       \/ \* the connector is invoked: its effect is in flight
          /\ r \notin signal
          /\ r \in ActionRuns
          /\ goto(r, "working")
          /\ effect' = effect \cup {r}
          /\ UNCHANGED locks
    /\ UNCHANGED <<churn, authority, rows, now, commands, fence>>

\* The renewal timer of a dispatched worker; a refusal aborts the worker.
renew(r) ==
    /\ pc[r] = "working"
    /\ r \notin ActionRuns
    /\ r \notin leaseLost
    /\ IF renewable(r) THEN extendLease(r) /\ UNCHANGED leaseLost
                       ELSE leaseLost' = leaseLost \cup {r} /\ UNCHANGED locks
    /\ UNCHANGED <<churn, authority, rows, effect, now, commands>>
    /\ UNCHANGED <<pc, fence, signal, listed, stopping>>

\* The worker or the connector answers, fails, or stops on its signal.  A lost
\* lease aborts the worker, but an answer that still arrives is returned.  An
\* effect whose outcome is unknown stays recorded as such.
workEnds(r) ==
    /\ pc[r] = "working"
    /\ \/ r \in signal /\ goto(r, "cancelling")
       \/ r \notin signal /\ goto(r, "returned")
       \/ r \notin signal /\ goto(r, "failing")
    /\ effect' \in {effect, effect \ {r}}
    /\ UNCHANGED <<churn, authority, rows, locks, now, commands, fence>>

\* acceptWorkerResult: every row the fence names is compared again, atomically
\* with the transition to reviewing.
\* Fault: only the run and its lock are compared.
acceptable_RunOnly(r) == holdsLease(r)
acceptable(r) == rev[taskOf[r]] = fence[r] /\ holdsLease(r)

acceptWorkerResult(r) ==
    /\ pc[r] = "returned"
    /\ \/ /\ r \in signal
          /\ goto(r, "cancelling")
          /\ UNCHANGED rows
       \/ /\ r \notin signal
          /\ r \in ActionRuns \/ acceptable(r)
          /\ persist(r, "running", "reviewing")
          /\ goto(r, "accepted")
       \/ /\ r \notin signal
          /\ r \notin ActionRuns
          /\ ~acceptable(r)
          /\ goto(r, "failing")
          /\ UNCHANGED rows
    /\ UNCHANGED <<churn, authority, effect, locks, now, commands, fence>>

\* completed, or the terminal state the caught error asks for
conclude(r) ==
    /\ \/ pc[r] = "accepted" /\ persist(r, "reviewing", "completed")
       \/ pc[r] = "failing" /\ persist(r, runStatus[r], "failed")
       \/ pc[r] = "cancelling" /\ persist(r, runStatus[r], "cancelled")
    /\ goto(r, "finished")
    /\ UNCHANGED <<churn, authority, effect, locks, now, commands, fence>>

\* A write of the run fails.  Before the result is recorded the error handler
\* tries to record a failure; when that fails too the run is "interrupted": its
\* row and its lock stay as they are.
persistFails(r) ==
    /\ \/ pc[r] \in {"prepared", "returned"} /\ goto(r, IF r \in signal THEN "cancelling" ELSE "failing")
       \/ pc[r] \in {"accepted", "failing", "cancelling"} /\ goto(r, "released")
    /\ UNCHANGED <<churn, authority, rows, effect, locks, now, commands, fence>>

\* The finally block: release the lock, unless that write fails too.
finish(r) ==
    /\ pc[r] = "finished"
    /\ releaseTaskLock(r) \/ UNCHANGED locks
    /\ goto(r, "released")
    /\ UNCHANGED <<churn, authority, rows, effect, now, commands, fence>>

\* The claim loop's finally: run:tick lets the execution go.
letGo(r) ==
    /\ pc[r] = "released"
    /\ release(r)
    /\ UNCHANGED <<churn, authority, rows, effect, locks, now, commands>>

-----------------------------------------------------------------------------
(* Operators.                                                              *)

ambiguous(r) == r \in effect

classification(r) ==
    IF ambiguous(r) THEN "ambiguous"
    ELSE IF has(r) THEN "live"
    ELSE IF runStatus[r] \in terminalRun
         THEN IF lockRun[taskOf[r]] = r THEN "terminal_cleanup" ELSE "terminal"
    ELSE IF runStatus[r] = "queued" THEN "queued" ELSE "orphaned"

\* run:cancel, and each run that task:cancel stops.  A live run gets the signal;
\* a queued one is cancelled and its lock released in one transaction; anything
\* else is refused.
cancelRun(r) ==
    \/ /\ classification(r) = "live"
       /\ signal' = signal \cup {r}
       /\ UNCHANGED <<rows, locks>>
    \/ /\ classification(r) = "queued"
       /\ runStatus' = [runStatus EXCEPT ![r] = "cancelled"]
       /\ releaseTaskLock(r)
       /\ UNCHANGED <<taskOf, signal>>

cancel(r) ==
    /\ runStatus[r] # "absent"
    /\ cancelRun(r)
    /\ UNCHANGED <<churn, authority, effect, now, commands, pc, fence, leaseLost, listed, stopping>>

available(r) == classification(r) \in {"orphaned", "terminal_cleanup"}

\* run:reconcile.  Without --approve it only reads.  With it, the evidence is
\* collected again in the transaction and must hash to the approved plan, so
\* the repair always acts on current evidence.
reconcile(r) ==
    /\ runStatus[r] # "absent"
    /\ available(r)
    /\ runStatus' = IF classification(r) = "terminal_cleanup" THEN runStatus
                    ELSE [runStatus EXCEPT ![r] = "cancelled"]
    /\ releaseTaskLock(r)
    /\ UNCHANGED <<churn, authority, taskOf, effect, now, host, scheduling, toCancel>>

\* task:cancel commits the task, then lists the runs to stop.
cancelTask(t) ==
    /\ rev[t] < MaxRev
    /\ isTaskTransitionAllowed(taskStatus[t], "cancelled")
    /\ taskStatus' = [taskStatus EXCEPT ![t] = "cancelled"]
    /\ rev' = [rev EXCEPT ![t] = @ + 1]
    /\ toCancel' = toCancel \cup {r \in RunsOf(t) : runStatus[r] \in activeRun}
    /\ UNCHANGED <<churn, granted, ready, rows, effect, locks, now, host, scheduling>>

\* cancelTaskRuns: orphaned and ambiguous runs are left for reconciliation.
cancelTaskRuns(r) ==
    /\ r \in toCancel
    /\ toCancel' = toCancel \ {r}
    /\ IF classification(r) \in {"live", "queued"} THEN cancelRun(r)
                                                   ELSE UNCHANGED <<rows, locks, signal>>
    /\ UNCHANGED <<churn, authority, effect, now, scheduling, pc, fence, leaseLost, listed, stopping>>

-----------------------------------------------------------------------------
(* What others do to the authority: the other task commands, agent, role   *)
(* and pipeline edits, and prerequisites entering or leaving review.       *)

disturb == churn < MaxChurn /\ churn' = churn + 1

changeAuthority(t) ==
    /\ rev[t] < MaxRev
    /\ rev' = [rev EXCEPT ![t] = @ + 1]
    /\ \/ /\ \E to \in taskTransitions[taskStatus[t]] \ {"cancelled"} :
                taskStatus' = [taskStatus EXCEPT ![t] = to]
          /\ UNCHANGED granted
       \/ /\ granted' = [granted EXCEPT ![t] = ~@]
          /\ UNCHANGED taskStatus
       \/ UNCHANGED <<taskStatus, granted>>
    /\ UNCHANGED <<churn, ready, rows, effect, locks, now, host, commands>>

changeReadiness(t) ==
    /\ disturb
    /\ ready' = [ready EXCEPT ![t] = ~@]
    /\ UNCHANGED <<taskStatus, rev, granted, rows, effect, locks, now, host, commands>>

-----------------------------------------------------------------------------
(* The host.  A tick of the clock is a large part of a lease, so no        *)
(* run:schedule command spans one.                                         *)

tick ==
    /\ now < MaxTime
    /\ scheduling = {}
    /\ now' = now + 1
    /\ UNCHANGED <<churn, authority, rows, effect, locks, host, commands>>

\* RunExecutionControl.stop: refuse new work and abort what is live.
stop ==
    /\ ~stopping
    /\ disturb
    /\ stopping' = TRUE
    /\ signal' = signal \cup {r \in Runs : has(r)}
    /\ UNCHANGED <<authority, rows, effect, locks, now, commands, pc, fence, leaseLost, listed>>

\* The next host starts with nothing in memory.
startAfresh ==
    /\ pc' = [r \in Runs |-> "idle"]
    /\ fence' = [r \in Runs |-> 0]
    /\ signal' = {}
    /\ leaseLost' = {}
    /\ listed' = {}
    /\ scheduling' = {}
    /\ toCancel' = {}
    /\ stopping' = FALSE
    /\ UNCHANGED <<authority, rows, effect, locks, now>>

\* A stop ends when every command and execution has returned.
drained == scheduling = {} /\ toCancel = {} /\ \A r \in Runs : ~has(r)

restart == stopping /\ drained /\ startAfresh /\ UNCHANGED churn

crash == disturb /\ startAfresh

Execute(r) ==
    \/ reserve(r) \/ readAuthority(r) \/ admitQueuedRun(r)
    \/ prepare(r) \/ beginRunning(r) \/ dispatch(r) \/ workEnds(r)
    \/ acceptWorkerResult(r) \/ conclude(r) \/ finish(r) \/ letGo(r)

Next ==
    \/ \E r \in Runs :
        \/ scheduleCheck(r) \/ scheduleCommit(r)
        \/ Execute(r) \/ renew(r) \/ persistFails(r)
        \/ cancel(r) \/ reconcile(r) \/ cancelTaskRuns(r)
    \/ \E t \in Tasks : cancelTask(t) \/ changeAuthority(t) \/ changeReadiness(t)
    \/ listQueuedRuns \/ tick \/ stop \/ restart \/ crash

Spec == Init /\ [][Next]_vars
-----------------------------------------------------------------------------
(* Fairness.  The host keeps executing what it has reserved; a worker has  *)
(* a timeout and a connector acknowledges its signal; a daemon keeps       *)
(* ticking; a command that has begun returns; a stopped host is restarted. *)

Fairness ==
    /\ \A r \in Runs :
        /\ WF_vars(Execute(r))
        /\ WF_vars(scheduleCommit(r))
        /\ WF_vars(cancelTaskRuns(r))
    /\ WF_vars(listQueuedRuns)
    /\ WF_vars(restart)

FairSpec == Spec /\ Fairness

-----------------------------------------------------------------------------
PCs == {"idle", "reserved", "checked", "refused", "admitted", "prepared",
        "started", "working", "returned", "accepted", "failing", "cancelling",
        "finished", "released"}

\* Rows, locks and host state keep their types.
TypeOK ==
    /\ taskStatus \in [Tasks -> TaskStatuses]
    /\ rev \in [Tasks -> 0 .. MaxRev]
    /\ granted \in [Tasks -> BOOLEAN]
    /\ ready \in [Tasks -> BOOLEAN]
    /\ runStatus \in [Runs -> RunStatuses \cup {"absent"}]
    /\ taskOf \in [Runs -> Tasks]
    /\ effect \subseteq ActionRuns
    /\ lockRun \in [Tasks -> Runs \cup {NoRun}]
    /\ lockExpires \in [Tasks -> 0 .. MaxTime + Lease]
    /\ now \in 0 .. MaxTime
    /\ pc \in [Runs -> PCs]
    /\ fence \in [Runs -> 0 .. MaxRev]
    /\ signal \subseteq Runs
    /\ leaseLost \subseteq Runs \ ActionRuns
    /\ listed \subseteq Runs
    /\ scheduling \subseteq Runs
    /\ toCancel \subseteq Runs
    /\ stopping \in BOOLEAN
    /\ churn \in 0 .. MaxChurn

\* An unfinished run owns its task's lock: no takeover of an expired lease, no
\* cancellation and no reconciliation ever deprives it, so at most one run of
\* a task is unfinished (acquireTaskLock, releaseTaskLock, the listRuns check).
ActiveRunHoldsLock ==
    \A r \in Runs : runStatus[r] \in activeRun => lockRun[taskOf[r]] = r

\* A run is claimed only while its task is runnable, its agent entitled to it,
\* its prerequisites satisfied and its lease unexpired, whatever changed since
\* the host read them (AdmitAgentRun, admitQueuedRun).
ClaimsUnderAuthority ==
    \A r \in Runs :
        (runStatus[r] = "queued" /\ runStatus'[r] = "preparing")
            => eligible(taskOf[r]) /\ ready[taskOf[r]] /\ holdsLease(r)
AdmittedUnderAuthority == [][ClaimsUnderAuthority]_vars

\* A worker's result is accepted only while the authority it was dispatched
\* under still stands and its run holds the lease (acceptWorkerResult).
AcceptsUnderAuthority ==
    \A r \in Runs \ ActionRuns :
        (runStatus[r] = "running" /\ runStatus'[r] = "reviewing")
            => eligible(taskOf[r]) /\ holdsLease(r)
AcceptedUnderAuthority == [][AcceptsUnderAuthority]_vars

\* A run follows its lifecycle: a finished run stays as it is and an
\* interrupted one is cancelled, never claimed again, although overlapping
\* ticks hold it in stale lists (admitQueuedRun, saveRun, reconcile).
FollowsLifecycle ==
    \A r \in Runs :
        \/ runStatus'[r] = runStatus[r]
        \/ runStatus[r] = "absent" /\ runStatus'[r] = "queued"
        \/ runStatus[r] # "absent" /\ runStatus'[r] \in transitions[runStatus[r]]
RunLifecycle == [][FollowsLifecycle]_vars

\* Operators never write the row of a live run: run:cancel, task:cancel and
\* run:reconcile leave it to the execution that owns it (ManageAgentRuns).
LeavesLiveRuns ==
    \A r \in Runs :
        has(r) /\ runStatus'[r] # runStatus[r] => pc'[r] # pc[r]
LiveRunsAreTheirs == [][LeavesLiveRuns]_vars

\* A live handle that has not claimed its run.
Unclaimed == {"idle", "reserved", "checked", "refused"}

\* Once a task is cancelled its runs come to rest for good, none queued and none
\* executing, including a run scheduled by a command that had passed its
\* checks before the cancellation: each is decided, or left for an operator to
\* reconcile (cancelTaskRuns, AdmitAgentRun).
CancelledTaskQuiesces ==
    \A t \in Tasks :
        taskStatus[t] = "cancelled" ~>
            [](\A r \in RunsOf(t) : runStatus[r] # "queued" /\ pc[r] \in Unclaimed)

\* What holds of runs and locks at any time.
RunSafety == TypeOK /\ ActiveRunHoldsLock

\* What no step may do to a run: claim it or accept its result without the
\* authority, leave its lifecycle, or write it from outside while it is live.
RunSteps ==
    [][ClaimsUnderAuthority /\ AcceptsUnderAuthority /\ FollowsLifecycle /\ LeavesLiveRuns]_vars

\* A bound of the run: of the passing of a lease, a change of authority and a
\* disturbance, a behaviour has at most two.
TwoOfThree == \A t \in Tasks : now + rev[t] + churn <= 2

=============================================================================
