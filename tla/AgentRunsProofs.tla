-------------------------- MODULE AgentRunsProofs --------------------------
(***************************************************************************)
(* AgentRuns for every set of tasks and runs and every lease.              *)
(*                                                                         *)
(* ActiveRunHoldsLock is not inductive: the takeover of an expired lease   *)
(* is safe only because a run:schedule command saw no unfinished run and   *)
(* leases outlast it (ScheduleFresh), and a lock is let go only for a run  *)
(* whose row is known to be finished (HandleMatchesRow).  The fenced       *)
(* claims are safe because a fence read at the current revision was read   *)
(* under the current authority (FenceIsAuthority).                         *)
(***************************************************************************)
EXTENDS AgentRuns, TLAPS

\* A run:schedule command past its checks has not written its row, and no
\* unfinished run of its task can be taken over: such a run was scheduled
\* since, on a lease that cannot have run out.
ScheduleFresh ==
    \A r \in scheduling :
        /\ runStatus[r] = "absent"
        /\ \A q \in Runs : taskOf[q] = taskOf[r] /\ runStatus[q] \in activeRun
              => lockExpires[taskOf[r]] > now

\* What an execution knows of the persisted row of its run.
HandleMatchesRow ==
    /\ \A r \in listed : runStatus[r] # "absent"
    /\ \A r \in Runs :
        /\ pc[r] # "idle" => runStatus[r] # "absent"
        /\ pc[r] \in {"admitted", "prepared"} => runStatus[r] = "preparing"
        /\ pc[r] \in {"started", "working", "returned"} => runStatus[r] = "running"
        /\ pc[r] = "accepted" => runStatus[r] = "reviewing"
        /\ pc[r] \in {"failing", "cancelling"} => runStatus[r] \in {"preparing", "running"}
        /\ pc[r] = "finished" => runStatus[r] \in terminalRun

\* The handles whose fence speaks for the task's authority.
Fenced(r) ==
    \/ pc[r] = "checked"
    \/ r \notin ActionRuns /\ pc[r] \in {"prepared", "started", "working", "returned"}

FenceIsAuthority ==
    \A r \in Runs :
        /\ fence[r] <= rev[taskOf[r]]
        /\ Fenced(r) /\ fence[r] = rev[taskOf[r]] => eligible(taskOf[r])

\* The inductive invariant.
IInv == TypeOK /\ ActiveRunHoldsLock /\ ScheduleFresh /\ HandleMatchesRow /\ FenceIsAuthority

\* The task lifecycle stays among its statuses.
LEMMA TransitionsTyped ==
    ASSUME NEW from \in TaskStatuses PROVE taskTransitions[from] \subseteq TaskStatuses
  BY DEF taskTransitions, TaskStatuses

\* Every step preserves the invariant.
LEMMA InvariantStep ==
    ASSUME IInv, [Next]_vars PROVE IInv'
  <1> USE RunsAssumption DEF IInv, RunStatuses, terminalRun, activeRun
  <1>1. ASSUME NEW r \in Runs, scheduleCheck(r) PROVE IInv'
    <2>1. TypeOK'
      BY <1>1 DEF scheduleCheck, hasActiveRun, RunsOf, TypeOK, PCs, authority,
          rows, locks, host, commands
    <2>2. ActiveRunHoldsLock'
      BY <1>1 DEF scheduleCheck, hasActiveRun, RunsOf, ActiveRunHoldsLock,
          TypeOK, ScheduleFresh, HandleMatchesRow, authority, rows, locks,
          host, commands
    <2>3. ScheduleFresh'
      BY <1>1 DEF scheduleCheck, hasActiveRun, RunsOf, ScheduleFresh, TypeOK,
          ActiveRunHoldsLock, HandleMatchesRow, authority, rows, locks, host,
          commands
    <2>4. HandleMatchesRow'
      BY <1>1 DEF scheduleCheck, hasActiveRun, RunsOf, HandleMatchesRow, TypeOK,
          authority, rows, locks, host, commands
    <2>5. FenceIsAuthority'
      BY <1>1 DEF scheduleCheck, hasActiveRun, RunsOf, FenceIsAuthority, TypeOK,
          Fenced, eligible, authority, rows, locks, host, commands
    <2> QED BY <2>1, <2>2, <2>3, <2>4, <2>5
  <1>2. ASSUME NEW r \in Runs, scheduleCommit(r) PROVE IInv'
    <2>1. TypeOK'
      BY <1>2 DEF scheduleCommit, lockAvailable, acquireTaskLock, TypeOK, PCs,
          authority, rows, locks, host, commands
    <2>2. ActiveRunHoldsLock'
      BY <1>2 DEF scheduleCommit, lockAvailable, acquireTaskLock,
          ActiveRunHoldsLock, TypeOK, ScheduleFresh, HandleMatchesRow,
          authority, rows, locks, host, commands
    <2>3. ScheduleFresh'
      BY <1>2 DEF scheduleCommit, lockAvailable, acquireTaskLock, ScheduleFresh,
          TypeOK, ActiveRunHoldsLock, HandleMatchesRow, authority, rows, locks,
          host, commands
    <2>4. HandleMatchesRow'
      BY <1>2 DEF scheduleCommit, lockAvailable, acquireTaskLock,
          HandleMatchesRow, TypeOK, ScheduleFresh, authority, rows, locks,
          host, commands
    <2>5. FenceIsAuthority'
      BY <1>2 DEF scheduleCommit, lockAvailable, acquireTaskLock,
          FenceIsAuthority, TypeOK, Fenced, eligible, authority, rows, locks,
          host, commands
    <2> QED BY <2>1, <2>2, <2>3, <2>4, <2>5
  <1>3. ASSUME NEW r \in Runs, reserve(r) PROVE IInv'
    <2>1. TypeOK'
      BY <1>3 DEF reserve, has, TypeOK, PCs, authority, rows, locks, host,
          commands
    <2>2. ActiveRunHoldsLock'
      BY <1>3 DEF reserve, has, ActiveRunHoldsLock, TypeOK, ScheduleFresh,
          HandleMatchesRow, authority, rows, locks, host, commands
    <2>3. ScheduleFresh'
      BY <1>3 DEF reserve, has, ScheduleFresh, TypeOK, ActiveRunHoldsLock,
          HandleMatchesRow, authority, rows, locks, host, commands
    <2>4. HandleMatchesRow'
      BY <1>3 DEF reserve, has, HandleMatchesRow, TypeOK, authority, rows, locks,
          host, commands
    <2>5. FenceIsAuthority'
      BY <1>3 DEF reserve, has, FenceIsAuthority, TypeOK, Fenced, eligible,
          authority, rows, locks, host, commands
    <2> QED BY <2>1, <2>2, <2>3, <2>4, <2>5
  <1>4. ASSUME NEW r \in Runs, readAuthority(r) PROVE IInv'
    <2>1. TypeOK'
      BY <1>4 DEF readAuthority, TypeOK, PCs, authority, rows, locks, host,
          commands
    <2>2. ActiveRunHoldsLock'
      BY <1>4 DEF readAuthority, ActiveRunHoldsLock, TypeOK, ScheduleFresh,
          HandleMatchesRow, authority, rows, locks, host, commands
    <2>3. ScheduleFresh'
      BY <1>4 DEF readAuthority, ScheduleFresh, TypeOK, ActiveRunHoldsLock,
          HandleMatchesRow, authority, rows, locks, host, commands
    <2>4. HandleMatchesRow'
      BY <1>4 DEF readAuthority, HandleMatchesRow, TypeOK, authority, rows,
          locks, host, commands
    <2>5. FenceIsAuthority'
      BY <1>4 DEF readAuthority, FenceIsAuthority, TypeOK, Fenced, eligible,
          authority, rows, locks, host, commands
    <2> QED BY <2>1, <2>2, <2>3, <2>4, <2>5
  <1>5. ASSUME NEW r \in Runs, admitQueuedRun(r) PROVE IInv'
    <2>1. TypeOK'
      BY <1>5 DEF admitQueuedRun, claimable, authorityHolds, holdsLease, release,
          goto, releaseTaskLock, ownLock, TypeOK, PCs, authority, rows, locks,
          host, commands
    <2>2. ActiveRunHoldsLock'
      BY <1>5 DEF admitQueuedRun, claimable, authorityHolds, holdsLease, release,
          goto, releaseTaskLock, ownLock, ActiveRunHoldsLock, TypeOK,
          ScheduleFresh, HandleMatchesRow, authority, rows, locks, host,
          commands
    <2>3. ScheduleFresh'
      BY <1>5 DEF admitQueuedRun, claimable, authorityHolds, holdsLease, release,
          goto, releaseTaskLock, ownLock, ScheduleFresh, TypeOK,
          ActiveRunHoldsLock, HandleMatchesRow, authority, rows, locks, host,
          commands
    <2>4. HandleMatchesRow'
      BY <1>5 DEF admitQueuedRun, claimable, authorityHolds, holdsLease, release,
          goto, releaseTaskLock, ownLock, HandleMatchesRow, TypeOK, authority,
          rows, locks, host, commands
    <2>5. FenceIsAuthority'
      BY <1>5 DEF admitQueuedRun, claimable, authorityHolds, holdsLease, release,
          goto, releaseTaskLock, ownLock, FenceIsAuthority, TypeOK, Fenced,
          eligible, authority, rows, locks, host, commands
    <2> QED BY <2>1, <2>2, <2>3, <2>4, <2>5
  <1>6. ASSUME NEW r \in Runs, prepare(r) PROVE IInv'
    <2>1. TypeOK'
      BY <1>6 DEF prepare, goto, TypeOK, PCs, authority, rows, locks, host,
          commands
    <2>2. ActiveRunHoldsLock'
      BY <1>6 DEF prepare, goto, ActiveRunHoldsLock, TypeOK, ScheduleFresh,
          HandleMatchesRow, authority, rows, locks, host, commands
    <2>3. ScheduleFresh'
      BY <1>6 DEF prepare, goto, ScheduleFresh, TypeOK, ActiveRunHoldsLock,
          HandleMatchesRow, authority, rows, locks, host, commands
    <2>4. HandleMatchesRow'
      BY <1>6 DEF prepare, goto, HandleMatchesRow, TypeOK, authority, rows,
          locks, host, commands
    <2>5. FenceIsAuthority'
      BY <1>6 DEF prepare, goto, FenceIsAuthority, TypeOK, Fenced, eligible,
          authority, rows, locks, host, commands
    <2> QED BY <2>1, <2>2, <2>3, <2>4, <2>5
  <1>7. ASSUME NEW r \in Runs, beginRunning(r) PROVE IInv'
    <2>1. TypeOK'
      BY <1>7 DEF beginRunning, goto, persist, TypeOK, PCs, authority, rows,
          locks, host, commands
    <2>2. ActiveRunHoldsLock'
      BY <1>7 DEF beginRunning, goto, persist, ActiveRunHoldsLock, TypeOK,
          ScheduleFresh, HandleMatchesRow, authority, rows, locks, host,
          commands
    <2>3. ScheduleFresh'
      BY <1>7 DEF beginRunning, goto, persist, ScheduleFresh, TypeOK,
          ActiveRunHoldsLock, HandleMatchesRow, authority, rows, locks, host,
          commands
    <2>4. HandleMatchesRow'
      BY <1>7 DEF beginRunning, goto, persist, HandleMatchesRow, TypeOK,
          authority, rows, locks, host, commands
    <2>5. FenceIsAuthority'
      BY <1>7 DEF beginRunning, goto, persist, FenceIsAuthority, TypeOK, Fenced,
          eligible, authority, rows, locks, host, commands
    <2> QED BY <2>1, <2>2, <2>3, <2>4, <2>5
  <1>8. ASSUME NEW r \in Runs, dispatch(r) PROVE IInv'
    <2>1. TypeOK'
      BY <1>8 DEF dispatch, goto, renewable, extendLease, holdsLease, TypeOK,
          PCs, authority, rows, locks, host, commands
    <2>2. ActiveRunHoldsLock'
      BY <1>8 DEF dispatch, goto, renewable, extendLease, holdsLease,
          ActiveRunHoldsLock, TypeOK, ScheduleFresh, HandleMatchesRow,
          authority, rows, locks, host, commands
    <2>3. ScheduleFresh'
      BY <1>8 DEF dispatch, goto, renewable, extendLease, holdsLease,
          ScheduleFresh, TypeOK, ActiveRunHoldsLock, HandleMatchesRow,
          authority, rows, locks, host, commands
    <2>4. HandleMatchesRow'
      BY <1>8 DEF dispatch, goto, renewable, extendLease, holdsLease,
          HandleMatchesRow, TypeOK, authority, rows, locks, host, commands
    <2>5. FenceIsAuthority'
      BY <1>8 DEF dispatch, goto, renewable, extendLease, holdsLease,
          FenceIsAuthority, TypeOK, Fenced, eligible, authority, rows, locks,
          host, commands
    <2> QED BY <2>1, <2>2, <2>3, <2>4, <2>5
  <1>9. ASSUME NEW r \in Runs, workEnds(r) PROVE IInv'
    <2>1. TypeOK'
      BY <1>9 DEF workEnds, goto, TypeOK, PCs, authority, rows, locks, host,
          commands
    <2>2. ActiveRunHoldsLock'
      BY <1>9 DEF workEnds, goto, ActiveRunHoldsLock, TypeOK, ScheduleFresh,
          HandleMatchesRow, authority, rows, locks, host, commands
    <2>3. ScheduleFresh'
      BY <1>9 DEF workEnds, goto, ScheduleFresh, TypeOK, ActiveRunHoldsLock,
          HandleMatchesRow, authority, rows, locks, host, commands
    <2>4. HandleMatchesRow'
      BY <1>9 DEF workEnds, goto, HandleMatchesRow, TypeOK, authority, rows,
          locks, host, commands
    <2>5. FenceIsAuthority'
      BY <1>9 DEF workEnds, goto, FenceIsAuthority, TypeOK, Fenced, eligible,
          authority, rows, locks, host, commands
    <2> QED BY <2>1, <2>2, <2>3, <2>4, <2>5
  <1>10. ASSUME NEW r \in Runs, acceptWorkerResult(r) PROVE IInv'
    <2>1. TypeOK'
      BY <1>10 DEF acceptWorkerResult, goto, persist, TypeOK, PCs, authority,
          rows, locks, host, commands
    <2>2. ActiveRunHoldsLock'
      BY <1>10 DEF acceptWorkerResult, goto, persist, ActiveRunHoldsLock, TypeOK,
          ScheduleFresh, HandleMatchesRow, authority, rows, locks, host,
          commands
    <2>3. ScheduleFresh'
      BY <1>10 DEF acceptWorkerResult, goto, persist, ScheduleFresh, TypeOK,
          ActiveRunHoldsLock, HandleMatchesRow, authority, rows, locks, host,
          commands
    <2>4. HandleMatchesRow'
      BY <1>10 DEF acceptWorkerResult, goto, persist, HandleMatchesRow, TypeOK,
          authority, rows, locks, host, commands
    <2>5. FenceIsAuthority'
      BY <1>10 DEF acceptWorkerResult, goto, persist, FenceIsAuthority, TypeOK,
          Fenced, eligible, authority, rows, locks, host, commands
    <2> QED BY <2>1, <2>2, <2>3, <2>4, <2>5
  <1>11. ASSUME NEW r \in Runs, conclude(r) PROVE IInv'
    <2>1. TypeOK'
      BY <1>11 DEF conclude, goto, persist, TypeOK, PCs, authority, rows, locks,
          host, commands
    <2>2. ActiveRunHoldsLock'
      BY <1>11 DEF conclude, goto, persist, ActiveRunHoldsLock, TypeOK,
          ScheduleFresh, HandleMatchesRow, authority, rows, locks, host,
          commands
    <2>3. ScheduleFresh'
      BY <1>11 DEF conclude, goto, persist, ScheduleFresh, TypeOK,
          ActiveRunHoldsLock, HandleMatchesRow, authority, rows, locks, host,
          commands
    <2>4. HandleMatchesRow'
      BY <1>11 DEF conclude, goto, persist, HandleMatchesRow, TypeOK, authority,
          rows, locks, host, commands
    <2>5. FenceIsAuthority'
      BY <1>11 DEF conclude, goto, persist, FenceIsAuthority, TypeOK, Fenced,
          eligible, authority, rows, locks, host, commands
    <2> QED BY <2>1, <2>2, <2>3, <2>4, <2>5
  <1>12. ASSUME NEW r \in Runs, finish(r) PROVE IInv'
    <2>1. TypeOK'
      BY <1>12 DEF finish, goto, releaseTaskLock, ownLock, TypeOK, PCs,
          authority, rows, locks, host, commands
    <2>2. ActiveRunHoldsLock'
      BY <1>12 DEF finish, goto, releaseTaskLock, ownLock, ActiveRunHoldsLock,
          TypeOK, ScheduleFresh, HandleMatchesRow, authority, rows, locks,
          host, commands
    <2>3. ScheduleFresh'
      BY <1>12 DEF finish, goto, releaseTaskLock, ownLock, ScheduleFresh, TypeOK,
          ActiveRunHoldsLock, HandleMatchesRow, authority, rows, locks, host,
          commands
    <2>4. HandleMatchesRow'
      BY <1>12 DEF finish, goto, releaseTaskLock, ownLock, HandleMatchesRow,
          TypeOK, authority, rows, locks, host, commands
    <2>5. FenceIsAuthority'
      BY <1>12 DEF finish, goto, releaseTaskLock, ownLock, FenceIsAuthority,
          TypeOK, Fenced, eligible, authority, rows, locks, host, commands
    <2> QED BY <2>1, <2>2, <2>3, <2>4, <2>5
  <1>13. ASSUME NEW r \in Runs, letGo(r) PROVE IInv'
    <2>1. TypeOK'
      BY <1>13 DEF letGo, release, TypeOK, PCs, authority, rows, locks, host,
          commands
    <2>2. ActiveRunHoldsLock'
      BY <1>13 DEF letGo, release, ActiveRunHoldsLock, TypeOK, ScheduleFresh,
          HandleMatchesRow, authority, rows, locks, host, commands
    <2>3. ScheduleFresh'
      BY <1>13 DEF letGo, release, ScheduleFresh, TypeOK, ActiveRunHoldsLock,
          HandleMatchesRow, authority, rows, locks, host, commands
    <2>4. HandleMatchesRow'
      BY <1>13 DEF letGo, release, HandleMatchesRow, TypeOK, authority, rows,
          locks, host, commands
    <2>5. FenceIsAuthority'
      BY <1>13 DEF letGo, release, FenceIsAuthority, TypeOK, Fenced, eligible,
          authority, rows, locks, host, commands
    <2> QED BY <2>1, <2>2, <2>3, <2>4, <2>5
  <1>14. ASSUME NEW r \in Runs, renew(r) PROVE IInv'
    <2>1. TypeOK'
      BY <1>14 DEF renew, renewable, extendLease, holdsLease, TypeOK, PCs,
          authority, rows, locks, host, commands
    <2>2. ActiveRunHoldsLock'
      BY <1>14 DEF renew, renewable, extendLease, holdsLease, ActiveRunHoldsLock,
          TypeOK, ScheduleFresh, HandleMatchesRow, authority, rows, locks,
          host, commands
    <2>3. ScheduleFresh'
      BY <1>14 DEF renew, renewable, extendLease, holdsLease, ScheduleFresh,
          TypeOK, ActiveRunHoldsLock, HandleMatchesRow, authority, rows, locks,
          host, commands
    <2>4. HandleMatchesRow'
      BY <1>14 DEF renew, renewable, extendLease, holdsLease, HandleMatchesRow,
          TypeOK, authority, rows, locks, host, commands
    <2>5. FenceIsAuthority'
      BY <1>14 DEF renew, renewable, extendLease, holdsLease, FenceIsAuthority,
          TypeOK, Fenced, eligible, authority, rows, locks, host, commands
    <2> QED BY <2>1, <2>2, <2>3, <2>4, <2>5
  <1>15. ASSUME NEW r \in Runs, persistFails(r) PROVE IInv'
    <2>1. TypeOK'
      BY <1>15 DEF persistFails, goto, TypeOK, PCs, authority, rows, locks, host,
          commands
    <2>2. ActiveRunHoldsLock'
      BY <1>15 DEF persistFails, goto, ActiveRunHoldsLock, TypeOK, ScheduleFresh,
          HandleMatchesRow, authority, rows, locks, host, commands
    <2>3. ScheduleFresh'
      BY <1>15 DEF persistFails, goto, ScheduleFresh, TypeOK, ActiveRunHoldsLock,
          HandleMatchesRow, authority, rows, locks, host, commands
    <2>4. HandleMatchesRow'
      BY <1>15 DEF persistFails, goto, HandleMatchesRow, TypeOK, authority, rows,
          locks, host, commands
    <2>5. FenceIsAuthority'
      BY <1>15 DEF persistFails, goto, FenceIsAuthority, TypeOK, Fenced,
          eligible, authority, rows, locks, host, commands
    <2> QED BY <2>1, <2>2, <2>3, <2>4, <2>5
  <1>16. ASSUME NEW r \in Runs, cancel(r) PROVE IInv'
    <2>1. TypeOK'
      BY <1>16 DEF cancel, cancelRun, classification, ambiguous, has,
          releaseTaskLock, ownLock, TypeOK, PCs, authority, rows, locks, host,
          commands
    <2>2. ActiveRunHoldsLock'
      BY <1>16 DEF cancel, cancelRun, classification, ambiguous, has,
          releaseTaskLock, ownLock, ActiveRunHoldsLock, TypeOK, ScheduleFresh,
          HandleMatchesRow, authority, rows, locks, host, commands
    <2>3. ScheduleFresh'
      BY <1>16 DEF cancel, cancelRun, classification, ambiguous, has,
          releaseTaskLock, ownLock, ScheduleFresh, TypeOK, ActiveRunHoldsLock,
          HandleMatchesRow, authority, rows, locks, host, commands
    <2>4. HandleMatchesRow'
      BY <1>16 DEF cancel, cancelRun, classification, ambiguous, has,
          releaseTaskLock, ownLock, HandleMatchesRow, TypeOK, authority, rows,
          locks, host, commands
    <2>5. FenceIsAuthority'
      BY <1>16 DEF cancel, cancelRun, classification, ambiguous, has,
          releaseTaskLock, ownLock, FenceIsAuthority, TypeOK, Fenced, eligible,
          authority, rows, locks, host, commands
    <2> QED BY <2>1, <2>2, <2>3, <2>4, <2>5
  <1>17. ASSUME NEW r \in Runs, reconcile(r) PROVE IInv'
    <2>1. TypeOK'
      BY <1>17 DEF reconcile, available, classification, ambiguous, has,
          releaseTaskLock, ownLock, TypeOK, PCs, authority, rows, locks, host,
          commands
    <2>2. ActiveRunHoldsLock'
      BY <1>17 DEF reconcile, available, classification, ambiguous, has,
          releaseTaskLock, ownLock, ActiveRunHoldsLock, TypeOK, ScheduleFresh,
          HandleMatchesRow, authority, rows, locks, host, commands
    <2>3. ScheduleFresh'
      BY <1>17 DEF reconcile, available, classification, ambiguous, has,
          releaseTaskLock, ownLock, ScheduleFresh, TypeOK, ActiveRunHoldsLock,
          HandleMatchesRow, authority, rows, locks, host, commands
    <2>4. HandleMatchesRow'
      BY <1>17 DEF reconcile, available, classification, ambiguous, has,
          releaseTaskLock, ownLock, HandleMatchesRow, TypeOK, authority, rows,
          locks, host, commands
    <2>5. FenceIsAuthority'
      BY <1>17 DEF reconcile, available, classification, ambiguous, has,
          releaseTaskLock, ownLock, FenceIsAuthority, TypeOK, Fenced, eligible,
          authority, rows, locks, host, commands
    <2> QED BY <2>1, <2>2, <2>3, <2>4, <2>5
  <1>18. ASSUME NEW r \in Runs, cancelTaskRuns(r) PROVE IInv'
    <2>1. TypeOK'
      BY <1>18 DEF cancelTaskRuns, cancelRun, classification, ambiguous, has,
          releaseTaskLock, ownLock, TypeOK, PCs, authority, rows, locks, host,
          commands
    <2>2. ActiveRunHoldsLock'
      BY <1>18 DEF cancelTaskRuns, cancelRun, classification, ambiguous, has,
          releaseTaskLock, ownLock, ActiveRunHoldsLock, TypeOK, ScheduleFresh,
          HandleMatchesRow, authority, rows, locks, host, commands
    <2>3. ScheduleFresh'
      BY <1>18 DEF cancelTaskRuns, cancelRun, classification, ambiguous, has,
          releaseTaskLock, ownLock, ScheduleFresh, TypeOK, ActiveRunHoldsLock,
          HandleMatchesRow, authority, rows, locks, host, commands
    <2>4. HandleMatchesRow'
      BY <1>18 DEF cancelTaskRuns, cancelRun, classification, ambiguous, has,
          releaseTaskLock, ownLock, HandleMatchesRow, TypeOK, authority, rows,
          locks, host, commands
    <2>5. FenceIsAuthority'
      BY <1>18 DEF cancelTaskRuns, cancelRun, classification, ambiguous, has,
          releaseTaskLock, ownLock, FenceIsAuthority, TypeOK, Fenced, eligible,
          authority, rows, locks, host, commands
    <2> QED BY <2>1, <2>2, <2>3, <2>4, <2>5
  <1>19. ASSUME NEW t \in Tasks, cancelTask(t) PROVE IInv'
    <2>1. TypeOK'
      BY <1>19 DEF cancelTask, RunsOf, TypeOK, PCs, TaskStatuses, authority,
          rows, locks, host, commands
    <2>2. ActiveRunHoldsLock'
      BY <1>19 DEF cancelTask, RunsOf, ActiveRunHoldsLock, TypeOK, ScheduleFresh,
          HandleMatchesRow, authority, rows, locks, host, commands
    <2>3. ScheduleFresh'
      BY <1>19 DEF cancelTask, RunsOf, ScheduleFresh, TypeOK, ActiveRunHoldsLock,
          HandleMatchesRow, authority, rows, locks, host, commands
    <2>4. HandleMatchesRow'
      BY <1>19 DEF cancelTask, RunsOf, HandleMatchesRow, TypeOK, authority, rows,
          locks, host, commands
    <2>5. FenceIsAuthority'
      BY <1>19 DEF cancelTask, RunsOf, FenceIsAuthority, TypeOK, Fenced,
          eligible, authority, rows, locks, host, commands
    <2> QED BY <2>1, <2>2, <2>3, <2>4, <2>5
  <1>20. ASSUME NEW t \in Tasks, changeAuthority(t) PROVE IInv'
    <2>1. TypeOK'
      <3>1. taskStatus' \in [Tasks -> TaskStatuses]
        BY TransitionsTyped, <1>20 DEF changeAuthority, TypeOK
      <3>2. granted' \in [Tasks -> BOOLEAN]
        BY <1>20 DEF changeAuthority, TypeOK
      <3>3. rev' \in [Tasks -> 0 .. MaxRev]
        BY <1>20 DEF changeAuthority, TypeOK
      <3> QED BY <1>20, <3>1, <3>2, <3>3 DEF changeAuthority, TypeOK, rows, locks, host, commands
    <2>2. ActiveRunHoldsLock'
      BY <1>20 DEF changeAuthority, ActiveRunHoldsLock, TypeOK, ScheduleFresh,
          HandleMatchesRow, authority, rows, locks, host, commands
    <2>3. ScheduleFresh'
      BY <1>20 DEF changeAuthority, ScheduleFresh, TypeOK, ActiveRunHoldsLock,
          HandleMatchesRow, authority, rows, locks, host, commands
    <2>4. HandleMatchesRow'
      BY <1>20 DEF changeAuthority, HandleMatchesRow, TypeOK, authority, rows,
          locks, host, commands
    <2>5. FenceIsAuthority'
      BY <1>20 DEF changeAuthority, FenceIsAuthority, TypeOK, Fenced, eligible,
          authority, rows, locks, host, commands
    <2> QED BY <2>1, <2>2, <2>3, <2>4, <2>5
  <1>21. ASSUME NEW t \in Tasks, changeReadiness(t) PROVE IInv'
    <2>1. TypeOK'
      BY <1>21 DEF changeReadiness, disturb, TypeOK, PCs, authority, rows, locks,
          host, commands
    <2>2. ActiveRunHoldsLock'
      BY <1>21 DEF changeReadiness, disturb, ActiveRunHoldsLock, TypeOK,
          ScheduleFresh, HandleMatchesRow, authority, rows, locks, host,
          commands
    <2>3. ScheduleFresh'
      BY <1>21 DEF changeReadiness, disturb, ScheduleFresh, TypeOK,
          ActiveRunHoldsLock, HandleMatchesRow, authority, rows, locks, host,
          commands
    <2>4. HandleMatchesRow'
      BY <1>21 DEF changeReadiness, disturb, HandleMatchesRow, TypeOK, authority,
          rows, locks, host, commands
    <2>5. FenceIsAuthority'
      BY <1>21 DEF changeReadiness, disturb, FenceIsAuthority, TypeOK, Fenced,
          eligible, authority, rows, locks, host, commands
    <2> QED BY <2>1, <2>2, <2>3, <2>4, <2>5
  <1>22. ASSUME listQueuedRuns PROVE IInv'
    <2>1. TypeOK'
      BY <1>22 DEF listQueuedRuns, TypeOK, PCs, authority, rows, locks, host,
          commands
    <2>2. ActiveRunHoldsLock'
      BY <1>22 DEF listQueuedRuns, ActiveRunHoldsLock, TypeOK, ScheduleFresh,
          HandleMatchesRow, authority, rows, locks, host, commands
    <2>3. ScheduleFresh'
      BY <1>22 DEF listQueuedRuns, ScheduleFresh, TypeOK, ActiveRunHoldsLock,
          HandleMatchesRow, authority, rows, locks, host, commands
    <2>4. HandleMatchesRow'
      BY <1>22 DEF listQueuedRuns, HandleMatchesRow, TypeOK, authority, rows,
          locks, host, commands
    <2>5. FenceIsAuthority'
      BY <1>22 DEF listQueuedRuns, FenceIsAuthority, TypeOK, Fenced, eligible,
          authority, rows, locks, host, commands
    <2> QED BY <2>1, <2>2, <2>3, <2>4, <2>5
  <1>23. ASSUME tick PROVE IInv'
    <2>1. TypeOK'
      BY <1>23 DEF tick, TypeOK, PCs, authority, rows, locks, host, commands
    <2>2. ActiveRunHoldsLock'
      BY <1>23 DEF tick, ActiveRunHoldsLock, TypeOK, ScheduleFresh,
          HandleMatchesRow, authority, rows, locks, host, commands
    <2>3. ScheduleFresh'
      BY <1>23 DEF tick, ScheduleFresh, TypeOK, ActiveRunHoldsLock,
          HandleMatchesRow, authority, rows, locks, host, commands
    <2>4. HandleMatchesRow'
      BY <1>23 DEF tick, HandleMatchesRow, TypeOK, authority, rows, locks, host,
          commands
    <2>5. FenceIsAuthority'
      BY <1>23 DEF tick, FenceIsAuthority, TypeOK, Fenced, eligible, authority,
          rows, locks, host, commands
    <2> QED BY <2>1, <2>2, <2>3, <2>4, <2>5
  <1>24. ASSUME stop PROVE IInv'
    <2>1. TypeOK'
      BY <1>24 DEF stop, disturb, TypeOK, PCs, authority, rows, locks, host,
          commands
    <2>2. ActiveRunHoldsLock'
      BY <1>24 DEF stop, disturb, ActiveRunHoldsLock, TypeOK, ScheduleFresh,
          HandleMatchesRow, authority, rows, locks, host, commands
    <2>3. ScheduleFresh'
      BY <1>24 DEF stop, disturb, ScheduleFresh, TypeOK, ActiveRunHoldsLock,
          HandleMatchesRow, authority, rows, locks, host, commands
    <2>4. HandleMatchesRow'
      BY <1>24 DEF stop, disturb, HandleMatchesRow, TypeOK, authority, rows,
          locks, host, commands
    <2>5. FenceIsAuthority'
      BY <1>24 DEF stop, disturb, FenceIsAuthority, TypeOK, Fenced, eligible,
          authority, rows, locks, host, commands
    <2> QED BY <2>1, <2>2, <2>3, <2>4, <2>5
  <1>25. ASSUME restart PROVE IInv'
    <2>1. TypeOK'
      <3>1. pc' \in [Runs -> PCs] /\ fence' \in [Runs -> 0 .. MaxRev]
        BY <1>25 DEF restart, startAfresh, PCs
      <3>2. stopping' \in BOOLEAN
        BY <1>25 DEF restart, startAfresh
      <3> QED BY <1>25, <3>1, <3>2 DEF restart, startAfresh, TypeOK, authority, rows, locks
    <2>2. ActiveRunHoldsLock'
      BY <1>25 DEF restart, startAfresh, ActiveRunHoldsLock, TypeOK,
          ScheduleFresh, HandleMatchesRow, authority, rows, locks, host,
          commands
    <2>3. ScheduleFresh'
      BY <1>25 DEF restart, startAfresh, ScheduleFresh, TypeOK,
          ActiveRunHoldsLock, HandleMatchesRow, authority, rows, locks, host,
          commands
    <2>4. HandleMatchesRow'
      BY <1>25 DEF restart, startAfresh, HandleMatchesRow, TypeOK, authority,
          rows, locks, host, commands
    <2>5. FenceIsAuthority'
      BY <1>25 DEF restart, startAfresh, FenceIsAuthority, TypeOK, Fenced,
          eligible, authority, rows, locks, host, commands
    <2> QED BY <2>1, <2>2, <2>3, <2>4, <2>5
  <1>26. ASSUME crash PROVE IInv'
    <2>1. TypeOK'
      <3>1. pc' \in [Runs -> PCs] /\ fence' \in [Runs -> 0 .. MaxRev]
        BY <1>26 DEF crash, startAfresh, PCs
      <3>2. stopping' \in BOOLEAN
        BY <1>26 DEF crash, startAfresh
      <3>3. churn' \in 0 .. MaxChurn
        BY <1>26 DEF crash, disturb, TypeOK
      <3> QED BY <1>26, <3>1, <3>2, <3>3 DEF crash, startAfresh, TypeOK, authority, rows, locks
    <2>2. ActiveRunHoldsLock'
      BY <1>26 DEF crash, startAfresh, disturb, ActiveRunHoldsLock, TypeOK,
          ScheduleFresh, HandleMatchesRow, authority, rows, locks, host,
          commands
    <2>3. ScheduleFresh'
      BY <1>26 DEF crash, startAfresh, disturb, ScheduleFresh, TypeOK,
          ActiveRunHoldsLock, HandleMatchesRow, authority, rows, locks, host,
          commands
    <2>4. HandleMatchesRow'
      BY <1>26 DEF crash, startAfresh, disturb, HandleMatchesRow, TypeOK,
          authority, rows, locks, host, commands
    <2>5. FenceIsAuthority'
      BY <1>26 DEF crash, startAfresh, disturb, FenceIsAuthority, TypeOK, Fenced,
          eligible, authority, rows, locks, host, commands
    <2> QED BY <2>1, <2>2, <2>3, <2>4, <2>5
  <1>27. ASSUME UNCHANGED vars PROVE IInv'
    BY <1>27 DEF vars, TypeOK, ActiveRunHoldsLock, ScheduleFresh, HandleMatchesRow,
          FenceIsAuthority, Fenced, eligible, authority, rows, locks, host, commands
  <1> QED
    BY <1>1, <1>2, <1>3, <1>4, <1>5, <1>6, <1>7, <1>8, <1>9, <1>10,
       <1>11, <1>12, <1>13, <1>14, <1>15, <1>16, <1>17, <1>18, <1>19, <1>20,
       <1>21, <1>22, <1>23, <1>24, <1>25, <1>26, <1>27
    DEF Next, Execute

\* Nothing is scheduled, listed or live initially.
LEMMA InvariantInit == Init => IInv
  <1> SUFFICES ASSUME Init PROVE IInv
    OBVIOUS
  <1>1. TypeOK
    <2>1. granted \in [Tasks -> BOOLEAN] /\ ready \in [Tasks -> BOOLEAN] /\ stopping \in BOOLEAN
      BY DEF Init
    <2>2. /\ taskStatus \in [Tasks -> TaskStatuses]
          /\ runStatus \in [Runs -> RunStatuses \cup {"absent"}]
          /\ pc \in [Runs -> PCs]
      BY DEF Init, TaskStatuses, PCs
    <2> QED BY RunsAssumption, <2>1, <2>2 DEF Init, TypeOK
  <1>2. ActiveRunHoldsLock /\ ScheduleFresh /\ HandleMatchesRow /\ FenceIsAuthority
    BY RunsAssumption DEF Init, ActiveRunHoldsLock, ScheduleFresh, HandleMatchesRow,
       FenceIsAuthority, Fenced, activeRun
  <1> QED BY <1>1, <1>2 DEF IInv

\* The inductive invariant holds in every reachable state.
THEOREM AgentRunInvariant == Spec => []IInv
  BY InvariantInit, InvariantStep, PTL DEF Spec

\* Eight steps write a run's row; every other leaves all rows as they are.
LEMMA RowWriters ==
    ASSUME [Next]_vars
    PROVE  \/ runStatus' = runStatus
           \/ \E r \in Runs :
                \/ scheduleCommit(r) \/ admitQueuedRun(r) \/ beginRunning(r)
                \/ acceptWorkerResult(r) \/ conclude(r) \/ cancel(r) \/ reconcile(r)
                \/ cancelTaskRuns(r)
  BY DEF Next, Execute, vars, rows, scheduleCheck, listQueuedRuns, reserve, readAuthority,
     prepare, dispatch, workEnds, finish, letGo, renew, persistFails, cancelTask,
     changeAuthority, changeReadiness, tick, stop, restart, crash, startAfresh

\* The lifecycle table, as far as the steps that do not consult it rely on it.
LEMMA LifecycleTable ==
    /\ {"preparing", "cancelled"} \subseteq transitions["queued"]
    /\ \A s \in {"preparing", "running", "reviewing"} : "cancelled" \in transitions[s]
  BY DEF transitions, RunStatuses

\* What a step may do to the row of run q: the four action properties at once.
RowRule(q) ==
    /\ (runStatus[q] = "queued" /\ runStatus'[q] = "preparing")
        => eligible(taskOf[q]) /\ ready[taskOf[q]] /\ holdsLease(q)
    /\ (q \notin ActionRuns /\ runStatus[q] = "running" /\ runStatus'[q] = "reviewing")
        => eligible(taskOf[q]) /\ holdsLease(q)
    /\ \/ runStatus'[q] = runStatus[q]
       \/ runStatus[q] = "absent" /\ runStatus'[q] = "queued"
       \/ runStatus[q] # "absent" /\ runStatus'[q] \in transitions[runStatus[q]]
    /\ has(q) /\ runStatus'[q] # runStatus[q] => pc'[q] # pc[q]

\* Every step obeys RowRule.
LEMMA RowRules ==
    ASSUME IInv, [Next]_vars, NEW q \in Runs PROVE RowRule(q)
  <1> USE DEF IInv, TypeOK, RowRule, RunStatuses, terminalRun, activeRun
  <1>0. CASE runStatus' = runStatus
    BY <1>0
  <1>1. ASSUME NEW r \in Runs, scheduleCommit(r) PROVE RowRule(q)
    BY <1>1, LifecycleTable DEF scheduleCommit, ScheduleFresh, HandleMatchesRow, FenceIsAuthority, Fenced, has, host, rows
  <1>2. ASSUME NEW r \in Runs, admitQueuedRun(r) PROVE RowRule(q)
    BY <1>2, LifecycleTable DEF admitQueuedRun, claimable, authorityHolds, release, goto, ScheduleFresh, HandleMatchesRow, FenceIsAuthority, Fenced, has, host, rows
  <1>3. ASSUME NEW r \in Runs, beginRunning(r) PROVE RowRule(q)
    BY <1>3, LifecycleTable DEF beginRunning, persist, goto, ScheduleFresh, HandleMatchesRow, FenceIsAuthority, Fenced, has, host, rows
  <1>4. ASSUME NEW r \in Runs, acceptWorkerResult(r) PROVE RowRule(q)
    BY <1>4, LifecycleTable DEF acceptWorkerResult, persist, goto, acceptable, ScheduleFresh, HandleMatchesRow, FenceIsAuthority, Fenced, has, host, rows
  <1>5. ASSUME NEW r \in Runs, conclude(r) PROVE RowRule(q)
    BY <1>5, LifecycleTable DEF conclude, persist, goto, ScheduleFresh, HandleMatchesRow, FenceIsAuthority, Fenced, has, host, rows
  <1>6. ASSUME NEW r \in Runs, cancel(r) PROVE RowRule(q)
    BY <1>6, LifecycleTable DEF cancel, cancelRun, classification, ambiguous, ScheduleFresh, HandleMatchesRow, FenceIsAuthority, Fenced, has, host, rows
  <1>7. ASSUME NEW r \in Runs, reconcile(r) PROVE RowRule(q)
    BY <1>7, LifecycleTable DEF reconcile, available, classification, ambiguous, ScheduleFresh, HandleMatchesRow, FenceIsAuthority, Fenced, has, host, rows
  <1>8. ASSUME NEW r \in Runs, cancelTaskRuns(r) PROVE RowRule(q)
    BY <1>8, LifecycleTable DEF cancelTaskRuns, cancelRun, classification, ambiguous, ScheduleFresh, HandleMatchesRow, FenceIsAuthority, Fenced, has, host, rows
  <1> QED BY RowWriters, <1>0, <1>1, <1>2, <1>3, <1>4, <1>5, <1>6, <1>7, <1>8

\* Types hold in every reachable state, for every set of tasks and runs.
THEOREM TypeCorrect == Spec => []TypeOK
  BY AgentRunInvariant, PTL DEF IInv

\* An unfinished run always owns its task's lock, whatever expires, crashes or
\* is reconciled (acquireTaskLock, releaseTaskLock).
THEOREM UnfinishedRunsOwnTheirTask == Spec => []ActiveRunHoldsLock
  BY AgentRunInvariant, PTL DEF IInv

\* Runs are claimed only under authority that holds at the claim
\* (admitQueuedRun).
THEOREM ClaimsAreAuthorised == Spec => AdmittedUnderAuthority
  <1>1. IInv /\ [Next]_vars => [ClaimsUnderAuthority]_vars
    BY RowRules DEF RowRule, ClaimsUnderAuthority
  <1> QED BY <1>1, AgentRunInvariant, PTL DEF Spec, AdmittedUnderAuthority

\* Worker results are accepted only under the authority they were dispatched
\* with (acceptWorkerResult).
THEOREM ResultsAreFenced == Spec => AcceptedUnderAuthority
  <1>1. IInv /\ [Next]_vars => [AcceptsUnderAuthority]_vars
    BY RowRules DEF RowRule, AcceptsUnderAuthority
  <1> QED BY <1>1, AgentRunInvariant, PTL DEF Spec, AcceptedUnderAuthority

\* Runs follow their lifecycle: finished runs stay, interrupted ones are never
\* claimed again (admitQueuedRun, saveRun, reconcile).
THEOREM RunsAreNeverReplayed == Spec => RunLifecycle
  <1>1. IInv /\ [Next]_vars => [FollowsLifecycle]_vars
    BY RowRules DEF RowRule, FollowsLifecycle
  <1> QED BY <1>1, AgentRunInvariant, PTL DEF Spec, RunLifecycle

\* The row of a live run is written only by the execution that owns it
\* (ManageAgentRuns).
THEOREM OperatorsLeaveLiveRuns == Spec => LiveRunsAreTheirs
  <1>1. IInv /\ [Next]_vars => [LeavesLiveRuns]_vars
    BY RowRules DEF RowRule, LeavesLiveRuns
  <1> QED BY <1>1, AgentRunInvariant, PTL DEF Spec, LiveRunsAreTheirs

\* Runs and locks are safe in every reachable state.
THEOREM RunsAreSafe == Spec => []RunSafety
  BY TypeCorrect, UnfinishedRunsOwnTheirTask, PTL DEF RunSafety

\* No step claims, accepts, replays or overwrites a run against the rules.
THEOREM RunStepsHold == Spec => RunSteps
  BY ClaimsAreAuthorised, ResultsAreFenced, RunsAreNeverReplayed, OperatorsLeaveLiveRuns, PTL
  DEF RunSteps, AdmittedUnderAuthority, AcceptedUnderAuthority, RunLifecycle, LiveRunsAreTheirs

=============================================================================
