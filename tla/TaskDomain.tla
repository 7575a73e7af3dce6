----------------------------- MODULE TaskDomain -----------------------------
(***************************************************************************)
(* The task lifecycle table of packages/domain/src/task/task.ts and the    *)
(* predicates the rest of the Runtime derives from it, and the tables of   *)
(* packages/domain/src/governance/governance.ts.  It has no state:         *)
(* TaskBoard, AgentRuns and PipelineRuns all move tasks through it.        *)
(***************************************************************************)

TaskStatuses == {"pending", "assigned", "running", "blocked",
                 "waiting_review", "completed", "failed", "cancelled"}

\* The single definition of what may happen to a task.  Nothing leads into
\* "assigned": only a restored archive carries it.
taskTransitions ==
    [from \in TaskStatuses |->
        CASE from \in {"pending", "assigned"} -> {"running", "blocked", "cancelled"}
          [] from = "running" -> {"waiting_review", "completed", "blocked",
                                  "failed", "cancelled"}
          [] from = "blocked" -> {"pending", "failed", "cancelled"}
          [] from = "waiting_review" -> {"completed", "blocked", "failed", "cancelled"}
          [] OTHER -> {}]

terminalTaskStatuses == {"completed", "failed", "cancelled"}

isTaskTransitionAllowed(from, to) == to \in taskTransitions[from]

\* A completion may be entered as history only where the lifecycle itself
\* cannot reach "completed" and nothing terminal would be rewritten.
isHistoricalCompletionApplicable(from) ==
    /\ from \notin terminalTaskStatuses
    /\ ~isTaskTransitionAllowed(from, "completed")

\* run-eligibility: the statuses under which agents may work on a task.
isTaskRunnable(s) == s \in {"pending", "assigned", "running", "waiting_review"}

\* Faults: work in review counts for completion; work in progress for a start.
satisfying_ReviewCompletes(requirement) == {"completed", "waiting_review"}

\* What a prerequisite must have reached for its dependent to start, and to
\* complete: work submitted for review is a usable base to start from, but an
\* open review can still be rejected.
satisfying(requirement) ==
    IF requirement = "start" THEN {"completed", "waiting_review"} ELSE {"completed"}

-----------------------------------------------------------------------------
(* The lifecycles of governance records. *)

governanceTransitions ==
    [milestone |-> [planned |-> {"active", "cancelled"}, active |-> {"completed", "cancelled"},
                    completed |-> {"archived"}, cancelled |-> {}, archived |-> {}],
     requirement |-> [proposed |-> {"accepted", "rejected"}, accepted |-> {"implemented", "rejected"},
                      implemented |-> {"verified"}, verified |-> {}, rejected |-> {}],
     adr |-> [proposed |-> {"accepted", "rejected"}, accepted |-> {"deprecated", "superseded"},
              rejected |-> {}, deprecated |-> {}, superseded |-> {}]]

isGovernanceTransitionAllowed(kind, from, to) == to \in governanceTransitions[kind][from]

isRequirementEditable(s) == s = "proposed"
=============================================================================
