------------------------------- MODULE MCWork -------------------------------
(***************************************************************************)
(* The work a project keeps track of: the task board, its reconciliation,  *)
(* the governance records and the graph view, each on an instance of its   *)
(* own.  A behaviour is about one of them, its focus, and the others keep  *)
(* their initial state.                                                    *)
(***************************************************************************)
EXTENDS TaskBoard, TaskReconciliation, Governance, TaskGraphView

\* t3 waits for t2, which has pipelines, and both wait for t1.
ReconcileOrder == <<"t3", "t2", "t1">>
ReconcileEdges == {<<"t2", "t1">>, <<"t3", "t1">>, <<"t3", "t2">>}

RecordKinds ==
    [x \in Records |-> CASE x \in {"m1", "m2"} -> "milestone" [] x = "r1" -> "requirement" [] OTHER -> "adr"]

\* A diamond under way, a fork behind a review and a cancelled task.
Priorities == [t \in GraphTasks |-> IF t = 3 THEN 2 ELSE 1]
Boards ==
    {[recorded |-> <<"pending", "running", "pending", "completed">>,
      edges |-> {<<2, 4>>, <<3, 4>>, <<1, 2>>, <<1, 3>>}],
     [recorded |-> <<"pending", "cancelled", "waiting_review", "pending">>, edges |-> {<<1, 2>>, <<1, 3>>, <<4, 3>>}]}

VARIABLE focus

WorkVars == <<vars, reconcileVars, governanceVars, graphVars, focus>>

WorkInit ==
    /\ focus \in {"board", "reconcile", "governance", "graph"}
    /\ Init /\ ReconcileInit /\ GovernanceInit
    /\ GraphInit /\ (focus = "graph" \/ board = CHOOSE b \in Boards : TRUE)

WorkNext ==
    \/ focus = "board" /\ Next /\ UNCHANGED <<reconcileVars, governanceVars, graphVars, focus>>
    \/ focus = "reconcile" /\ ReconcileNext /\ UNCHANGED <<vars, governanceVars, graphVars, focus>>
    \/ focus = "governance" /\ GovernanceNext /\ UNCHANGED <<vars, reconcileVars, graphVars, focus>>
    \/ focus = "graph" /\ GraphNext /\ UNCHANGED <<vars, reconcileVars, governanceVars, focus>>

WorkSpec == WorkInit /\ [][WorkNext]_WorkVars

\* Reconciliation: what inspection derives from any board can be carried out as
\* reported (ReconcileTasks.inspect).
ReconciliationHolds == focus = "reconcile" => ReconcileSafety

\* Governance: events replay, identifiers never collide, one decision per
\* review (SqliteGovernanceRepository).
GovernanceHolds == focus = "governance" => GovernanceSafety

\* The graph view: what is drawn, announced, isolated and paged is true of the
\* graph on screen (task-graph.tsx, task-graph-view.ts).
GraphHolds == focus = "graph" => GraphSafety

\* What no step may do to plans, baselines and announcements: apply a repair
\* nobody was shown, strand a dependent, change a requirement's baseline or
\* milestone, or unblock other tasks than the graph announced.
GovernedSteps ==
    [][/\ focus = "reconcile" => RepairsWereShown /\ NeverStranded
       /\ focus = "governance" => BaselineFrozen /\ MilestoneAssignedOnce
       /\ focus = "graph" => CompletionUnblocksExactly]_WorkVars
=============================================================================
