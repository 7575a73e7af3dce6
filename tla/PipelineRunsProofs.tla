------------------------ MODULE PipelineRunsProofs ------------------------
(***************************************************************************)
(* PipelineRuns for every set of tasks, pipelines, stages, agents and      *)
(* workers.                                                                *)
(*                                                                         *)
(* PipelineSafety is not inductive.  That a second start cannot overwrite  *)
(* a finished task rests on what pipeline:start read being still true when *)
(* it commits (StartFresh): commands are queued, and without an active     *)
(* pipeline no tick moves the task.  That a completed stage had a run of   *)
(* its agent rests on what bridges, sweeps and replays carry (HostKnows)   *)
(* and on runs being bound to assigned stages only (BoundRuns).            *)
(***************************************************************************)
EXTENDS PipelineRuns, TLAPS

\* An agent run was bound to the stage.
HadRun(p, s) == open[p][s] # "none" \/ <<p, s>> \in done \cup stopped

\* What a pipeline:start past its reads knows is still so.
StartFresh ==
    starting # NoStart =>
        /\ pstatus[starting.p] = "absent"
        /\ activePipelines(TaskOf[starting.p]) = {}
        /\ taskStatus[TaskOf[starting.p]] = starting.from

\* A stage is completed on behalf of a run that completed, and the agent of an
\* orchestration is a real one.
HostKnows ==
    /\ bridge \subseteq done
    /\ \A w \in Sweepers : todo[w] \subseteq done
    /\ \A w \in Workers :
        /\ job[w].at \in {"assign", "schedule", "commit"} => job[w].a \in Agents
        /\ job[w].at = "complete" => <<job[w].p, job[w].s>> \in done

\* Runs are bound to assigned stages only, and a stage awaits approval after one.
BoundRuns ==
    \A p \in Pipelines, s \in Stages :
        /\ HadRun(p, s) => agent[p][s] # NoAgent
        /\ stage[p][s] = "awaiting_approval" => HadRun(p, s)

\* A pipeline that has not ended awaits its current stage's decision, and one that
\* has not begun is at its first stage.
Undecided ==
    \A p \in Pipelines :
        /\ pstatus[p] \in {"absent", "active"} => decided[p][cur[p]] = "none"
        /\ pstatus[p] = "absent" => cur[p] = 1

\* What depends on the rows alone.
RowsInv ==
    /\ StagesInOrder /\ StageEvidence /\ SeparationOfDuties
    /\ TaskFollowsPipeline /\ OnePipelinePerTask /\ BoundRuns /\ Undecided

\* The inductive invariant.
IInv == TypeOK /\ RowsInv /\ StartFresh /\ HostKnows

-----------------------------------------------------------------------------
\* The lifecycle table stays among its statuses, leaves no terminal status and
\* leads into "running" from the beginning only.
LEMMA LifecycleTable ==
    ASSUME NEW from \in TaskStatuses
    PROVE  /\ taskTransitions[from] \subseteq TaskStatuses
           /\ from \in terminalTaskStatuses => taskTransitions[from] = {}
           /\ "running" \in taskTransitions[from] => from \notin terminalTaskStatuses
  BY DEF taskTransitions, TaskStatuses, terminalTaskStatuses

\* A pair of a set of pairs.
LEMMA PairOf ==
    ASSUME NEW S, NEW T, NEW U, U \subseteq S \X T, NEW c \in U
    PROVE  c[1] \in S /\ c[2] \in T /\ <<c[1], c[2]>> = c
  OBVIOUS

\* The types of the rows a stage's end changes.
BoardTypes ==
    /\ taskStatus \in [Tasks -> TaskStatuses]
    /\ pstatus \in [Pipelines -> {"absent", "active", "completed", "cancelled"}]
    /\ cur \in [Pipelines -> Stages]
    /\ stage \in [Pipelines -> [Stages -> StageStatuses]]
    /\ decided \in [Pipelines -> [Stages -> {"none", "approved", "rejected", "overridden"}]]

\* Nothing a pipeline:start relies on changes: a task moves only if it has an
\* active pipeline, and no pipeline begins.
KeepsStarts ==
    /\ \A q \in Pipelines : /\ pstatus[q] = "absent" => pstatus'[q] = "absent"
                            /\ pstatus'[q] = "active" => pstatus[q] = "active"
    /\ \A t \in Tasks : taskStatus'[t] = taskStatus[t] \/ activePipelines(t) # {}

\* The end of the current stage, by the decision d or on a run's behalf.
LEMMA FinishRows ==
    ASSUME TypeOK, RowsInv, NEW p \in Pipelines,
           pstatus[p] = "active", finishable(p), finishCurrent(p),
           NEW d \in {"none", "approved", "overridden"},
           decided' = [decided EXCEPT ![p][cur[p]] = d],
           \/ d = "overridden"
           \/ HadRun(p, cur[p]) /\ (cur[p] \in RequiresApproval => d = "approved"),
           UNCHANGED <<agent, open, done, stopped>>
    PROVE  BoardTypes' /\ RowsInv' /\ KeepsStarts
  <1> USE DEF RowsInv
  <1>0. /\ NumStages \in Nat \ {0} /\ TaskOf \in [Pipelines -> Tasks] /\ TaskOf[p] \in Tasks
        /\ Stages = 1 .. NumStages /\ cur[p] \in Stages
        /\ taskStatus \in [Tasks -> TaskStatuses]
        /\ pstatus \in [Pipelines -> {"absent", "active", "completed", "cancelled"}]
        /\ cur \in [Pipelines -> Stages]
        /\ stage \in [Pipelines -> [Stages -> StageStatuses]]
        /\ decided \in [Pipelines -> [Stages -> {"none", "approved", "rejected", "overridden"}]]
    BY PipelineAssumption DEF TypeOK, Stages
  <1>d. /\ decided' \in [Pipelines -> [Stages -> {"none", "approved", "rejected", "overridden"}]]
        /\ decided'[p][cur[p]] = d
        /\ \A q \in Pipelines, s \in Stages :
              q # p \/ s # cur[p] => decided'[q][s] = decided[q][s]
    BY <1>0
  <1>1. CASE cur[p] < NumStages
    <2>1. /\ cur' = [cur EXCEPT ![p] = cur[p] + 1]
          /\ stage' = [stage EXCEPT ![p][cur[p]] = "completed", ![p][cur[p] + 1] = "active"]
          /\ UNCHANGED <<pstatus, taskStatus>>
      BY <1>1 DEF finishCurrent
    <2> DEFINE st == [stage EXCEPT ![p][cur[p]] = "completed"]
    <2>a. cur[p] + 1 \in Stages /\ cur'[p] = cur[p] + 1
      BY <1>0, <1>1, <2>1
    <2>b. /\ st \in [Pipelines -> [Stages -> StageStatuses]]
          /\ st[p][cur[p]] = "completed"
          /\ \A q \in Pipelines, s \in Stages :
                q # p \/ s # cur[p] => st[q][s] = stage[q][s]
      BY <1>0 DEF StageStatuses
    <2>c. stage' = [st EXCEPT ![p][cur[p] + 1] = "active"]
      BY <2>1
    <2> HIDE DEF st
    <2>2. /\ stage' \in [Pipelines -> [Stages -> StageStatuses]]
          /\ stage'[p][cur[p] + 1] = "active"
          /\ stage'[p][cur[p]] = "completed"
          /\ \A q \in Pipelines, s \in Stages :
                q # p \/ s \notin {cur[p], cur[p] + 1} => stage'[q][s] = stage[q][s]
      <3>1. \A q \in Pipelines, s \in Stages :
                q # p \/ s # cur[p] + 1 => stage'[q][s] = st[q][s]
        BY <1>0, <2>a, <2>b, <2>c
      <3>2. stage' \in [Pipelines -> [Stages -> StageStatuses]] /\ stage'[p][cur[p] + 1] = "active"
        BY <1>0, <2>a, <2>b, <2>c DEF StageStatuses
      <3>3. cur[p] # cur[p] + 1
        BY <1>0
      <3>4. stage'[p][cur[p]] = "completed"
        BY <1>0, <2>b, <3>1, <3>3
      <3>5. ASSUME NEW q \in Pipelines, NEW s \in Stages, q # p \/ s \notin {cur[p], cur[p] + 1}
            PROVE  stage'[q][s] = stage[q][s]
        BY <2>b, <3>1, <3>5
      <3> QED BY <3>2, <3>4, <3>5
    <2>3. BoardTypes'
      BY <1>0, <1>d, <2>1, <2>2, <2>a DEF BoardTypes
    <2>4. ASSUME NEW q \in Pipelines, NEW s \in Stages PROVE StageInOrder(q, s)'
      <3>1. StageInOrder(q, s) /\ StageInOrder(q, cur[p])
        BY <1>0 DEF StagesInOrder
      <3>2. CASE q # p
        BY <1>0, <1>d, <2>1, <2>2, <2>a, <3>1, <3>2 DEF StageInOrder
      <3>3. CASE q = p
        BY <1>0, <1>1, <1>d, <2>1, <2>2, <2>a, <3>1, <3>3 DEF StageInOrder
      <3> QED BY <3>2, <3>3
    <2>5. ASSUME NEW q \in Pipelines, NEW s \in Stages PROVE Evidenced(q, s)'
      <3>1. Evidenced(q, s) /\ (HadRun(q, s) => agent[q][s] # NoAgent)
        BY DEF StageEvidence, BoundRuns
      <3>2. CASE q = p /\ s = cur[p]
        BY <1>d, <2>2, <3>1, <3>2 DEF Evidenced, HadRun
      <3>3. CASE q # p \/ s # cur[p]
        BY <1>d, <2>2, <3>1, <3>3 DEF Evidenced
      <3> QED BY <3>2, <3>3
    <2>6. SeparationOfDuties' /\ TaskFollowsPipeline' /\ OnePipelinePerTask'
      BY <2>1 DEF SeparationOfDuties, TaskFollowsPipeline, OnePipelinePerTask
    <2>7. ASSUME NEW q \in Pipelines, NEW s \in Stages
          PROVE  /\ HadRun(q, s)' => agent'[q][s] # NoAgent
                 /\ stage'[q][s] = "awaiting_approval" => HadRun(q, s)'
      BY <2>2 DEF BoundRuns, HadRun
    <2>8. ASSUME NEW q \in Pipelines
          PROVE  /\ pstatus'[q] \in {"absent", "active"} => decided'[q][cur'[q]] = "none"
                 /\ pstatus'[q] = "absent" => cur'[q] = 1
      <3>1. CASE q = p
        <4>1. StageInOrder(p, cur[p] + 1) /\ cur[p] + 1 > cur[p]
          BY <1>0, <2>a DEF StagesInOrder
        <4> QED BY <1>0, <1>d, <2>1, <2>a, <3>1, <4>1 DEF StageInOrder
      <3>2. CASE q # p
        BY <1>0, <1>d, <2>1, <3>2 DEF Undecided
      <3> QED BY <3>1, <3>2
    <2>9. KeepsStarts
      BY <2>1 DEF KeepsStarts
    <2> QED
      BY <2>3, <2>4, <2>5, <2>6, <2>7, <2>8, <2>9
      DEF StagesInOrder, StageEvidence, BoundRuns, Undecided
  <1>2. CASE ~(cur[p] < NumStages)
    <2>1. /\ pstatus' = [pstatus EXCEPT ![p] = "completed"]
          /\ stage' = [stage EXCEPT ![p][cur[p]] = "completed"]
          /\ taskStatus' = [taskStatus EXCEPT ![TaskOf[p]] = "completed"]
          /\ UNCHANGED cur
      BY <1>2 DEF finishCurrent
    <2>2. cur[p] = NumStages
      BY <1>0, <1>2
    <2>a. /\ stage' \in [Pipelines -> [Stages -> StageStatuses]]
          /\ stage'[p][cur[p]] = "completed"
          /\ \A q \in Pipelines, s \in Stages :
                q # p \/ s # cur[p] => stage'[q][s] = stage[q][s]
      BY <1>0, <2>1 DEF StageStatuses
    <2>3. BoardTypes'
      BY <1>0, <1>d, <2>1, <2>a DEF BoardTypes, TaskStatuses
    <2>4. ASSUME NEW q \in Pipelines, NEW s \in Stages PROVE StageInOrder(q, s)'
      <3>1. StageInOrder(q, s)
        BY DEF StagesInOrder
      <3>2. CASE q # p
        BY <1>0, <1>d, <2>1, <2>a, <3>1, <3>2 DEF StageInOrder
      <3>3. CASE q = p
        BY <1>0, <1>d, <2>1, <2>2, <2>a, <3>1, <3>3 DEF StageInOrder
      <3> QED BY <3>2, <3>3
    <2>5. ASSUME NEW q \in Pipelines, NEW s \in Stages PROVE Evidenced(q, s)'
      <3>1. Evidenced(q, s) /\ (HadRun(q, s) => agent[q][s] # NoAgent)
        BY DEF StageEvidence, BoundRuns
      <3>2. CASE q = p /\ s = cur[p]
        BY <1>d, <2>a, <3>1, <3>2 DEF Evidenced, HadRun
      <3>3. CASE q # p \/ s # cur[p]
        BY <1>d, <2>a, <3>1, <3>3 DEF Evidenced
      <3> QED BY <3>2, <3>3
    <2>6. SeparationOfDuties'
      BY DEF SeparationOfDuties
    <2>7. TaskFollowsPipeline'
      BY <1>0, <2>1 DEF TaskFollowsPipeline, OnePipelinePerTask
    <2>8. OnePipelinePerTask'
      BY <1>0, <2>1 DEF OnePipelinePerTask
    <2>9. ASSUME NEW q \in Pipelines, NEW s \in Stages
          PROVE  /\ HadRun(q, s)' => agent'[q][s] # NoAgent
                 /\ stage'[q][s] = "awaiting_approval" => HadRun(q, s)'
      BY <2>a DEF BoundRuns, HadRun
    <2>10. Undecided'
      BY <1>0, <1>d, <2>1 DEF Undecided
    <2>11. KeepsStarts
      BY <1>0, <2>1 DEF KeepsStarts, activePipelines
    <2> QED
      BY <2>3, <2>4, <2>5, <2>6, <2>7, <2>8, <2>9, <2>10, <2>11
      DEF StagesInOrder, StageEvidence, BoundRuns
  <1> QED BY <1>1, <1>2

\* The completion of a stage on behalf of a run bound to it.
LEMMA CompleteRows ==
    ASSUME TypeOK, RowsInv, NEW p \in Pipelines, NEW s \in Stages, HadRun(p, s),
           completeStageFromAgentRun(p, s)
    PROVE  BoardTypes' /\ RowsInv' /\ KeepsStarts
  <1> USE PipelineAssumption DEF RowsInv
  <1>0. cur[p] \in Stages /\ stage[p] \in [Stages -> StageStatuses]
    BY DEF TypeOK
  <1>1. CASE ~completable(p, s)
    <2>1. UNCHANGED <<taskStatus, pstatus, cur, stage, decided, agent, open, done, stopped>>
      BY <1>1 DEF completeStageFromAgentRun, board
    <2> QED
      BY <2>1 DEF TypeOK, BoardTypes, StagesInOrder, StageInOrder, StageEvidence, Evidenced,
          SeparationOfDuties, TaskFollowsPipeline, OnePipelinePerTask, BoundRuns, HadRun, Undecided, KeepsStarts
  <1>2. CASE completable(p, s)
    <2>1. /\ cur[p] = s /\ pstatus[p] = "active" /\ stage[p][s] = "active"
          /\ s \in RequiresApproval \/ finishable(p)
          /\ completeStage(p) /\ UNCHANGED <<decided, agent, open, done, stopped>>
      BY <1>2 DEF completeStageFromAgentRun, completeStage, completable, mayComplete, current
    <2>2. CASE s \in RequiresApproval
      <3>1. /\ stage' = [stage EXCEPT ![p][s] = "awaiting_approval"]
            /\ UNCHANGED <<taskStatus, pstatus, cur>>
        BY <2>1, <2>2 DEF completeStage
      <3>2. BoardTypes'
        BY <2>1, <3>1 DEF TypeOK, BoardTypes, StageStatuses
      <3>a. /\ stage'[p][s] = "awaiting_approval"
            /\ \A q \in Pipelines, e \in Stages :
                  q # p \/ e # s => stage'[q][e] = stage[q][e]
        BY <3>1 DEF TypeOK
      <3>3. ASSUME NEW q \in Pipelines, NEW e \in Stages
            PROVE  StageInOrder(q, e)' /\ Evidenced(q, e)'
        <4>1. StageInOrder(q, e) /\ Evidenced(q, e)
          BY DEF StagesInOrder, StageEvidence
        <4>2. e \in Nat /\ cur[q] \in Nat
          BY DEF TypeOK, Stages
        <4>3. CASE q = p
          BY <2>1, <3>1, <3>a, <4>1, <4>2, <4>3 DEF StageInOrder, Evidenced
        <4>4. CASE q # p
          <5>1. stage'[q][e] = stage[q][e] /\ stage'[q][cur[q]] = stage[q][cur[q]]
            BY <3>a, <4>4 DEF TypeOK
          <5> QED BY <2>1, <3>1, <4>1, <5>1 DEF StageInOrder, Evidenced
        <4> QED BY <4>3, <4>4
      <3>4. ASSUME NEW q \in Pipelines, NEW e \in Stages
            PROVE  /\ HadRun(q, e)' => agent'[q][e] # NoAgent
                   /\ stage'[q][e] = "awaiting_approval" => HadRun(q, e)'
        BY <2>1, <3>a DEF BoundRuns, HadRun
      <3> QED
        BY <2>1, <3>1, <3>2, <3>3, <3>4 DEF StagesInOrder, StageEvidence, BoundRuns,
            SeparationOfDuties, TaskFollowsPipeline, OnePipelinePerTask, Undecided, KeepsStarts
    <2>3. CASE s \notin RequiresApproval
      <3>1. finishCurrent(p) /\ finishable(p)
        BY <2>1, <2>3 DEF completeStage
      <3>2. decided' = [decided EXCEPT ![p][cur[p]] = "none"]
        BY <1>0, <2>1 DEF TypeOK, Undecided
      <3> QED BY FinishRows, <2>1, <2>3, <3>1, <3>2
    <2> QED BY <2>2, <2>3
  <1> QED BY <1>1, <1>2

\* The cancellation of a pipeline with its open stages and its task.
LEMMA CancelRows ==
    ASSUME TypeOK, RowsInv, NEW p \in Pipelines, NEW statuses \in SUBSET StageStatuses,
           pstatus[p] = "active", cancelStages(p, statuses), "completed" \notin statuses,
           \/ UNCHANGED decided
           \/ decided' = [decided EXCEPT ![p][cur[p]] = "rejected"] /\ stage'[p][cur[p]] = "cancelled",
           UNCHANGED <<agent, open, done, stopped>>
    PROVE  BoardTypes' /\ RowsInv' /\ KeepsStarts
  <1> USE PipelineAssumption DEF RowsInv
  <1>0. cur[p] \in Stages /\ TaskOf[p] \in Tasks /\ stage[p] \in [Stages -> StageStatuses]
    BY DEF TypeOK
  <1>1. /\ stage' = [stage EXCEPT ![p] =
                [s \in Stages |-> IF stage[p][s] \in statuses THEN "cancelled" ELSE stage[p][s]]]
        /\ pstatus' = [pstatus EXCEPT ![p] = "cancelled"]
        /\ taskStatus' = [taskStatus EXCEPT ![TaskOf[p]] = "cancelled"]
        /\ UNCHANGED cur
    BY DEF cancelStages, TypeOK
  <1>2. /\ \A q \in Pipelines, s \in Stages :
            /\ stage'[q][s] \in {stage[q][s], "cancelled"}
            /\ stage[q][s] = "completed" => stage'[q][s] = "completed"
            /\ q # p => stage'[q][s] = stage[q][s]
        /\ stage' \in [Pipelines -> [Stages -> StageStatuses]]
    <2> DEFINE row == [s \in Stages |->
                IF stage[p][s] \in statuses THEN "cancelled" ELSE stage[p][s]]
    <2>1. row \in [Stages -> StageStatuses]
      BY <1>0 DEF StageStatuses
    <2> QED BY <1>0, <1>1, <2>1 DEF TypeOK
  <1>3. BoardTypes'
    <2> DEFINE D == {"none", "approved", "rejected", "overridden"}
    <2>1. decided' \in [Pipelines -> [Stages -> D]]
      <3>1. decided \in [Pipelines -> [Stages -> D]] /\ "rejected" \in D
        BY DEF TypeOK
      <3> HIDE DEF D
      <3>2. CASE UNCHANGED decided
        BY <3>1, <3>2
      <3>3. CASE decided' = [decided EXCEPT ![p][cur[p]] = "rejected"]
        BY <1>0, <3>1, <3>3
      <3> QED BY <3>2, <3>3
    <2>2. taskStatus' \in [Tasks -> TaskStatuses]
      BY <1>1 DEF TypeOK, TaskStatuses
    <2> QED BY <1>1, <1>2, <2>1, <2>2 DEF TypeOK, BoardTypes
  <1>a. /\ \A q \in Pipelines, s \in Stages :
              q # p \/ s # cur[p] => decided'[q][s] = decided[q][s]
        /\ \A q \in Pipelines : pstatus'[q] = IF q = p THEN "cancelled" ELSE pstatus[q]
    BY <1>0, <1>1 DEF TypeOK
  <1>4. ASSUME NEW q \in Pipelines, NEW s \in Stages PROVE StageInOrder(q, s)'
    <2>1. StageInOrder(q, s)
      BY DEF StagesInOrder
    <2>2. s \in Nat /\ cur[q] \in Stages /\ cur[q] \in Nat
      BY DEF TypeOK, Stages
    <2> QED BY <1>1, <1>2, <1>a, <2>1, <2>2 DEF StageInOrder
  <1>5. ASSUME NEW q \in Pipelines, NEW s \in Stages PROVE Evidenced(q, s)'
    <2>1. Evidenced(q, s)
      BY DEF StageEvidence
    <2> QED BY <1>2, <1>a, <2>1 DEF Evidenced
  <1>6. SeparationOfDuties' /\ OnePipelinePerTask'
    BY <1>1 DEF TypeOK, SeparationOfDuties, OnePipelinePerTask
  <1>7. TaskFollowsPipeline'
    BY <1>0, <1>1 DEF TypeOK, TaskFollowsPipeline, OnePipelinePerTask
  <1>8. ASSUME NEW q \in Pipelines, NEW s \in Stages
        PROVE  /\ HadRun(q, s)' => agent'[q][s] # NoAgent
               /\ stage'[q][s] = "awaiting_approval" => HadRun(q, s)'
    BY <1>2 DEF BoundRuns, HadRun
  <1>9. Undecided'
    BY <1>0, <1>1 DEF TypeOK, Undecided
  <1>10. KeepsStarts
    BY <1>0, <1>1 DEF TypeOK, KeepsStarts, activePipelines
  <1> QED
    BY <1>3, <1>4, <1>5, <1>6, <1>7, <1>8, <1>9, <1>10
    DEF StagesInOrder, StageEvidence, BoundRuns

\* A pipeline:start under way stays fresh.
LEMMA StartKept ==
    ASSUME TypeOK, StartFresh, KeepsStarts, UNCHANGED starting PROVE StartFresh'
  BY PipelineAssumption DEF TypeOK, StartFresh, KeepsStarts, activePipelines

\* A step that leaves the rows alone leaves what depends on them.
LEMMA RowsKept ==
    ASSUME RowsInv,
           UNCHANGED <<taskStatus, pstatus, cur, stage, decided, agent, open, done, stopped>>
    PROVE  RowsInv' /\ KeepsStarts
  BY DEF RowsInv, StagesInOrder, StageInOrder, StageEvidence, Evidenced, SeparationOfDuties,
      TaskFollowsPipeline, OnePipelinePerTask, BoundRuns, HadRun, Undecided, KeepsStarts

\* A current stage without an agent gets one (PipelineRun.assign).
LEMMA AssignRows ==
    ASSUME TypeOK, RowsInv, NEW p \in Pipelines, NEW a \in Agents, assignable(p, a),
           agent' = [agent EXCEPT ![p][cur[p]] = a],
           UNCHANGED <<taskStatus, pstatus, cur, stage, decided, open, done, stopped>>
    PROVE  /\ agent' \in [Pipelines -> [Stages -> Agents \cup {NoAgent}]]
           /\ RowsInv' /\ KeepsStarts
  <1> USE DEF RowsInv
  <1>0. /\ cur[p] \in Stages /\ a # NoAgent
        /\ agent \in [Pipelines -> [Stages -> Agents \cup {NoAgent}]]
        /\ \A s \in Stages : s \in Nat
        /\ agent[p][cur[p]] = NoAgent
        /\ \A e \in Separated[cur[p]] : agent[p][e] # a
    BY PipelineAssumption DEF TypeOK, assignable, unassigned, separatedFrom, Stages
  <1>1. agent' \in [Pipelines -> [Stages -> Agents \cup {NoAgent}]]
    BY <1>0
  <1>2. /\ agent'[p][cur[p]] = a
        /\ \A q \in Pipelines, s \in Stages :
              q # p \/ s # cur[p] => agent'[q][s] = agent[q][s]
    BY <1>0
  <1>3. ASSUME NEW q \in Pipelines, NEW s \in Stages
        PROVE  StageInOrder(q, s)' /\ Evidenced(q, s)'
    <2>1. StageInOrder(q, s) /\ Evidenced(q, s) /\ cur[q] \in Nat
      BY <1>0 DEF StagesInOrder, StageEvidence, TypeOK
    <2> QED BY <1>0, <1>2, <2>1 DEF StageInOrder, Evidenced
  <1>4. ASSUME NEW q \in Pipelines, NEW s \in Stages, NEW e \in Separated[s],
               agent'[q][s] # NoAgent
        PROVE  agent'[q][e] # agent'[q][s]
    <2>1. e \in Stages /\ e < s
      BY PipelineAssumption
    <2>2. CASE q # p
      BY <1>2, <1>4, <2>1, <2>2 DEF SeparationOfDuties
    <2>3. CASE q = p /\ s = cur[p]
      BY <1>0, <1>2, <2>1, <2>3
    <2>4. CASE q = p /\ s # cur[p]
      <3>1. StageInOrder(p, s) /\ cur[p] \in Nat /\ s \in Nat
        BY <1>0 DEF StagesInOrder
      <3>2. agent[p][s] # NoAgent /\ ~(s > cur[p])
        BY <1>2, <1>4, <2>4, <3>1 DEF StageInOrder
      <3>3. e # cur[p]
        BY <1>0, <2>1, <2>4, <3>1, <3>2
      <3> QED BY <1>2, <2>1, <2>4, <3>2, <3>3 DEF SeparationOfDuties
    <2> QED BY <2>2, <2>3, <2>4
  <1>5. ASSUME NEW q \in Pipelines, NEW s \in Stages
        PROVE  /\ HadRun(q, s)' => agent'[q][s] # NoAgent
               /\ stage'[q][s] = "awaiting_approval" => HadRun(q, s)'
    BY <1>0, <1>2 DEF BoundRuns, HadRun
  <1>6. TaskFollowsPipeline' /\ OnePipelinePerTask' /\ Undecided' /\ KeepsStarts
    BY DEF TaskFollowsPipeline, OnePipelinePerTask, Undecided, KeepsStarts
  <1> QED
    BY <1>1, <1>3, <1>4, <1>5, <1>6
    DEF StagesInOrder, StageEvidence, SeparationOfDuties, BoundRuns

\* A run that ends, begins or is admitted leaves its trace on its own stage; the
\* stage of a new run is current and has an agent.
LEMMA RunRows ==
    ASSUME TypeOK, RowsInv, NEW p \in Pipelines, NEW s \in Stages,
           UNCHANGED <<taskStatus, pstatus, cur, stage, decided, agent>>,
           \A q \in Pipelines, e \in Stages : q # p \/ e # s =>
                /\ open'[q][e] = open[q][e]
                /\ <<q, e>> \in done' \cup stopped' <=> <<q, e>> \in done \cup stopped,
           open'[p][s] # "none" \/ <<p, s>> \in done' \cup stopped',
           HadRun(p, s) \/ (agent[p][s] # NoAgent /\ s = cur[p])
    PROVE  RowsInv' /\ KeepsStarts
  <1> USE DEF RowsInv
  <1>1. ASSUME NEW q \in Pipelines, NEW e \in Stages
        PROVE  StageInOrder(q, e)' /\ Evidenced(q, e)'
    <2>a. \A x \in Stages : x \in Nat
      BY PipelineAssumption DEF Stages
    <2>1. /\ StageInOrder(q, e) /\ Evidenced(q, e)
          /\ e \in Nat /\ cur[q] \in Nat
      BY <2>a DEF StagesInOrder, StageEvidence, TypeOK
    <2>2. CASE q = p /\ e = s
      BY <2>1, <2>2 DEF StageInOrder, Evidenced, HadRun
    <2>3. CASE q # p \/ e # s
      BY <2>1, <2>3 DEF StageInOrder, Evidenced
    <2> QED BY <2>2, <2>3
  <1>2. ASSUME NEW q \in Pipelines, NEW e \in Stages
        PROVE  /\ HadRun(q, e)' => agent'[q][e] # NoAgent
               /\ stage'[q][e] = "awaiting_approval" => HadRun(q, e)'
    BY DEF BoundRuns, HadRun
  <1>3. /\ SeparationOfDuties' /\ TaskFollowsPipeline' /\ OnePipelinePerTask' /\ Undecided'
        /\ KeepsStarts
    BY DEF SeparationOfDuties, TaskFollowsPipeline, OnePipelinePerTask, Undecided, KeepsStarts
  <1> QED BY <1>1, <1>2, <1>3 DEF StagesInOrder, StageEvidence, BoundRuns

\* One step of the operator, the host or the queue at a time.
LEMMA InvariantStep == ASSUME IInv, [Next]_vars PROVE IInv'
  <1> USE DEF IInv
  <1> DEFINE Job == [at : {"idle", "assign", "schedule", "commit", "complete"},
                     p : Pipelines, s : Stages, a : Agents \cup {NoAgent}]
  <1>a. IdleJob \in Job /\ IdleJob.at = "idle"
    BY PipelineAssumption DEF IdleJob, Pipelines, Stages
  <1>b. \A p \in Pipelines : TaskOf[p] \in Tasks /\ cur[p] \in Stages
    BY PipelineAssumption DEF TypeOK
  <1>c. \A w \in Workers : job[w] \in Job
    BY DEF TypeOK
  <1> HIDE DEF Job
  <1>1. ASSUME NEW p \in Pipelines, startRead(p) PROVE IInv'
    <2>1. UNCHANGED <<taskStatus, pstatus, cur, stage, decided, agent, open, done, stopped,
                      loose, due, bridge, job, todo, crashes>>
      BY <1>1 DEF startRead, board, runs
    <2>2. starting' = [p |-> p, from |-> taskStatus[TaskOf[p]]]
      BY <1>1 DEF startRead
    <2>3. RowsInv'
      BY <2>1, RowsKept
    <2>4. starting' \in [p : Pipelines, from : TaskStatuses]
      BY <1>b, <2>2 DEF TypeOK
    <2>5. TypeOK'
      BY <2>1, <2>4 DEF TypeOK
    <2>6. StartFresh'
      BY <1>1, <2>1, <2>2 DEF startRead, StartFresh, activePipelines
    <2>7. HostKnows'
      BY <2>1 DEF HostKnows
    <2> QED BY <2>3, <2>5, <2>6, <2>7
  <1>2. ASSUME startCommit PROVE IInv'
    <2> DEFINE p == starting.p
    <2>1. /\ p \in Pipelines /\ starting.from \in TaskStatuses /\ starting' = NoStart
          /\ pstatus[p] = "absent" /\ activePipelines(TaskOf[p]) = {}
          /\ taskStatus[TaskOf[p]] = starting.from
          /\ UNCHANGED <<cur, agent, decided, open, done, stopped, loose, due, bridge, job, todo,
                         crashes>>
      BY <1>2 DEF startCommit, TypeOK, StartFresh, runs
    <2>2. StartFresh' /\ HostKnows'
      BY <2>1 DEF StartFresh, HostKnows
    <2>3. CASE UNCHANGED <<taskStatus, pstatus, stage>>
      <3>1. TypeOK'
        BY <2>1, <2>3 DEF TypeOK
      <3> QED BY <2>1, <2>2, <2>3, <3>1, RowsKept
    <2>4. CASE /\ startable(p, starting.from)
               /\ taskStatus' = [taskStatus EXCEPT ![TaskOf[p]] = "running"]
               /\ pstatus' = [pstatus EXCEPT ![p] = "active"]
               /\ stage' = [stage EXCEPT ![p][1] = "active"]
      <3> USE DEF RowsInv
      <3>0. /\ TaskOf[p] \in Tasks /\ cur[p] = 1 /\ 1 \in Stages /\ decided[p][1] = "none"
            /\ \A s \in Stages : s \in Nat
        BY <1>b, <2>1 DEF Undecided, Stages
      <3>1. starting.from \notin terminalTaskStatuses
        BY <2>1, <2>4, LifecycleTable DEF startable, isTaskTransitionAllowed
      <3>2. ASSUME NEW q \in Pipelines, TaskOf[q] = TaskOf[p] PROVE pstatus[q] = "absent"
        BY <2>1, <3>1, <3>2 DEF activePipelines, TaskFollowsPipeline, terminalTaskStatuses, TypeOK
      <3>3. /\ stage' \in [Pipelines -> [Stages -> StageStatuses]]
            /\ stage'[p][1] = "active"
            /\ \A q \in Pipelines, s \in Stages :
                  q # p \/ s # 1 => stage'[q][s] = stage[q][s]
        BY <2>1, <2>4, <3>0 DEF TypeOK, StageStatuses
      <3>4. TypeOK'
        BY <2>1, <2>4, <3>0, <3>3 DEF TypeOK, TaskStatuses
      <3>5. /\ pstatus'[p] = "active"
            /\ \A q \in Pipelines : q # p => pstatus'[q] = pstatus[q]
            /\ taskStatus'[TaskOf[p]] = "running"
            /\ \A t \in Tasks : t # TaskOf[p] => taskStatus'[t] = taskStatus[t]
        BY <2>1, <2>4, <3>0 DEF TypeOK
      <3>6. ASSUME NEW q \in Pipelines, NEW s \in Stages
            PROVE  StageInOrder(q, s)' /\ Evidenced(q, s)'
        <4>1. StageInOrder(q, s) /\ Evidenced(q, s) /\ cur[q] \in Stages /\ cur[q] \in Nat
          BY <3>0 DEF StagesInOrder, StageEvidence, TypeOK
        <4>2. CASE q = p
          BY <2>1, <3>0, <3>3, <3>5, <4>1, <4>2 DEF StageInOrder, Evidenced
        <4>3. CASE q # p
          BY <2>1, <3>0, <3>3, <3>5, <4>1, <4>3 DEF StageInOrder, Evidenced
        <4> QED BY <4>2, <4>3
      <3>7. SeparationOfDuties'
        BY <2>1 DEF SeparationOfDuties
      <3>8. TaskFollowsPipeline' /\ OnePipelinePerTask'
        BY <1>b, <2>1, <3>2, <3>5 DEF TaskFollowsPipeline, OnePipelinePerTask
      <3>9. ASSUME NEW q \in Pipelines, NEW s \in Stages
            PROVE  /\ HadRun(q, s)' => agent'[q][s] # NoAgent
                   /\ stage'[q][s] = "awaiting_approval" => HadRun(q, s)'
        BY <2>1, <3>3 DEF BoundRuns, HadRun
      <3>10. Undecided'
        BY <2>1, <3>0, <3>5 DEF Undecided
      <3> QED
        BY <2>2, <3>4, <3>6, <3>7, <3>8, <3>9, <3>10
        DEF StagesInOrder, StageEvidence, BoundRuns
    <2> QED BY <1>2, <2>3, <2>4 DEF startCommit
  <1>3. ASSUME NEW p \in Pipelines, NEW a \in Agents, assign(p, a) PROVE IInv'
    <2>1. /\ assignable(p, a) /\ agent' = [agent EXCEPT ![p][cur[p]] = a]
          /\ UNCHANGED <<taskStatus, pstatus, cur, stage, decided, open, done, stopped,
                         loose, starting, due, bridge, job, todo, crashes>>
      BY <1>3 DEF assign, board, runs, host
    <2>2. /\ agent' \in [Pipelines -> [Stages -> Agents \cup {NoAgent}]]
          /\ RowsInv' /\ KeepsStarts
      BY <2>1, AssignRows
    <2>3. TypeOK'
      BY <2>1, <2>2 DEF TypeOK
    <2>4. HostKnows'
      BY <2>1 DEF HostKnows
    <2> QED BY <2>1, <2>2, <2>3, <2>4, StartKept
  <1>4. ASSUME NEW p \in Pipelines, NEW a \in Agents, runSchedule(p, a) PROVE IInv'
    <2>1. /\ job' = [job EXCEPT !["operator"] = [at |-> "schedule", p |-> p, s |-> cur[p], a |-> a]]
          /\ UNCHANGED <<taskStatus, pstatus, cur, stage, decided, agent, open, done, stopped,
                         loose, starting, due, bridge, todo, crashes>>
      BY <1>4 DEF runSchedule, jobAt, board, runs
    <2>2. [at |-> "schedule", p |-> p, s |-> cur[p], a |-> a] \in Job
      BY <1>b DEF Job
    <2>3. TypeOK'
      BY <2>1, <2>2 DEF TypeOK, Job
    <2>4. HostKnows'
      BY <2>1 DEF HostKnows, TypeOK
    <2> QED BY <2>1, <2>3, <2>4, RowsKept, StartKept
  <1>5. ASSUME NEW p \in Pipelines, approveStage(p) PROVE IInv'
    <2>1. /\ pstatus[p] = "active" /\ stage[p][cur[p]] = "awaiting_approval"
          /\ finishable(p) /\ finishCurrent(p)
          /\ decided' = [decided EXCEPT ![p][cur[p]] = "approved"]
          /\ UNCHANGED <<agent, open, done, stopped, loose, starting, due, bridge, job, todo,
                         crashes>>
      BY <1>5 DEF approveStage, current, runs, host
    <2>2. HadRun(p, cur[p])
      BY <1>b, <2>1 DEF RowsInv, BoundRuns
    <2>3. BoardTypes' /\ RowsInv' /\ KeepsStarts
      BY <2>1, <2>2, FinishRows
    <2>4. TypeOK' /\ HostKnows'
      BY <2>1, <2>3 DEF TypeOK, BoardTypes, HostKnows
    <2> QED BY <2>1, <2>3, <2>4, StartKept
  <1>6. ASSUME NEW p \in Pipelines, rejectStage(p) PROVE IInv'
    <2> DEFINE open2 == {"pending", "awaiting_approval"}
    <2>1. /\ pstatus[p] = "active" /\ stage[p][cur[p]] = "awaiting_approval"
          /\ cancelStages(p, open2)
          /\ decided' = [decided EXCEPT ![p][cur[p]] = "rejected"]
          /\ UNCHANGED <<agent, open, done, stopped, loose, starting, due, bridge, job, todo,
                         crashes>>
      BY <1>6 DEF rejectStage, current, runs, host
    <2>2. stage'[p][cur[p]] = "cancelled"
      BY <1>b, <2>1 DEF cancelStages, TypeOK
    <2>3. open2 \in SUBSET StageStatuses /\ "completed" \notin open2
      BY DEF StageStatuses
    <2> HIDE DEF open2
    <2>4. BoardTypes' /\ RowsInv' /\ KeepsStarts
      BY <2>1, <2>2, <2>3, CancelRows
    <2>5. TypeOK' /\ HostKnows'
      BY <2>1, <2>4 DEF TypeOK, BoardTypes, HostKnows
    <2> QED BY <2>1, <2>4, <2>5, StartKept
  <1>7. ASSUME NEW p \in Pipelines, overrideCurrent(p) PROVE IInv'
    <2>1. /\ pstatus[p] = "active" /\ finishable(p) /\ finishCurrent(p)
          /\ decided' = [decided EXCEPT ![p][cur[p]] = "overridden"]
          /\ UNCHANGED <<agent, open, done, stopped, loose, starting, due, bridge, job, todo,
                         crashes>>
      BY <1>7 DEF overrideCurrent, runs, host
    <2>2. BoardTypes' /\ RowsInv' /\ KeepsStarts
      BY <2>1, FinishRows
    <2>3. TypeOK' /\ HostKnows'
      BY <2>1, <2>2 DEF TypeOK, BoardTypes, HostKnows
    <2> QED BY <2>1, <2>2, <2>3, StartKept
  <1>8. ASSUME NEW p \in Pipelines, cancel(p) PROVE IInv'
    <2> DEFINE open3 == {"pending", "active", "awaiting_approval"}
    <2>1. /\ pstatus[p] = "active" /\ cancelStages(p, open3)
          /\ UNCHANGED <<agent, decided, open, done, stopped, loose, starting, due, bridge, job,
                         todo, crashes>>
      BY <1>8 DEF cancel, runs, host
    <2>2. open3 \in SUBSET StageStatuses /\ "completed" \notin open3
      BY DEF StageStatuses
    <2> HIDE DEF open3
    <2>3. BoardTypes' /\ RowsInv' /\ KeepsStarts
      BY <2>1, <2>2, CancelRows
    <2>4. TypeOK' /\ HostKnows'
      BY <2>1, <2>3 DEF TypeOK, BoardTypes, HostKnows
    <2> QED BY <2>1, <2>3, <2>4, StartKept
  <1>9. ASSUME NEW w \in Workers, NEW p \in Pipelines, orchestrate(w, p) PROVE IInv'
    <2>1. UNCHANGED <<taskStatus, pstatus, cur, stage, decided, agent, open, done, stopped,
                      loose, starting, due, bridge, todo, crashes>>
      BY <1>9 DEF orchestrate, board, runs
    <2>2. PICK j \in Job :
              /\ job' = [job EXCEPT ![w] = j]
              /\ j.at \in {"assign", "schedule", "commit"} => j.a \in Agents
              /\ j.at = "complete" => <<j.p, j.s>> \in done
      <3>1. CASE <<p, cur[p]>> \in done /\ jobAt(w, "complete", p, cur[p], NoAgent)
        <4> DEFINE j == [at |-> "complete", p |-> p, s |-> cur[p], a |-> NoAgent]
        <4>1. j \in Job
          BY <1>b DEF Job
        <4> QED BY <3>1, <4>1 DEF jobAt
      <3>2. CASE ~unassigned(p) /\ jobAt(w, "schedule", p, cur[p], agent[p][cur[p]])
        <4> DEFINE j == [at |-> "schedule", p |-> p, s |-> cur[p], a |-> agent[p][cur[p]]]
        <4>1. j \in Job /\ j.a \in Agents
          BY <1>b, <3>2 DEF Job, unassigned, TypeOK
        <4> QED BY <3>2, <4>1 DEF jobAt
      <3>3. ASSUME NEW a \in firstOf(candidates(p, cur[p])), jobAt(w, "assign", p, cur[p], a)
            PROVE  \E j \in Job : /\ job' = [job EXCEPT ![w] = j]
                                  /\ j.at \in {"assign", "schedule", "commit"} => j.a \in Agents
                                  /\ j.at = "complete" => <<j.p, j.s>> \in done
        <4> DEFINE j == [at |-> "assign", p |-> p, s |-> cur[p], a |-> a]
        <4>1. j \in Job /\ j.a \in Agents
          BY <1>b DEF Job, firstOf, candidates
        <4> QED BY <3>3, <4>1 DEF jobAt
      <3> QED BY <1>9, <3>1, <3>2, <3>3 DEF orchestrate
    <2>3. TypeOK'
      BY <2>1, <2>2 DEF TypeOK, Job
    <2>4. HostKnows'
      BY <2>1, <2>2 DEF HostKnows, TypeOK
    <2> QED BY <2>1, <2>3, <2>4, RowsKept, StartKept
  <1>10. ASSUME NEW p \in Pipelines, NEW s \in Stages, transitionComplete(p, s) PROVE IInv'
    <2>1. /\ HadRun(p, s) /\ completeStageFromAgentRun(p, s)
          /\ UNCHANGED <<agent, open, done, stopped, loose, starting, due, bridge, job, todo,
                         crashes>>
      BY <1>10 DEF transitionComplete, completeStageFromAgentRun, HadRun, host
    <2>2. BoardTypes' /\ RowsInv' /\ KeepsStarts
      BY <2>1, CompleteRows
    <2>3. TypeOK' /\ HostKnows'
      BY <2>1, <2>2 DEF TypeOK, BoardTypes, HostKnows
    <2> QED BY <2>1, <2>2, <2>3, StartKept
  <1>11. ASSUME NEW p \in Pipelines, NEW s \in Stages, admit(p, s) PROVE IInv'
    <2>1. /\ open[p][s] = "queued"
          /\ UNCHANGED <<taskStatus, pstatus, cur, stage, decided, agent, done, loose, starting,
                         due, bridge, job, todo, crashes>>
          /\ \/ open' = [open EXCEPT ![p][s] = "running"] /\ UNCHANGED stopped
             \/ open' = [open EXCEPT ![p][s] = "none"] /\ stopped' = stopped \cup {<<p, s>>}
      BY <1>11 DEF admit, board, host
    <2>2. TypeOK'
      <3>1. open' \in [Pipelines -> [Stages -> {"none", "queued", "running", "orphaned"}]]
        <4> DEFINE O == {"none", "queued", "running", "orphaned"}
        <4>1. open \in [Pipelines -> [Stages -> O]] /\ "none" \in O /\ "running" \in O
          BY DEF TypeOK
        <4> HIDE DEF O
        <4>2. open' \in [Pipelines -> [Stages -> O]]
          BY <2>1, <4>1
        <4> QED BY <4>2 DEF O
      <3>2. stopped' \subseteq Pipelines \X Stages
        BY <2>1 DEF TypeOK
      <3> QED BY <2>1, <3>1, <3>2 DEF TypeOK
    <2>3. HadRun(p, s) /\ (open'[p][s] # "none" \/ <<p, s>> \in done' \cup stopped')
      BY <2>1 DEF HadRun, TypeOK
    <2>4. \A q \in Pipelines, e \in Stages : q # p \/ e # s =>
              /\ open'[q][e] = open[q][e]
              /\ <<q, e>> \in done' \cup stopped' <=> <<q, e>> \in done \cup stopped
      BY <2>1 DEF TypeOK
    <2>5. RowsInv' /\ KeepsStarts
      BY <2>1, <2>3, <2>4, RunRows
    <2>6. HostKnows'
      BY <2>1 DEF HostKnows
    <2> QED BY <2>1, <2>2, <2>5, <2>6, StartKept
  <1>12. ASSUME NEW p \in Pipelines, NEW s \in Stages, completeRun(p, s) PROVE IInv'
    <2>1. /\ open[p][s] = "running" /\ open' = [open EXCEPT ![p][s] = "none"]
          /\ done' = done \cup {<<p, s>>} /\ bridge' = bridge \cup {<<p, s>>}
          /\ UNCHANGED <<taskStatus, pstatus, cur, stage, decided, agent, stopped, loose, starting,
                         due, job, todo, crashes>>
      BY <1>12 DEF completeRun, board
    <2>2. TypeOK'
      BY <2>1 DEF TypeOK
    <2>3. HadRun(p, s) /\ (open'[p][s] # "none" \/ <<p, s>> \in done' \cup stopped')
      BY <2>1 DEF HadRun
    <2>4. \A q \in Pipelines, e \in Stages : q # p \/ e # s =>
              /\ open'[q][e] = open[q][e]
              /\ <<q, e>> \in done' \cup stopped' <=> <<q, e>> \in done \cup stopped
      BY <2>1 DEF TypeOK
    <2>5. RowsInv' /\ KeepsStarts
      BY <2>1, <2>3, <2>4, RunRows
    <2>6. HostKnows'
      BY <2>1 DEF HostKnows
    <2> QED BY <2>1, <2>2, <2>5, <2>6, StartKept
  <1>13. ASSUME NEW p \in Pipelines, NEW s \in Stages, stopRun(p, s) PROVE IInv'
    <2>1. /\ open[p][s] # "none" /\ open' = [open EXCEPT ![p][s] = "none"]
          /\ stopped' = stopped \cup {<<p, s>>}
          /\ UNCHANGED <<taskStatus, pstatus, cur, stage, decided, agent, done, loose, starting,
                         due, bridge, job, todo, crashes>>
      BY <1>13 DEF stopRun, board, host
    <2>2. TypeOK'
      BY <2>1 DEF TypeOK
    <2>3. HadRun(p, s) /\ (open'[p][s] # "none" \/ <<p, s>> \in done' \cup stopped')
      BY <2>1 DEF HadRun
    <2>4. \A q \in Pipelines, e \in Stages : q # p \/ e # s =>
              /\ open'[q][e] = open[q][e]
              /\ <<q, e>> \in done' \cup stopped' <=> <<q, e>> \in done \cup stopped
      BY <2>1 DEF TypeOK
    <2>5. RowsInv' /\ KeepsStarts
      BY <2>1, <2>3, <2>4, RunRows
    <2>6. HostKnows'
      BY <2>1 DEF HostKnows
    <2> QED BY <2>1, <2>2, <2>5, <2>6, StartKept
  <1>14. ASSUME NEW p \in Pipelines, NEW s \in Stages, bridgeStage(p, s) PROVE IInv'
    <2>1. /\ <<p, s>> \in bridge /\ completeStageFromAgentRun(p, s) /\ bridge' = bridge \ {<<p, s>>}
          /\ UNCHANGED <<agent, open, done, stopped, loose, starting, due, job, todo, crashes>>
      BY <1>14 DEF bridgeStage, completeStageFromAgentRun
    <2>2. HadRun(p, s)
      BY <2>1 DEF HostKnows, HadRun
    <2>3. BoardTypes' /\ RowsInv' /\ KeepsStarts
      BY <2>1, <2>2, CompleteRows
    <2>4. TypeOK' /\ HostKnows'
      BY <2>1, <2>3 DEF TypeOK, BoardTypes, HostKnows
    <2> QED BY <2>1, <2>3, <2>4, StartKept
  <1>15. ASSUME NEW t \in Tasks, NEW to \in TaskStatuses,
                moveTask(t, to) \/ recordCompletion(t)
         PROVE  IInv'
    <2>1. PICK new \in TaskStatuses :
              /\ taskStatus' = [taskStatus EXCEPT ![t] = new]
              /\ taskStatus[t] \notin terminalTaskStatuses
      <3>1. CASE moveTask(t, to)
        BY <3>1, LifecycleTable DEF moveTask, isTaskTransitionAllowed, TypeOK
      <3>2. CASE recordCompletion(t)
        <4>1. "completed" \in TaskStatuses
          BY DEF TaskStatuses
        <4> QED BY <3>2, <4>1 DEF recordCompletion, isHistoricalCompletionApplicable
      <3> QED BY <1>15, <3>1, <3>2
    <2>2. /\ starting = NoStart /\ due' \in BOOLEAN
          /\ UNCHANGED <<pstatus, cur, stage, decided, agent, open, done, stopped, loose, starting,
                         bridge, job, todo, crashes>>
      BY <1>15 DEF moveTask, recordCompletion, commandIdle, runs, host, TypeOK
    <2>3. TypeOK' /\ StartFresh' /\ HostKnows'
      BY <2>1, <2>2 DEF TypeOK, StartFresh, HostKnows
    <2>4. TaskFollowsPipeline'
      BY <1>b, <2>1, <2>2 DEF RowsInv, TaskFollowsPipeline, terminalTaskStatuses, TypeOK
    <2>5. RowsInv'
      BY <2>2, <2>4 DEF RowsInv, StagesInOrder, StageInOrder, StageEvidence, Evidenced,
          SeparationOfDuties, OnePipelinePerTask, BoundRuns, HadRun, Undecided
    <2> QED BY <2>3, <2>5
  <1>16. ASSUME NEW t \in Tasks, endLooseRun(t) PROVE IInv'
    <2>1. /\ loose' = loose \ {t}
          /\ UNCHANGED <<taskStatus, pstatus, cur, stage, decided, agent, open, done, stopped,
                         starting, due, bridge, job, todo, crashes>>
      BY <1>16 DEF endLooseRun, board, host
    <2>2. TypeOK' /\ HostKnows'
      BY <2>1 DEF TypeOK, HostKnows
    <2> QED BY <2>1, <2>2, RowsKept, StartKept
  <1>17. ASSUME NEW w \in Workers, orchestrateAssign(w) PROVE IInv'
    <2> DEFINE p == job[w].p
               a == job[w].a
    <2>1. /\ p \in Pipelines /\ job[w].s \in Stages /\ a \in Agents
          /\ UNCHANGED <<taskStatus, pstatus, cur, stage, decided, open, done, stopped,
                         loose, starting, due, bridge, todo, crashes>>
      BY <1>17, <1>c DEF orchestrateAssign, HostKnows, board, runs, Job
    <2>2. CASE /\ assignable(p, a) /\ agent' = [agent EXCEPT ![p][cur[p]] = a]
               /\ jobAt(w, "schedule", p, job[w].s, a)
      <3>1. /\ agent' \in [Pipelines -> [Stages -> Agents \cup {NoAgent}]]
            /\ RowsInv' /\ KeepsStarts
        BY <2>1, <2>2, AssignRows
      <3>2. [at |-> "schedule", p |-> p, s |-> job[w].s, a |-> a] \in Job
        BY <2>1 DEF Job
      <3>3. TypeOK'
        BY <2>1, <2>2, <3>1, <3>2 DEF TypeOK, jobAt, Job
      <3>4. HostKnows'
        BY <2>1, <2>2 DEF HostKnows, jobAt, TypeOK
      <3> QED BY <2>1, <3>1, <3>3, <3>4, StartKept
    <2>3. CASE jobEnds(w) /\ UNCHANGED agent
      <3>1. TypeOK'
        BY <1>a, <2>1, <2>3 DEF TypeOK, jobEnds, Job
      <3>2. HostKnows'
        BY <1>a, <2>1, <2>3 DEF HostKnows, jobEnds, TypeOK
      <3> QED BY <2>1, <2>3, <3>1, <3>2, RowsKept, StartKept
    <2> QED BY <1>17, <2>2, <2>3 DEF orchestrateAssign
  <1>18. ASSUME NEW w \in Workers, orchestrateComplete(w) PROVE IInv'
    <2>1. /\ job[w].p \in Pipelines /\ job[w].s \in Stages
          /\ <<job[w].p, job[w].s>> \in done
          /\ completeStageFromAgentRun(job[w].p, job[w].s) /\ jobEnds(w)
          /\ UNCHANGED <<agent, open, done, stopped, loose, starting, due, bridge, todo, crashes>>
      BY <1>18, <1>c DEF orchestrateComplete, completeStageFromAgentRun, HostKnows, Job
    <2>2. BoardTypes' /\ RowsInv' /\ KeepsStarts
      <3>1. HadRun(job[w].p, job[w].s)
        BY <2>1 DEF HadRun
      <3> QED BY <2>1, <3>1, CompleteRows
    <2>3. TypeOK'
      BY <1>a, <2>1, <2>2 DEF TypeOK, BoardTypes, jobEnds, Job
    <2>4. HostKnows'
      BY <1>a, <2>1 DEF HostKnows, jobEnds, TypeOK
    <2> QED BY <2>1, <2>2, <2>3, <2>4, StartKept
  <1>19. ASSUME NEW w \in Workers, scheduleCheck(w) PROVE IInv'
    <2>1. /\ job[w].p \in Pipelines /\ job[w].s \in Stages /\ job[w].a \in Agents
          /\ UNCHANGED <<taskStatus, pstatus, cur, stage, decided, agent, open, done, stopped,
                         loose, starting, due, bridge, todo, crashes>>
      BY <1>19, <1>c DEF scheduleCheck, HostKnows, board, runs, Job
    <2>2. PICK j \in Job :
              /\ job' = [job EXCEPT ![w] = j]
              /\ j = IdleJob \/ (j.at = "commit" /\ j.a \in Agents)
      <3> DEFINE j == [at |-> "commit", p |-> job[w].p, s |-> job[w].s, a |-> job[w].a]
      <3>1. j \in Job
        BY <2>1 DEF Job
      <3>2. job' = [job EXCEPT ![w] = j] \/ job' = [job EXCEPT ![w] = IdleJob]
        BY <1>19 DEF scheduleCheck, jobAt, jobEnds
      <3>3. j.at = "commit" /\ j.a \in Agents
        BY <2>1
      <3> HIDE DEF j
      <3> QED BY <1>a, <3>1, <3>2, <3>3
    <2>3. TypeOK'
      BY <2>1, <2>2 DEF TypeOK, Job
    <2>4. HostKnows'
      BY <1>a, <2>1, <2>2 DEF HostKnows, TypeOK
    <2> QED BY <2>1, <2>3, <2>4, RowsKept, StartKept
  <1>20. ASSUME NEW w \in Workers, scheduleCommit(w) PROVE IInv'
    <2>1. /\ job[w].p \in Pipelines /\ job[w].a \in Agents /\ jobEnds(w)
          /\ UNCHANGED <<taskStatus, pstatus, cur, stage, decided, agent, done, stopped,
                         starting, due, bridge, todo, crashes>>
      BY <1>20, <1>c DEF scheduleCommit, HostKnows, board, Job
    <2>2. HostKnows'
      BY <1>a, <2>1 DEF HostKnows, jobEnds, TypeOK
    <2>3. CASE UNCHANGED <<open, loose>> \/ (UNCHANGED open /\ loose' = loose \cup {TaskOf[job[w].p]})
      <3>1. TypeOK'
        BY <1>a, <1>b, <2>1, <2>3 DEF TypeOK, jobEnds, Job
      <3> QED BY <2>1, <2>2, <2>3, <3>1, RowsKept, StartKept
    <2>4. ASSUME NEW q \in activePipelines(TaskOf[job[w].p]), agent[q][cur[q]] = job[w].a,
                 open' = [open EXCEPT ![q][cur[q]] = "queued"], UNCHANGED loose
          PROVE  IInv'
      <3>1. q \in Pipelines /\ cur[q] \in Stages /\ agent[q][cur[q]] # NoAgent
        BY <1>b, <2>1, <2>4, PipelineAssumption DEF activePipelines
      <3>2. TypeOK'
        BY <1>a, <2>1, <2>4, <3>1 DEF TypeOK, jobEnds, Job
      <3>3. open'[q][cur[q]] # "none"
        BY <2>4, <3>1 DEF TypeOK
      <3>4. \A r \in Pipelines, e \in Stages : r # q \/ e # cur[q] =>
                /\ open'[r][e] = open[r][e]
                /\ <<r, e>> \in done' \cup stopped' <=> <<r, e>> \in done \cup stopped
        BY <2>1, <2>4, <3>1 DEF TypeOK
      <3>5. RowsInv' /\ KeepsStarts
        BY <2>1, <3>1, <3>3, <3>4, RunRows
      <3> QED BY <2>1, <2>2, <3>2, <3>5, StartKept
    <2>5. \/ UNCHANGED <<open, loose>>
          \/ UNCHANGED open /\ loose' = loose \cup {TaskOf[job[w].p]}
          \/ \E q \in activePipelines(TaskOf[job[w].p]) :
                /\ agent[q][cur[q]] = job[w].a
                /\ open' = [open EXCEPT ![q][cur[q]] = "queued"] /\ UNCHANGED loose
      BY <1>20 DEF scheduleCommit
    <2> QED BY <2>3, <2>4, <2>5
  <1>21. ASSUME NEW w \in Sweepers, scan(w) PROVE IInv'
    <2>1. /\ todo' = [todo EXCEPT ![w] = suspendedStages] /\ due' \in BOOLEAN
          /\ UNCHANGED <<taskStatus, pstatus, cur, stage, decided, agent, open, done, stopped,
                         loose, starting, bridge, job, crashes>>
      BY <1>21 DEF scan, board, runs
    <2>2. suspendedStages \subseteq done
      BY DEF suspendedStages, resumable, suspended
    <2>3. TypeOK' /\ HostKnows'
      BY <2>1, <2>2 DEF TypeOK, HostKnows
    <2> QED BY <2>1, <2>3, RowsKept, StartKept
  <1>22. ASSUME NEW w \in Sweepers, resumeNext(w) PROVE IInv'
    <2>1. PICK c \in todo[w] :
              /\ completeStageFromAgentRun(c[1], c[2])
              /\ todo' = [todo EXCEPT ![w] = IF taskRefuses(c[1], c[2]) THEN {} ELSE todo[w] \ {c}]
              /\ UNCHANGED <<starting, due, bridge, job, crashes>>
      BY <1>22 DEF resumeNext, TypeOK
    <2>2. /\ c[1] \in Pipelines /\ c[2] \in Stages /\ HadRun(c[1], c[2])
          /\ todo'[w] \subseteq todo[w]
          /\ todo' \in [Sweepers -> SUBSET (Pipelines \X Stages)]
      <3>1. todo[w] \subseteq Pipelines \X Stages /\ c \in done
        BY <2>1 DEF TypeOK, HostKnows
      <3>2. c[1] \in Pipelines /\ c[2] \in Stages /\ <<c[1], c[2]>> = c
        BY <2>1, <3>1, PairOf
      <3> QED BY <2>1, <3>1, <3>2 DEF TypeOK, HadRun
    <2>3. BoardTypes' /\ RowsInv' /\ KeepsStarts
      BY <2>1, <2>2, CompleteRows
    <2>4. UNCHANGED <<agent, open, done, stopped, loose>>
      BY <2>1 DEF completeStageFromAgentRun
    <2>5. TypeOK' /\ HostKnows'
      BY <2>1, <2>2, <2>3, <2>4 DEF TypeOK, BoardTypes, HostKnows
    <2> QED BY <2>1, <2>3, <2>5, StartKept
  <1>23. ASSUME crash PROVE IInv'
    <2>1. /\ \A p \in Pipelines, s \in Stages :
                open'[p][s] = IF open[p][s] = "running" THEN "orphaned" ELSE open[p][s]
          /\ open' \in [Pipelines -> [Stages -> {"none", "queued", "running", "orphaned"}]]
          /\ starting' = NoStart /\ due' = FALSE /\ bridge' = {} /\ crashes' \in 0 .. MaxCrashes
          /\ job' = [w \in Workers |-> IdleJob] /\ todo' = [w \in Sweepers |-> {}]
          /\ UNCHANGED <<taskStatus, pstatus, cur, stage, decided, agent, done, stopped, loose>>
      BY <1>23, PipelineAssumption DEF crash, board, TypeOK
    <2>2. TypeOK'
      BY <1>a, <2>1 DEF TypeOK, Job
    <2>3. StartFresh' /\ HostKnows'
      BY <1>a, <2>1 DEF StartFresh, HostKnows
    <2>4. \A p \in Pipelines, s \in Stages :
              (open'[p][s] = "none" <=> open[p][s] = "none") /\ HadRun(p, s)' = HadRun(p, s)
      BY <2>1 DEF HadRun
    <2>5. ASSUME NEW p \in Pipelines, NEW s \in Stages
          PROVE  StageInOrder(p, s)' /\ Evidenced(p, s)'
      BY <2>1, <2>4 DEF RowsInv, StagesInOrder, StageEvidence, StageInOrder, Evidenced
    <2>6. BoundRuns'
      BY <2>1, <2>4 DEF RowsInv, BoundRuns
    <2>7. SeparationOfDuties' /\ TaskFollowsPipeline' /\ OnePipelinePerTask' /\ Undecided'
      BY <2>1 DEF RowsInv, SeparationOfDuties, TaskFollowsPipeline, OnePipelinePerTask, Undecided
    <2> QED BY <2>2, <2>3, <2>5, <2>6, <2>7 DEF RowsInv, StagesInOrder, StageEvidence
  <1>24. CASE UNCHANGED vars
    <2>1. UNCHANGED <<taskStatus, pstatus, cur, stage, decided, agent, open, done, stopped,
                      loose, starting, due, bridge, job, todo, crashes>>
      BY <1>24 DEF vars
    <2>2. TypeOK' /\ HostKnows'
      BY <2>1 DEF TypeOK, HostKnows
    <2> QED BY <2>1, <2>2, RowsKept, StartKept
  <1>25. "pending" \in TaskStatuses
    BY DEF TaskStatuses
  <1> QED
    BY <1>1, <1>2, <1>3, <1>4, <1>5, <1>6, <1>7, <1>8, <1>9, <1>10, <1>11, <1>12, <1>13,
       <1>14, <1>15, <1>16, <1>17, <1>18, <1>19, <1>20, <1>21, <1>22, <1>23, <1>24, <1>25
    DEF Next

\* Nothing has begun.
LEMMA InvariantInit == ASSUME Init PROVE IInv
  <1> USE PipelineAssumption
  <1>1. 1 \in Stages /\ 1 \in Pipelines /\ \A s \in Stages : s \in Nat /\ ~(s < 1)
    BY DEF Stages, Pipelines
  <1>2. IdleJob \in [at : {"idle", "assign", "schedule", "commit", "complete"},
                     p : Pipelines, s : Stages, a : Agents \cup {NoAgent}]
    BY <1>1 DEF IdleJob
  <1>3. TypeOK
    <2>1. /\ taskStatus \in [Tasks -> TaskStatuses]
          /\ stage \in [Pipelines -> [Stages -> StageStatuses]]
      BY DEF Init, TaskStatuses, StageStatuses
    <2>2. /\ pstatus \in [Pipelines -> {"absent", "active", "completed", "cancelled"}]
          /\ decided \in [Pipelines -> [Stages -> {"none", "approved", "rejected", "overridden"}]]
          /\ open \in [Pipelines -> [Stages -> {"none", "queued", "running", "orphaned"}]]
          /\ cur \in [Pipelines -> Stages]
          /\ agent \in [Pipelines -> [Stages -> Agents \cup {NoAgent}]]
      BY <1>1 DEF Init
    <2>3. job \in [Workers -> [at : {"idle", "assign", "schedule", "commit", "complete"},
                               p : Pipelines, s : Stages, a : Agents \cup {NoAgent}]]
      BY <1>2 DEF Init
    <2>4. starting = NoStart /\ due \in BOOLEAN
      BY DEF Init
    <2>6. crashes \in 0 .. MaxCrashes
      BY DEF Init
    <2>5. todo \in [Sweepers -> SUBSET (Pipelines \X Stages)]
      BY DEF Init
    <2> QED BY <2>1, <2>2, <2>3, <2>4, <2>5, <2>6 DEF Init, TypeOK
  <1>4. StagesInOrder /\ StageEvidence
    BY <1>1 DEF Init, StagesInOrder, StageInOrder, StageEvidence, Evidenced
  <1>5. SeparationOfDuties /\ TaskFollowsPipeline /\ OnePipelinePerTask
    BY DEF Init, SeparationOfDuties, TaskFollowsPipeline, OnePipelinePerTask
  <1>6. BoundRuns /\ Undecided
    BY <1>1 DEF Init, BoundRuns, HadRun, Undecided
  <1>7. StartFresh /\ HostKnows
    BY DEF Init, StartFresh, HostKnows, IdleJob
  <1> QED BY <1>3, <1>4, <1>5, <1>6, <1>7 DEF IInv, RowsInv

\* The inductive invariant holds in every reachable state.
THEOREM Invariance == Spec => []IInv
  BY InvariantInit, InvariantStep, PTL DEF Spec

\* Rows and host state keep their types (pipeline_run, pipeline_stage_run).
THEOREM TypeCorrect == Spec => []TypeOK
  BY Invariance, PTL DEF IInv

\* Whatever bridges, sweeps, replays and operators race to end a stage, stages
\* end in their order (finishCurrent, completeStage).
THEOREM InOrder == Spec => []StagesInOrder
  BY Invariance, PTL DEF IInv, RowsInv

\* No stage is completed without an agent's run, and its approval, or an
\* override (completeStageFromAgentRun, approveStage).
THEOREM CompletedOnEvidence == Spec => []StageEvidence
  BY Invariance, PTL DEF IInv, RowsInv

\* No agent works on a stage separated from one it worked on, not even when an
\* orchestration assigns on what it read earlier (assign).
THEOREM DutiesAreSeparate == Spec => []SeparationOfDuties
  BY Invariance, PTL DEF IInv, RowsInv

\* What pipeline:start read before its transaction is still so inside it,
\* although the ticks go on in between.
THEOREM StartsAreFresh == Spec => []StartFresh
  BY Invariance, PTL DEF IInv

\* Pipelines, their stages and their tasks agree in every reachable state.
THEOREM PipelinesAreSafe == Spec => []PipelineSafety
  BY Invariance, PTL DEF IInv, RowsInv, PipelineSafety

-----------------------------------------------------------------------------
\* What a step may do to a pipeline, its task, its assignments and decisions.
StepRules == KeepsFinishedTasks /\ KeepsStranded /\ KeepsDecisions

\* A task that ends with its pipeline had not ended, and only the undecided
\* current stage of an active pipeline is decided.
LEMMA FinishRules ==
    ASSUME TypeOK, RowsInv, NEW p \in Pipelines, pstatus[p] = "active",
           finishable(p), finishCurrent(p), UNCHANGED agent,
           NEW d, decided' = [decided EXCEPT ![p][cur[p]] = d]
    PROVE  StepRules
  <1>0. /\ TaskOf[p] \in Tasks /\ cur[p] \in Stages /\ cur[p] \in Nat /\ NumStages \in Nat
        /\ decided[p][cur[p]] = "none" /\ taskStatus[TaskOf[p]] \in TaskStatuses
    <2>1. cur[p] \in Stages /\ NumStages \in Nat /\ \A s \in Stages : s \in Nat
      BY PipelineAssumption DEF TypeOK, Stages
    <2> QED BY <2>1, PipelineAssumption DEF TypeOK, RowsInv, Undecided
  <1>1. KeepsDecisions
    BY <1>0 DEF KeepsDecisions, TypeOK
  <1>2. CASE cur[p] < NumStages
    BY <1>1, <1>2 DEF finishCurrent, StepRules, KeepsFinishedTasks, KeepsStranded
  <1>3. CASE ~(cur[p] < NumStages)
    <2>1. taskStatus[TaskOf[p]] \notin terminalTaskStatuses
      BY <1>0, <1>3, LifecycleTable DEF finishable, taskFollows, isTaskTransitionAllowed
    <2>2. /\ taskStatus' = [taskStatus EXCEPT ![TaskOf[p]] = "completed"]
          /\ pstatus' = [pstatus EXCEPT ![p] = "completed"]
      BY <1>3 DEF finishCurrent
    <2> QED BY <1>1, <2>1, <2>2 DEF StepRules, KeepsFinishedTasks, KeepsStranded, TypeOK
  <1> QED BY <1>2, <1>3

LEMMA CompleteRules ==
    ASSUME TypeOK, RowsInv, NEW p \in Pipelines, NEW s \in Stages,
           completeStageFromAgentRun(p, s)
    PROVE  StepRules
  <1>1. CASE ~completable(p, s)
    BY <1>1 DEF completeStageFromAgentRun, board, StepRules, KeepsFinishedTasks, KeepsStranded,
        KeepsDecisions
  <1>2. CASE completable(p, s)
    <2>1. /\ pstatus[p] = "active" /\ cur[p] = s /\ completeStage(p)
          /\ s \in RequiresApproval \/ finishable(p)
          /\ UNCHANGED <<agent, decided>>
      BY <1>2 DEF completeStageFromAgentRun, completeStage, completable, mayComplete, current
    <2>2. CASE s \in RequiresApproval
      BY <2>1, <2>2 DEF completeStage, StepRules, KeepsFinishedTasks, KeepsStranded, KeepsDecisions
    <2>3. CASE s \notin RequiresApproval
      <3>1. decided' = [decided EXCEPT ![p][cur[p]] = decided[p][cur[p]]]
        BY <2>1 DEF TypeOK
      <3>2. finishable(p) /\ finishCurrent(p)
        BY <2>1, <2>3 DEF completeStage
      <3> QED BY <2>1, <3>1, <3>2, FinishRules
    <2> QED BY <2>2, <2>3
  <1> QED BY <1>1, <1>2

LEMMA CancelRules ==
    ASSUME TypeOK, RowsInv, NEW p \in Pipelines, NEW statuses, pstatus[p] = "active",
           taskFollows(p, "cancelled"), cancelStages(p, statuses), UNCHANGED agent,
           NEW d, UNCHANGED decided \/ decided' = [decided EXCEPT ![p][cur[p]] = d]
    PROVE  StepRules
  <1>0. /\ TaskOf[p] \in Tasks /\ cur[p] \in Stages
        /\ decided[p][cur[p]] = "none" /\ taskStatus[TaskOf[p]] \in TaskStatuses
    BY PipelineAssumption DEF TypeOK, RowsInv, Undecided
  <1>1. KeepsDecisions
    <2>1. CASE UNCHANGED decided
      BY <2>1 DEF KeepsDecisions
    <2>2. CASE decided' = [decided EXCEPT ![p][cur[p]] = d]
      BY <1>0, <2>2 DEF KeepsDecisions, TypeOK
    <2> QED BY <2>1, <2>2
  <1>2. taskStatus[TaskOf[p]] \notin terminalTaskStatuses
    BY <1>0, LifecycleTable DEF taskFollows, isTaskTransitionAllowed
  <1>3. /\ taskStatus' = [taskStatus EXCEPT ![TaskOf[p]] = "cancelled"]
        /\ pstatus' = [pstatus EXCEPT ![p] = "cancelled"]
    BY DEF cancelStages
  <1> QED BY <1>1, <1>2, <1>3 DEF StepRules, KeepsFinishedTasks, KeepsStranded, TypeOK

\* Every step keeps to the rules.
LEMMA RulesKept == ASSUME IInv, [Next]_vars PROVE StepRules
  <1> USE DEF IInv
  <1>b. \A p \in Pipelines : TaskOf[p] \in Tasks /\ cur[p] \in Stages
    BY PipelineAssumption DEF TypeOK
  <1>1. CASE UNCHANGED <<taskStatus, pstatus, agent, decided>>
    BY <1>1 DEF StepRules, KeepsFinishedTasks, KeepsStranded, KeepsDecisions
  <1>2. CASE startCommit
    <2>1. CASE UNCHANGED <<taskStatus, pstatus>>
      BY <1>2, <2>1 DEF startCommit, StepRules, KeepsFinishedTasks, KeepsStranded, KeepsDecisions
    <2>2. CASE /\ startable(starting.p, starting.from)
               /\ taskStatus' = [taskStatus EXCEPT ![TaskOf[starting.p]] = "running"]
               /\ pstatus' = [pstatus EXCEPT ![starting.p] = "active"]
      <3>1. /\ starting.from \in TaskStatuses /\ starting.p \in Pipelines
            /\ taskStatus[TaskOf[starting.p]] = starting.from
        BY <1>2 DEF startCommit, StartFresh, TypeOK
      <3>2. starting.from \notin terminalTaskStatuses
        BY <2>2, <3>1, LifecycleTable DEF startable, isTaskTransitionAllowed
      <3> QED
        BY <1>2, <1>b, <2>2, <3>1, <3>2
        DEF startCommit, StepRules, KeepsFinishedTasks, KeepsStranded, KeepsDecisions, TypeOK
    <2> QED BY <1>2, <2>1, <2>2 DEF startCommit
  <1>3. ASSUME NEW p \in Pipelines, NEW a \in Agents, assignable(p, a),
               agent' = [agent EXCEPT ![p][cur[p]] = a], UNCHANGED <<taskStatus, pstatus, decided>>
        PROVE  StepRules
    <2>1. agent[p][cur[p]] = NoAgent
      BY <1>3 DEF assignable, unassigned
    <2> QED BY <1>3, <1>b, <2>1
        DEF StepRules, KeepsFinishedTasks, KeepsStranded, KeepsDecisions, TypeOK
  <1>4. ASSUME NEW p \in Pipelines,
               approveStage(p) \/ rejectStage(p) \/ overrideCurrent(p) \/ cancel(p)
        PROVE  StepRules
    <2>1. CASE approveStage(p)
      BY <2>1, FinishRules DEF approveStage, current
    <2>2. CASE rejectStage(p)
      BY <2>2, CancelRules DEF rejectStage, current
    <2>3. CASE overrideCurrent(p)
      BY <2>3, FinishRules DEF overrideCurrent
    <2>4. CASE cancel(p)
      BY <2>4, CancelRules DEF cancel
    <2> QED BY <1>4, <2>1, <2>2, <2>3, <2>4
  <1>5. ASSUME NEW t \in Tasks, NEW to, moveTask(t, to) \/ recordCompletion(t) PROVE StepRules
    <2>1. /\ taskStatus[t] \notin terminalTaskStatuses
          /\ UNCHANGED <<pstatus, agent, decided>>
          /\ \A u \in Tasks : u # t => taskStatus'[u] = taskStatus[u]
      <3>1. taskStatus[t] \in TaskStatuses
        BY DEF TypeOK
      <3> QED BY <1>5, <3>1, LifecycleTable DEF moveTask, recordCompletion, TypeOK,
          isTaskTransitionAllowed, isHistoricalCompletionApplicable
    <2> QED BY <2>1 DEF StepRules, KeepsFinishedTasks, KeepsStranded, KeepsDecisions
  <1>6. ASSUME NEW w \in Workers, orchestrateAssign(w) PROVE StepRules
    <2>1. job[w].p \in Pipelines /\ job[w].a \in Agents
      BY <1>6 DEF orchestrateAssign, HostKnows, TypeOK
    <2> QED BY <1>1, <1>3, <1>6, <2>1 DEF orchestrateAssign, board
  <1>7. ASSUME NEW w \in Workers, orchestrateComplete(w) PROVE StepRules
    <2>1. job[w].p \in Pipelines /\ job[w].s \in Stages
      BY DEF TypeOK
    <2> QED BY <1>7, <2>1, CompleteRules DEF orchestrateComplete
  <1>8. ASSUME NEW w \in Sweepers, resumeNext(w) PROVE StepRules
    <2>1. PICK c \in todo[w] : completeStageFromAgentRun(c[1], c[2])
      BY <1>8 DEF resumeNext
    <2>2. c[1] \in Pipelines /\ c[2] \in Stages
      BY <2>1 DEF TypeOK
    <2> QED BY <2>1, <2>2, CompleteRules
  <1>9. ASSUME NEW p \in Pipelines, NEW s \in Stages, transitionComplete(p, s) \/ bridgeStage(p, s)
        PROVE  StepRules
    BY <1>9, CompleteRules DEF transitionComplete, bridgeStage
  <1>10. ASSUME NEW p \in Pipelines, NEW a \in Agents, assign(p, a) PROVE StepRules
    BY <1>3, <1>10 DEF assign, board
  <1>11. ASSUME NEW p \in Pipelines, NEW s \in Stages, admit(p, s) \/ completeRun(p, s) \/ stopRun(p, s)
         PROVE  UNCHANGED <<taskStatus, pstatus, agent, decided>>
    BY <1>11 DEF admit, completeRun, stopRun, board
  <1>12. ASSUME NEW p \in Pipelines, startRead(p) \/ \E a \in Agents : runSchedule(p, a)
         PROVE  UNCHANGED <<taskStatus, pstatus, agent, decided>>
    BY <1>12 DEF startRead, runSchedule, board
  <1>13. ASSUME NEW w \in Workers,
                scheduleCheck(w) \/ scheduleCommit(w) \/ \E p \in Pipelines : orchestrate(w, p)
         PROVE  UNCHANGED <<taskStatus, pstatus, agent, decided>>
    BY <1>13 DEF scheduleCheck, scheduleCommit, orchestrate, board
  <1>14. ASSUME NEW w \in Sweepers, scan(w) PROVE UNCHANGED <<taskStatus, pstatus, agent, decided>>
    BY <1>14 DEF scan, board
  <1>15. ASSUME crash \/ (\E t \in Tasks : endLooseRun(t)) \/ UNCHANGED vars
         PROVE  UNCHANGED <<taskStatus, pstatus, agent, decided>>
    BY <1>15 DEF crash, endLooseRun, vars, board
  <1> QED
    BY <1>1, <1>2, <1>4, <1>5, <1>6, <1>7, <1>8, <1>9, <1>10, <1>11, <1>12, <1>13, <1>14, <1>15
    DEF Next

\* No step reopens a finished task, ends a pipeline underneath one or changes a
\* decision or an assignment (start, syncTaskTerminal, assign).
THEOREM PipelineStepsHold == Spec => PipelineSteps
  <1>1. IInv /\ [Next]_vars => [KeepsFinishedTasks /\ KeepsStranded /\ KeepsDecisions]_vars
    BY RulesKept DEF StepRules
  <1> QED BY <1>1, Invariance, PTL DEF Spec, PipelineSteps
=============================================================================
